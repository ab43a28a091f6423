\* Two threads, changing privileges, an errno that other calls leave behind.
CONSTANTS
  t1 = t1
  t2 = t2
  None = None
  Threads = {t1, t2}
  Nices <- MCNices
  Floors <- MCFloors
SPECIFICATION Spec
INVARIANTS TypeOK ErrorIffRefused DemotionNeverDenied
PROPERTIES KeepsContract
