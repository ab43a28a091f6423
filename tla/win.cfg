\* Three threads that promote, demote, exit, and race for the library.
CONSTANTS
  t1 = t1
  t2 = t2
  t3 = t3
  Threads = {t1, t2, t3}
  None = None
SPECIFICATION FairSpec
INVARIANTS TypeOK FirstCallAlone LibraryHeld DemotionFindsLibrary WaitersServed
PROPERTIES NothingSetBack CallsReturn KeepsContract
