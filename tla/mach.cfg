\* Two threads; default, small, large and saturating buffers.
CONSTANTS
  t1 = t1
  t2 = t2
  None = None
  Timeshare = Timeshare
  Threads = {t1, t2}
  Frames = {0, 1, 512, 8192, 40000}
  Rates = {0, 8000, 48000}
  TicksPerMs = 20
  U32Max = 85899
  Default <- MCDefault
  Custom <- MCCustom
SPECIFICATION Spec
INVARIANTS TypeOK RequestAcceptable
PROPERTIES KeepsContract
