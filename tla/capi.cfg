\* Two threads of two processes, boxes and buffers in circulation.
CONSTANTS
  p1 = p1
  p2 = p2
  p3 = p3
  None = None
  Threads = {1, 2}
  Home <- MCHome
  Levels <- MCLevels
  RealTimeLevels <- MCRealTime
  Base = 4
  LongSize = 4
  IntSize = 2
  Pthreads = {254, 255}
  Ptrs = {p1, p2, p3}
  Rates = {0, 48000}
  MaxBuffers = 1
SPECIFICATION ApiSpec
INVARIANTS RoundTrip ApiTypeOK BoxesOwned InfosGenuine RealTimeIffPromised RemembersOrdinary
PROPERTIES KeepsContract
SYMMETRY MCSymmetry
\* It stops once ids run out and handles are spent.
CHECK_DEADLOCK FALSE
