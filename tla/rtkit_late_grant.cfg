\* A promotion that times out while the daemon grants it.
CONSTANTS
  audio = audio
  worker = worker
  parent = parent
  content = content
  broker = broker
  h1 = h1
  h2 = h2
  None = None
  Tids = {audio, worker, parent}
  Procs = {content, broker}
  HandleIds = {h1, h2}
  Home <- MCHome
  Hosts <- MCHosts
  Born = {audio, parent}
  Batch = {audio}
  Root = {content, broker}
  Droppers = {}
  RtprioInit <- MCNoRtprio
  RtprioSet = {}
  SameOwner = TRUE
  MaxInfos = 1
  Exclusive = TRUE
  MaxRtTime = 200000
  Infinity = 1000000
  RttimeInit <- MCUnlimited
  Frames = {0}
  Rates = {8000}
  Brokers = {broker}
  Limiters = {}
  Sandboxed = {}
  Punctual = FALSE
SPECIFICATION Spec
\* The machine stops once every thread has exited.
CHECK_DEADLOCK FALSE
INVARIANTS NullMeansNotPromoted
