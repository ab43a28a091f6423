\* Threads used from one place at a time, a late daemon and a process that drops its privilege, against the contract.
CONSTANTS
  audio = audio
  worker = worker
  parent = parent
  content = content
  broker = broker
  h1 = h1
  h2 = h2
  None = None
  Tids = {audio, worker, parent}
  Procs = {content, broker}
  HandleIds = {h1, h2}
  Home <- MCHome
  Hosts <- MCHosts
  Born = {audio, worker, parent}
  Batch = {audio, worker}
  Root = {content, broker}
  Droppers = {content}
  RtprioInit <- MCNoRtprio
  RtprioSet = {}
  SameOwner = TRUE
  MaxInfos = 1
  Exclusive = TRUE
  MaxRtTime = 200000
  Infinity = 1000000
  RttimeInit <- MCLowered
  Frames = {0}
  Rates = {8000}
  Brokers = {broker}
  Limiters = {}
  Sandboxed = {}
  Punctual = FALSE
SPECIFICATION Spec
SYMMETRY MCThreadSymmetry
INVARIANTS TypeOK RealTimeIffPromised
PROPERTIES KeepsContract MisledOnly
\* The machine stops once every thread has exited.
CHECK_DEADLOCK FALSE
