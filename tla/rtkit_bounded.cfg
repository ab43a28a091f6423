\* Racing clients, late answers, a privileged process with limits of its own.
CONSTANTS
  audio = audio
  worker = worker
  parent = parent
  content = content
  broker = broker
  h1 = h1
  h2 = h2
  None = None
  Tids = {audio, worker, parent}
  Procs = {content, broker}
  HandleIds = {h1, h2}
  Home <- MCHome
  Hosts <- MCHosts
  Born = {audio, worker, parent}
  Batch = {}
  Root = {content, broker}
  Droppers = {content}
  RtprioInit <- MCNoRtprio
  RtprioSet = {}
  SameOwner = TRUE
  MaxInfos = 1
  Exclusive = FALSE
  MaxRtTime = 200000
  Infinity = 1000000
  RttimeInit <- MCGenerous
  Frames = {0}
  Rates = {8000}
  Brokers = {broker}
  Limiters = {content}
  Sandboxed = {}
  Punctual = FALSE
SPECIFICATION Spec
SYMMETRY MCThreadSymmetry
INVARIANTS BoundedRealTime SandboxedCanDemote
PROPERTIES NoInheritedRealTime
\* The machine stops once every thread has exited.
CHECK_DEADLOCK FALSE
