\* Nothing is assumed of the daemon: every call returns.
CONSTANTS
  audio = audio
  worker = worker
  parent = parent
  content = content
  broker = broker
  h1 = h1
  h2 = h2
  None = None
  Tids = {audio, parent}
  Procs = {content, broker}
  HandleIds = {h1, h2}
  Home <- MCHome
  Hosts <- MCHosts
  Born = {audio, parent}
  Batch = {}
  Root = {content, broker}
  Droppers = {}
  RtprioInit <- MCNoRtprio
  RtprioSet = {}
  SameOwner = TRUE
  MaxInfos = 1
  Exclusive = FALSE
  MaxRtTime = 200000
  Infinity = 1000000
  RttimeInit <- MCUnlimited
  Frames = {0, 2000}
  Rates = {8000}
  Brokers = {broker}
  Limiters = {content}
  Sandboxed = {content}
  Punctual = FALSE
SPECIFICATION FairSpec
PROPERTIES NothingSetBack CallsReturn
\* The machine stops once every thread has exited.
CHECK_DEADLOCK FALSE
