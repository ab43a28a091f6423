\* Clients that race: stale infos, nested promotions, threads that go away.
CONSTANTS
  audio = audio
  worker = worker
  parent = parent
  content = content
  broker = broker
  h1 = h1
  h2 = h2
  None = None
  Tids = {audio, worker, parent}
  Procs = {content, broker}
  HandleIds = {h1, h2}
  Home <- MCHome
  Hosts <- MCMovable
  Born <- MCBorn
  Batch = {}
  Root <- MCRoot
  Droppers <- MCRoot
  RtprioInit <- MCRtprio
  RtprioSet = {}
  SameOwner = TRUE
  MaxInfos = 1
  Exclusive = FALSE
  Priorities = {100}
SPECIFICATION Spec
SYMMETRY MCSymmetry
INVARIANTS DemotionNeverDenied
PROPERTIES NoInheritedRealTime
\* The machine stops once every thread has exited.
CHECK_DEADLOCK FALSE
