\* Threads used from one place at a time, against the contract.
CONSTANTS
  audio = audio
  worker = worker
  parent = parent
  content = content
  broker = broker
  h1 = h1
  h2 = h2
  None = None
  Tids = {audio, worker, parent}
  Procs = {content, broker}
  HandleIds = {h1, h2}
  Home <- MCHome
  Hosts <- MCHosts
  Born <- MCBorn
  Batch = {audio}
  Root <- MCRoot
  Droppers = {}
  RtprioInit <- MCRtprio
  RtprioSet = {0}
  SameOwner = TRUE
  MaxInfos = 1
  Exclusive = TRUE
  Priorities = {0, 99, 100, 255}
SPECIFICATION Spec
SYMMETRY MCSymmetry
INVARIANTS TypeOK RequestAlwaysValid
PROPERTIES KeepsContract
