SPECIFICATION PanelsSpec
CONSTANTS
  MaxTask = 2
  MaxReplies = 2
  MaxCommands = 2
  WslPaths = {"home", "sub"}
  WslHome = "home"
  MaxWslTasks = 1
  MaxWslCalls = 3
  MaxVisits = 3
  Ports = {p1}
  NoPort = none
  MaxOpenings = 3
  MaxPlugs = 1
  Drafts = {"a", "0F"}
  OddDrafts = {"a"}
  Blank = ""
  MaxSlots = 1
  MaxSent = 2
  Period = 2
  MaxEdits = 4
  MaxOutputs = 1
  MaxFlying = 2
  Networks = {"lan", "bad"}
  OwnNetwork = "lan"
  HostsOf <- ScanHosts
  ScanDrafts <- ScanDraftSet
  MaxScans = 3
  MaxStops = 1
  SavedHosts <- HostsInOrder
  Natures <- HostNatures
  AtATime = 1
  MaxDelay = 4
  RequestTime = 1
  MaxHostEdits = 1
PROPERTIES
  ViewSound
  EndIsReread
  ClosedIsReleased
  TimedSendsGoOn
  ScanSound
  ReachableHostIsShown
CHECK_DEADLOCK FALSE
