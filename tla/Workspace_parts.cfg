SPECIFICATION WorkspaceSpec
CONSTANTS
  Calls = {a, b}
  Protocols = {"ssh", "sftp", "raw", "shell"}
  MaxId = 5
  MaxStarts = 3
  MaxPanes = 2
  Sessions = {s1, s2}
  Main = Main
  MaxMoves = 4
  MaxOut = 5
  Keep = 2
  Room = 3
  MaxTurns = 2
  Boxes = {b1, b2}
  Nudge = nudge
  MaxAttempts = 2
  MaxEvents = 4
  MaxTyped = 4
  MaxCompositions = 2
  MaxGridPanes = 3
  MaxTerminals = 4
  Ratios = {5, 60}
  MaxClosings = 2
  Pages = {"http"}
  Distributions = {d1}
  SessionIds = {t1, t2}
  MaxSessions = 2
  MaxTabTurns = 5
  MaxStatusChanges = 4
  MaxStatusAnswers = 3
  AppWindows = {w1, w2}
  Commands = {"ls", "top"}
  MaxSaved = 2
  MaxSaves = 3
  FirstSaved <- SavedBefore
  MaxTime = 2
  MaxLog = 3
  Estimate = 2
  Heights = {1, 3}
  Overscan = 1
  Viewport = 3
  Servers = {1, 2}
  Paths = {"root", "sub"}
  RootPath = "root"
  EntryNames = {7}
  MaxCalls = 2
  MaxClicks = 3
  Profiles = {r1}
  SshServers = {s1, s2}
  Keys = {k1, k2}
  NoKey = nokey
  MaxConnects = 2
  MaxKeyChanges = 1
  Attempts = 2
  UpdateSize = 2
  MaxUpdates = 3
  SettingsWindows = {w1, w2}
  PagesWindow = w1
  Sizes = {1, 8, 9}
  ValidSizes = {8, 9}
  Users = {"", "u"}
  NoUser = ""
  NotBegun = NotBegun
  MaxChanges = 2
  MaxReloads = 1
INVARIANTS
  TabsSound
  HandedOver
  OutputSound
  SizeSound
  TypingSound
  GridSound
  OnePoll
  SavedSound
  LogSound
  CountsOneAttempt
  ShownAsStored
PROPERTIES
  TrustSound
  FilesSound
  
CHECK_DEADLOCK FALSE
