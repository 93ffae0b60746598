SPECIFICATION ConsoleSpec
CONSTANTS
  Pages = {"session", "network", "files", "listing", "socket", "board", "migrate", "chat", "wizard"}
  Tabs = {"t1", "t2"}
  Requests <- TwoTabs
  MaxAsked = 2
  MaxIssued = 2
  Nodes = {n1, n2}
  NoNode = NoNode
  Panels = {"scans", "baselines"}
  MaxSeq = 2
  VMs = {v1, v2}
  Paths = {p1, p2}
  Nil = Nil
  MaxRev = 1
  MaxWritten = 2
  Machines = {v1, v2}
  Dirs = {d1, d2}
  Root = d1
  NoDir = NoDir
  MaxOut = 2
  Sockets = {w1, w2, w3}
  NoSocket = NoSocket
  Timers = {t1, t2}
  NoTimer = NoTimer
  MaxClosure = 2
  Migrations = {m1, m2}
  ListSlots = {g1}
  MaxPushes = 2
  Targets = {n1, n2}
  NoTarget = NoTarget
  MaxLoads = 3
  Chats = {c1, c2, c3}
  NoChat = NoChat
  Hosts = {n1, n2}
  NoHost = NoHost
CHECK_DEADLOCK FALSE
INVARIANTS
  TokensMatchSession
  
  WaiterHasRefresh
  EditorKeepsToItsFile
  OneSocket
  NeverStranded
  QuietBoardIsServer
  

  
