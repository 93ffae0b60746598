SPECIFICATION ScreensSpec
CONSTANTS
  ScreenKinds = {"screen", "form", "vms", "map", "palette", "search", "migrations", "gauges",
                 "assistant", "shell", "tail", "rows"}
  Subjects = {o1, o2}
  NoSubject = NoSubject
  Changes = {x1, x2}
  RowGets = {s1, s2}
  Owners = {o1, o2}
  NoOwner = NoOwner
  Edits = {x1, x2}
  Submits = {u1, u2, u3}
  Guests = {x1, x2}
  NoGuest = NoGuest
  Orders = {q1, q2, q3}
  MapHosts <- TwoHosts
  MapThings <- FiveThings
  NoParent = NoParent
  Blank = Blank
  PaletteItems <- InPalette
  PaletteTerms <- PaletteMatches
  MaxRecent = 2
  SearchItems <- OnPage
  MatchesOf <- ThreeTerms
  MaxSearches = 2
  PVENodes = {n1, n2}
  NoPVE = NoPVE
  StorageGets = {s1, s2}
  Hosts = {x1, x2}
  MaxGets = 2
  Talks = {k1, k2}
  NoTalk = NoTalk
  Commands = {x1, x2}
  MaxLeft = 1
  Sockets = {k1, k2, k3}
  NoSocket = NoSocket
  MaxSessions = 2
  MaxOpened = 3
  Tails = {k1, k2}
  NoTail = NoTail
  TableRows = {x1, x2}
  NoRow = NoRow
  MaxOut = 2
SYMMETRY Symmetry
CHECK_DEADLOCK FALSE
INVARIANTS
  QuietScreenIsOfItsSubject
  QuietScreenIsCurrent
  
  EditsAreKept
  ActionsAreMeant
  ViewsAreTrue
  MapAndSearchesAreTrue
PROPERTIES
  ActsOnItsRows
