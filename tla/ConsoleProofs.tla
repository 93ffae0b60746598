---------------------------- MODULE ConsoleProofs ----------------------------
(***************************************************************************)
(* Proofs about the parts of the web console that MCConsole joins, one     *)
(* after the other, each with an inductive invariant of its own: the       *)
(* session (WebSession), the network page (NetworkView), the editor of the *)
(* cockpit (CockpitFiles) and its listing (CockpitListing), the socket     *)
(* (LiveSocket), the migration dialog (MigrateDialog), the chat            *)
(* (ChatWindow), the recovery wizard (RecoveryWizard) and the list of      *)
(* migrations (MigrationBoard).  Last, what a screen shows of its object,  *)
(* as the run of the console states it.                                    *)
(***************************************************************************)
EXTENDS MCConsole, TLAPS

-----------------------------------------------------------------------------
(* WebSession, for any tabs, requests and token pairs: what waits for a     *)
(* refresh is never forgotten, a tab's tokens belong to the user it shows,  *)
(* and a session ends only for a reason.                                    *)

Waiting(t) == \E r \in Requests[t] : request[t][r].phase = "waits"

WaiterInv(t) == Waiting(t) <=> refresh[t].phase # "none"

\* Every pair belongs to a login, and 0 to nobody.
IssuedInv == issuedTo[0] = 0 /\ \A n \in 1 .. issued : issuedTo[n] # 0

\* Nobody holds a token that was not issued.
BoundInv(t) == /\ store[t].access <= issued /\ store[t].refresh <= issued
               /\ refresh[t].token <= issued /\ refresh[t].new <= issued
               /\ \A r \in Requests[t] : request[t][r].token <= issued

DiskBound == disk.access <= issued /\ disk.refresh <= issued

Matches(s) == /\ s.access = s.refresh
              /\ s.auth <=> s.refresh # 0
              /\ s.user = issuedTo[s.refresh]

Out(t, r, kind) == request[t][r].phase # "idle" /\ request[t][r].kind = kind

\* What is out of a tab whose logouts met no answer: a refresh of the token it has,
\* fetchUser for the user it shows, and at most one login, alone or signed out.
RefreshKept(t) ==
  refresh[t].phase # "none" =>
    /\ refresh[t].token = store[t].refresh /\ refresh[t].token # 0
    /\ refresh[t].phase = "granted" => /\ refresh[t].new # 0
                                       /\ issuedTo[refresh[t].new] = issuedTo[refresh[t].token]

UserKept(t) ==
  \A r \in Requests[t] : Out(t, r, "me") =>
    /\ store[t].refresh # 0
    /\ request[t][r].token # 0 => issuedTo[request[t][r].token] = issuedTo[store[t].refresh]

LoginKept(t) ==
  \A r \in Requests[t] : Out(t, r, "login") =>
    /\ request[t][r].phase = "sent"
    /\ \A q \in Requests[t] : Out(t, q, "login") => q = r
    /\ \/ store[t].refresh = 0
       \/ \A q \in Requests[t] \ {r} : request[t][q].phase = "idle"

TabKept(t) == Matches(store[t]) /\ RefreshKept(t) /\ UserKept(t) /\ LoginKept(t)

\* Nothing is out of a tab that has not been opened.
ClosedInv(t) == t \notin open => /\ refresh[t].phase = "none"
                                /\ \A r \in Requests[t] : request[t][r].phase = "idle"

SessionInv ==
  /\ SessionTypeOK
  /\ IssuedInv /\ DiskBound
  /\ \A t \in Tabs : WaiterInv(t) /\ BoundInv(t) /\ ClosedInv(t)
  /\ ~crossed => Matches(disk) /\ \A t \in Tabs : TabKept(t)

LEMMA SessionInvInit == SessionInit => SessionInv
<1> SUFFICES ASSUME SessionInit PROVE SessionInv
  OBVIOUS
<1>0. 0 \in Pairs
  BY MaxIssuedAssumption DEF Pairs
<1>1. /\ store = [t \in Tabs |-> SignedOut] /\ disk = SignedOut /\ open = {}
      /\ request = [t \in Tabs |-> [r \in Requests[t] |-> Idle]]
      /\ refresh = [t \in Tabs |-> NoRefresh]
      /\ issued = 0 /\ issuedTo = [n \in Pairs |-> 0] /\ live = {}
      /\ mishap = FALSE /\ crossed = FALSE /\ ended = FALSE
  BY DEF SessionInit
<1>2. SignedOut \in Stores /\ Idle \in RequestStates
  BY <1>0 DEF SignedOut, Stores, Idle, RequestStates
<1>3. SessionTypeOK
  BY <1>0, <1>1, <1>2 DEF SessionTypeOK, NoRefresh
<1>4. IssuedInv /\ DiskBound
  BY <1>0, <1>1 DEF IssuedInv, DiskBound, SignedOut
<1>5. ASSUME NEW t \in Tabs PROVE WaiterInv(t) /\ BoundInv(t) /\ ClosedInv(t) /\ TabKept(t)
  <2>1. /\ store[t] = SignedOut /\ refresh[t] = NoRefresh
        /\ \A r \in Requests[t] : request[t][r] = Idle
    BY <1>1
  <2>2. WaiterInv(t) /\ BoundInv(t) /\ ClosedInv(t)
    BY <1>1, <2>1 DEF WaiterInv, Waiting, BoundInv, ClosedInv, SignedOut, NoRefresh, Idle
  <2>3. Matches(store[t]) /\ RefreshKept(t) /\ UserKept(t) /\ LoginKept(t)
    BY <1>0, <1>1, <2>1
    DEF Matches, RefreshKept, UserKept, LoginKept, Out, SignedOut, NoRefresh, Idle
  <2> QED
    BY <2>2, <2>3 DEF TabKept
<1>6. Matches(disk)
  BY <1>0, <1>1 DEF Matches, SignedOut
<1> QED
  BY <1>3, <1>4, <1>5, <1>6 DEF SessionInv

-----------------------------------------------------------------------------
(* A step touches one tab.                                                  *)

Touches(t) ==
  /\ \A x \in Tabs \ {t} : store'[x] = store[x] /\ request'[x] = request[x] /\ refresh'[x] = refresh[x]
  /\ \A n \in 0 .. issued : issuedTo'[n] = issuedTo[n]
  /\ issued' >= issued /\ open \subseteq open'

\* What the types say of one tab.
LEMMA TabTypes ==
  ASSUME SessionTypeOK, NEW t \in Tabs
  PROVE  /\ store \in [Tabs -> Stores] /\ store[t] \in Stores /\ disk \in Stores
         /\ DOMAIN request = Tabs /\ request[t] \in [Requests[t] -> RequestStates]
         /\ issued \in Pairs /\ issued \in Nat /\ 0 \in Pairs
         /\ store[t].access \in Pairs /\ store[t].refresh \in Pairs
         /\ refresh[t].phase \in {"none", "asked", "granted", "failed"}
         /\ refresh[t].token \in Pairs /\ refresh[t].new \in Pairs
         /\ \A r \in Requests[t] : request[t][r] \in RequestStates /\ request[t][r].token \in Pairs
         /\ \A n \in Pairs : n \in Nat
<1>1. /\ store \in [Tabs -> Stores] /\ disk \in Stores /\ issued \in Pairs
      /\ DOMAIN request = Tabs /\ request[t] \in [Requests[t] -> RequestStates]
      /\ refresh \in [Tabs -> [phase : {"none", "asked", "granted", "failed"},
                               token : Pairs, new : Pairs]]
  BY DEF SessionTypeOK
<1>2. 0 \in Pairs /\ \A n \in Pairs : n \in Nat
  BY MaxIssuedAssumption DEF Pairs
<1>3. store[t].access \in Pairs /\ store[t].refresh \in Pairs
  BY <1>1 DEF Stores
<1>4. \A r \in Requests[t] : request[t][r] \in RequestStates /\ request[t][r].token \in Pairs
  BY <1>1 DEF RequestStates
<1> QED
  BY <1>1, <1>2, <1>3, <1>4

LEMMA Assemble ==
  ASSUME SessionInv, NEW t \in Tabs, Touches(t), SessionTypeOK', IssuedInv', DiskBound',
         WaiterInv(t)', BoundInv(t)', ClosedInv(t)',
         ~crossed' => ~crossed /\ Matches(disk)' /\ TabKept(t)'
  PROVE  SessionInv'
<1>1. SessionTypeOK
  BY DEF SessionInv
<1>2. ASSUME NEW x \in Tabs PROVE WaiterInv(x)' /\ BoundInv(x)' /\ ClosedInv(x)'
  <2>1. CASE x = t
    BY <2>1
  <2>2. CASE x # t
    <3>1. WaiterInv(x) /\ BoundInv(x) /\ ClosedInv(x)
      BY DEF SessionInv
    <3>2. store'[x] = store[x] /\ request'[x] = request[x] /\ refresh'[x] = refresh[x]
      BY <2>2 DEF Touches
    <3>3. WaiterInv(x)'
      BY <3>1, <3>2 DEF WaiterInv, Waiting
    <3>4. /\ issued \in Nat /\ issued' \in Nat
          /\ refresh[x].token \in Nat /\ refresh[x].new \in Nat
          /\ \A r \in Requests[x] : request[x][r].token \in Nat
      BY <1>1, TabTypes, MaxIssuedAssumption DEF SessionTypeOK, Pairs
    <3>5. store[x].access \in Nat /\ store[x].refresh \in Nat
      BY <1>1, TabTypes
    <3>6. issued' >= issued
      BY DEF Touches
    <3>7. BoundInv(x)'
      BY <3>1, <3>2, <3>4, <3>5, <3>6 DEF BoundInv
    <3>8. ClosedInv(x)'
      BY <3>1, <3>2 DEF ClosedInv, Touches
    <3> QED
      BY <3>3, <3>7, <3>8
  <2> QED
    BY <2>1, <2>2
<1>3. ASSUME ~crossed', NEW x \in Tabs PROVE TabKept(x)'
  <2>1. CASE x = t
    BY <1>3, <2>1
  <2>2. CASE x # t
    <3>1. TabKept(x) /\ BoundInv(x)
      BY <1>3 DEF SessionInv
    <3>2. store'[x] = store[x] /\ request'[x] = request[x] /\ refresh'[x] = refresh[x]
      BY <2>2 DEF Touches
    <3>3. /\ store[x].refresh \in Nat /\ issued \in Nat
          /\ refresh[x].token \in Nat /\ refresh[x].new \in Nat
          /\ \A r \in Requests[x] : request[x][r].token \in Nat
      BY <1>1, TabTypes
    <3>5. /\ store[x].refresh \in 0 .. issued
          /\ refresh[x].token \in 0 .. issued /\ refresh[x].new \in 0 .. issued
          /\ \A r \in Requests[x] : request[x][r].token \in 0 .. issued
      BY <3>1, <3>3 DEF BoundInv
    <3>6. \A n \in 0 .. issued : issuedTo'[n] = issuedTo[n]
      BY DEF Touches
    <3>7. Matches(store[x])'
      BY <3>1, <3>2, <3>5, <3>6 DEF TabKept, Matches
    <3>8. RefreshKept(x)'
      BY <3>1, <3>2, <3>5, <3>6 DEF TabKept, RefreshKept
    <3>9. UserKept(x)'
      BY <3>1, <3>2, <3>5, <3>6 DEF TabKept, UserKept, Out
    <3>10. LoginKept(x)'
      BY <3>1, <3>2 DEF TabKept, LoginKept, Out
    <3> QED
      BY <3>7, <3>8, <3>9, <3>10 DEF TabKept
  <2> QED
    BY <2>1, <2>2
<1> QED
  BY <1>2, <1>3 DEF SessionInv

-----------------------------------------------------------------------------
(* Building blocks of the steps.                                            *)

RefreshRecords == [phase : {"none", "asked", "granted", "failed"}, token : Pairs, new : Pairs]

\* The rest of the types.
Fields == /\ open \subseteq Tabs /\ issued \in Pairs /\ issuedTo \in [Pairs -> Pairs]
          /\ live \subseteq 1 .. issued
          /\ mishap \in BOOLEAN /\ crossed \in BOOLEAN /\ ended \in BOOLEAN

LEMMA TypesNow ==
  ASSUME SessionTypeOK
  PROVE  /\ Fields /\ store \in [Tabs -> Stores] /\ disk \in Stores
         /\ refresh \in [Tabs -> RefreshRecords] /\ DOMAIN request = Tabs
BY DEF SessionTypeOK, Fields, RefreshRecords

\* The types again, when only tab t has changed.
LEMMA TypesAgain ==
  ASSUME SessionTypeOK, NEW t \in Tabs, Touches(t), DOMAIN request' = Tabs,
         store' \in [Tabs -> Stores], disk' \in Stores,
         request'[t] \in [Requests[t] -> RequestStates],
         refresh' \in [Tabs -> RefreshRecords], Fields'
  PROVE  SessionTypeOK'
<1>1. \A x \in Tabs : request'[x] \in [Requests[x] -> RequestStates]
  BY DEF Touches, SessionTypeOK
<1> QED
  BY <1>1 DEF SessionTypeOK, Fields, RefreshRecords

LEMMA AskedEffect ==
  ASSUME SessionTypeOK, NEW t \in Tabs, NEW g \in [Requests[t] -> RequestStates],
         request' = [request EXCEPT ![t] = g]
  PROVE  /\ DOMAIN request' = Tabs /\ request'[t] = g
         /\ request'[t] \in [Requests[t] -> RequestStates]
         /\ \A x \in Tabs \ {t} : request'[x] = request[x]
BY TabTypes

LEMMA SettleEffect ==
  ASSUME SessionTypeOK, NEW t \in Tabs, NEW r \in Requests[t], Settle(t, r)
  PROVE  /\ DOMAIN request' = Tabs /\ request'[t] \in [Requests[t] -> RequestStates]
         /\ \A x \in Tabs \ {t} : request'[x] = request[x]
         /\ \A q \in Requests[t] : request'[t][q] = IF q = r THEN Idle ELSE request[t][q]
<1>1. Idle \in RequestStates
  BY TabTypes DEF Idle, RequestStates
<1> QED
  BY <1>1, TabTypes DEF Settle

LEMMA SetStoreEffect ==
  ASSUME SessionTypeOK, NEW t \in Tabs, NEW s \in Stores, SetStore(t, s)
  PROVE  /\ store' \in [Tabs -> Stores] /\ disk' \in Stores
         /\ store'[t] = s /\ disk' = s
         /\ \A x \in Tabs \ {t} : store'[x] = store[x]
BY TabTypes DEF SetStore

\* What a tab has kept is kept while its own record and requests stay.
LEMMA KeptParts ==
  ASSUME SessionInv, NEW t \in Tabs, ~crossed, \A n \in 0 .. issued : issuedTo'[n] = issuedTo[n]
  PROVE  /\ disk' = disk => Matches(disk)'
         /\ store'[t] = store[t] => Matches(store[t])'
         /\ store'[t] = store[t] /\ request'[t] = request[t] => UserKept(t)' /\ LoginKept(t)'
         /\ store'[t] = store[t] /\ refresh'[t] = refresh[t] => RefreshKept(t)'
<1>1. TabKept(t) /\ Matches(disk) /\ BoundInv(t) /\ DiskBound /\ SessionTypeOK
  BY DEF SessionInv
<1>2. /\ store[t].refresh \in Nat /\ issued \in Nat /\ disk.refresh \in Nat
      /\ refresh[t].token \in Nat /\ refresh[t].new \in Nat
      /\ \A r \in Requests[t] : request[t][r].token \in Nat
  BY <1>1, TabTypes DEF Stores
<1>3. /\ store[t].refresh \in 0 .. issued /\ disk.refresh \in 0 .. issued
      /\ refresh[t].token \in 0 .. issued /\ refresh[t].new \in 0 .. issued
      /\ \A r \in Requests[t] : request[t][r].token \in 0 .. issued
  BY <1>1, <1>2 DEF BoundInv, DiskBound
<1>4. disk' = disk => Matches(disk)'
  BY <1>1, <1>3 DEF Matches
<1>5. store'[t] = store[t] => Matches(store[t])'
  BY <1>1, <1>3 DEF TabKept, Matches
<1>6. store'[t] = store[t] /\ request'[t] = request[t] => UserKept(t)'
  BY <1>1, <1>3 DEF TabKept, UserKept, Out
<1>7. store'[t] = store[t] /\ request'[t] = request[t] => LoginKept(t)'
  BY <1>1 DEF TabKept, LoginKept, Out
<1>8. store'[t] = store[t] /\ refresh'[t] = refresh[t] => RefreshKept(t)'
  BY <1>1, <1>3 DEF TabKept, RefreshKept
<1> QED
  BY <1>4, <1>5, <1>6, <1>7, <1>8

\* A logout that meets nothing leaves an empty tab.
LEMMA LogoutEffect ==
  ASSUME SessionInv, NEW t \in Tabs, Logout(t), UNCHANGED <<issued, issuedTo>>,
         refresh' \in [Tabs -> RefreshRecords], request'[t] \in [Requests[t] -> RequestStates]
  PROVE  /\ store' \in [Tabs -> Stores] /\ disk' \in Stores
         /\ store'[t] = SignedOut /\ disk' = SignedOut
         /\ \A x \in Tabs \ {t} : store'[x] = store[x]
         /\ live' \subseteq 1 .. issued /\ crossed' \in BOOLEAN /\ DiskBound'
         /\ ~crossed' => ~crossed /\ Matches(disk)' /\ TabKept(t)'
<1>0. SessionTypeOK /\ IssuedInv /\ issued \in Nat
  BY TabTypes DEF SessionInv
<1>1. SignedOut \in Stores
  BY <1>0, TabTypes DEF SignedOut, Stores
<1>2. /\ store' \in [Tabs -> Stores] /\ disk' \in Stores
      /\ store'[t] = SignedOut /\ disk' = SignedOut
      /\ \A x \in Tabs \ {t} : store'[x] = store[x]
  BY <1>0, <1>1, SetStoreEffect DEF Logout
<1>3. live' \subseteq 1 .. issued /\ crossed' \in BOOLEAN
  BY <1>0 DEF Logout, SessionTypeOK
<1>4. DiskBound'
  BY <1>0, <1>2 DEF DiskBound, SignedOut
<1>5. ASSUME ~crossed' PROVE ~crossed /\ Matches(disk)' /\ TabKept(t)'
  <2>1. ~crossed /\ ~Pending(t)'
    BY <1>5 DEF Logout
  <2>2. refresh'[t].phase = "none"
    BY <2>1 DEF Pending
  <2>3. \A r \in Requests[t] : request'[t][r].phase \in {"idle", "sent", "waits", "resent"}
    BY DEF RequestStates
  <2>4. \A r \in Requests[t] : request'[t][r].phase # "idle" => request'[t][r].kind = "page"
    BY <2>1, <2>3 DEF Pending, InPhase
  <2>5. Matches(disk)' /\ Matches(store[t])'
    BY <1>0, <1>2 DEF Matches, SignedOut, IssuedInv
  <2>6. RefreshKept(t)' /\ UserKept(t)' /\ LoginKept(t)'
    BY <2>2, <2>4 DEF RefreshKept, UserKept, LoginKept, Out
  <2> QED
    BY <2>1, <2>5, <2>6 DEF TabKept
<1> QED
  BY <1>2, <1>3, <1>4, <1>5

-----------------------------------------------------------------------------
(* The steps of a page.                                                     *)

LEMMA LoadPageStep ==
  ASSUME SessionInv, NEW t \in Tabs, LoadPage(t)
  PROVE  SessionInv'
<1>0. /\ SessionTypeOK /\ IssuedInv /\ DiskBound
      /\ WaiterInv(t) /\ BoundInv(t) /\ issued \in Nat
  BY TabTypes DEF SessionInv
<1>1. Idle \in RequestStates /\ NoRefresh \in RefreshRecords
  BY <1>0, TabTypes DEF Idle, RequestStates, NoRefresh, RefreshRecords
<1>a. [r \in Requests[t] |-> Idle] \in [Requests[t] -> RequestStates]
  BY <1>1
<1>b. request' = [request EXCEPT ![t] = [r \in Requests[t] |-> Idle]]
  BY DEF LoadPage
<1>2. /\ DOMAIN request' = Tabs /\ request'[t] = [r \in Requests[t] |-> Idle]
      /\ request'[t] \in [Requests[t] -> RequestStates]
      /\ \A x \in Tabs \ {t} : request'[x] = request[x]
  BY <1>0, <1>a, <1>b, AskedEffect
<1>3. /\ store' \in [Tabs -> Stores] /\ store'[t] = disk /\ disk' = disk
      /\ \A x \in Tabs \ {t} : store'[x] = store[x]
  BY <1>0, TabTypes DEF LoadPage
<1>4. /\ refresh' \in [Tabs -> RefreshRecords] /\ refresh'[t] = NoRefresh
      /\ \A x \in Tabs \ {t} : refresh'[x] = refresh[x]
  BY <1>0, <1>1, TypesNow DEF LoadPage
<1>5. Touches(t)
  BY <1>0, <1>2, <1>3, <1>4 DEF LoadPage, Touches
<1>6. Fields'
  BY <1>0, TypesNow DEF LoadPage, Fields
<1>7. SessionTypeOK'
  BY <1>0, <1>2, <1>3, <1>4, <1>5, <1>6, TypesAgain, TypesNow
<1>8. IssuedInv' /\ DiskBound'
  BY <1>0 DEF LoadPage, IssuedInv, DiskBound
<1>9. WaiterInv(t)' /\ BoundInv(t)' /\ ClosedInv(t)'
  BY <1>0, <1>2, <1>3, <1>4
  DEF LoadPage, WaiterInv, Waiting, BoundInv, ClosedInv, DiskBound, Idle, NoRefresh
<1>10. ASSUME ~crossed' PROVE ~crossed /\ Matches(disk)' /\ TabKept(t)'
  <2>1. ~crossed /\ issuedTo' = issuedTo
    BY <1>10 DEF LoadPage
  <2>2. Matches(disk)' /\ Matches(store[t])'
    BY <1>3, <2>1 DEF Matches, SessionInv
  <2>3. RefreshKept(t)' /\ UserKept(t)' /\ LoginKept(t)'
    BY <1>2, <1>4 DEF RefreshKept, UserKept, LoginKept, Out, Idle, NoRefresh
  <2> QED
    BY <2>1, <2>2, <2>3 DEF TabKept
<1> QED
  BY <1>5, <1>7, <1>8, <1>9, <1>10, Assemble

\* A request goes out: of a page that is signed in, or of the login form.
LEMMA SendStep ==
  ASSUME SessionInv, NEW t \in Tabs, NEW r \in Requests[t], Ask(t, r) \/ Login(t, r)
  PROVE  SessionInv'
<1>0. /\ SessionTypeOK /\ IssuedInv /\ DiskBound
      /\ WaiterInv(t) /\ BoundInv(t) /\ ClosedInv(t) /\ issued \in Nat
  BY TabTypes DEF SessionInv
<1>1. PICK kind \in {"page", "me", "login", "badlogin"} :
        /\ Send(t, r, kind)
        /\ kind \in {"page", "me"} => store[t].auth
        /\ kind \in {"login", "badlogin"} => ~store[t].auth \/ InPhase(t, {"idle"}) = Requests[t]
  BY DEF Ask, Login
<1>2. /\ t \in open /\ request[t][r].phase = "idle" /\ ~LoggingIn(t)
      /\ UNCHANGED <<store, disk, open, refresh, issued, issuedTo, live, mishap, crossed, ended>>
  BY DEF Ask, Login
<1> DEFINE sent == [phase |-> "sent", kind |-> kind, token |-> store[t].access]
           g == [request[t] EXCEPT ![r] = sent]
<1>3. sent \in RequestStates
  BY <1>0, <1>1, TabTypes DEF RequestStates
<1>a. g \in [Requests[t] -> RequestStates]
  BY <1>0, <1>3, TabTypes
<1>b. request' = [request EXCEPT ![t] = g]
  BY <1>0, <1>1, TabTypes DEF Send
<1>4. /\ DOMAIN request' = Tabs /\ request'[t] = g
      /\ request'[t] \in [Requests[t] -> RequestStates]
      /\ \A x \in Tabs \ {t} : request'[x] = request[x]
  BY <1>0, <1>a, <1>b, AskedEffect
<1>5. \A q \in Requests[t] : request'[t][q] = IF q = r THEN sent ELSE request[t][q]
  BY <1>0, <1>4, TabTypes
<1> HIDE DEF g
<1>6. Touches(t)
  BY <1>0, <1>2, <1>4 DEF Touches
<1>7. SessionTypeOK'
  <2>1. Fields'
    BY <1>0, <1>2, TypesNow DEF Fields
  <2> QED
    BY <1>0, <1>2, <1>4, <1>6, <2>1, TypesAgain, TypesNow
<1>8. IssuedInv' /\ DiskBound'
  BY <1>0, <1>2 DEF IssuedInv, DiskBound
<1>9. WaiterInv(t)' /\ BoundInv(t)' /\ ClosedInv(t)'
  <2>1. WaiterInv(t)'
    BY <1>0, <1>2, <1>5 DEF WaiterInv, Waiting
  <2>2. BoundInv(t)'
    BY <1>0, <1>2, <1>5 DEF BoundInv
  <2>3. ClosedInv(t)'
    BY <1>2 DEF ClosedInv
  <2> QED
    BY <2>1, <2>2, <2>3
<1>10. ASSUME ~crossed' PROVE ~crossed /\ Matches(disk)' /\ TabKept(t)'
  <2>1. ~crossed /\ TabKept(t)
    BY <1>2, <1>10 DEF SessionInv
  <2>2. Matches(disk)' /\ Matches(store[t])' /\ RefreshKept(t)'
    BY <1>2, <2>1, KeptParts
  <2>3. \A q \in Requests[t] : request[t][q].phase \in {"idle", "sent", "waits", "resent"}
    BY <1>0, TabTypes DEF RequestStates
  <2>4. \A q \in Requests[t] : ~Out(t, q, "login")
    BY <1>2, <2>3 DEF LoggingIn, InPhase, Out
  <2>5. UserKept(t)'
    <3>1. SUFFICES ASSUME NEW q \in Requests[t], Out(t, q, "me")'
                   PROVE  /\ store[t].refresh # 0
                          /\ request'[t][q].token # 0 =>
                               issuedTo[request'[t][q].token] = issuedTo[store[t].refresh]
      BY <1>2 DEF UserKept
    <3>2. CASE q = r
      <4>1. store[t].auth /\ request'[t][q].token = store[t].access
        BY <1>1, <1>5, <3>1, <3>2 DEF Out
      <4> QED
        BY <2>1, <4>1 DEF TabKept, Matches
    <3>3. CASE q # r
      BY <1>5, <2>1, <3>1, <3>3 DEF TabKept, UserKept, Out
    <3> QED
      BY <3>2, <3>3
  <2>6. LoginKept(t)'
    <3>1. SUFFICES ASSUME NEW q \in Requests[t], Out(t, q, "login")'
                   PROVE  /\ request'[t][q].phase = "sent"
                          /\ \A p \in Requests[t] : Out(t, p, "login")' => p = q
                          /\ \/ store[t].refresh = 0
                             \/ \A p \in Requests[t] \ {q} : request'[t][p].phase = "idle"
      BY <1>2 DEF LoginKept
    <3>2. q = r /\ kind = "login"
      BY <1>5, <2>4, <3>1 DEF Out
    <3>3. \A p \in Requests[t] : Out(t, p, "login")' => p = q
      BY <1>5, <2>4, <3>2 DEF Out
    <3>4. store[t].refresh = 0 \/ \A p \in Requests[t] : request[t][p].phase = "idle"
      BY <1>1, <2>1, <3>2 DEF TabKept, Matches, InPhase
    <3> QED
      BY <1>5, <3>2, <3>3, <3>4
  <2> QED
    BY <2>1, <2>2, <2>5, <2>6 DEF TabKept
<1> QED
  BY <1>6, <1>7, <1>8, <1>9, <1>10, Assemble

LEMMA SignOutStep ==
  ASSUME SessionInv, NEW t \in Tabs, SignOut(t)
  PROVE  SessionInv'
<1>0. /\ SessionTypeOK /\ IssuedInv /\ WaiterInv(t) /\ BoundInv(t) /\ ClosedInv(t)
      /\ issued \in Nat
  BY TabTypes DEF SessionInv
<1>1. Logout(t) /\ UNCHANGED <<open, request, refresh, issued, issuedTo, mishap, ended>>
  BY DEF SignOut
<1>2. /\ DOMAIN request' = Tabs /\ request'[t] \in [Requests[t] -> RequestStates]
      /\ refresh' \in [Tabs -> RefreshRecords]
  BY <1>0, <1>1, TabTypes, TypesNow
<1>3. /\ store' \in [Tabs -> Stores] /\ disk' \in Stores
      /\ store'[t] = SignedOut /\ \A x \in Tabs \ {t} : store'[x] = store[x]
      /\ live' \subseteq 1 .. issued /\ crossed' \in BOOLEAN /\ DiskBound'
      /\ ~crossed' => ~crossed /\ Matches(disk)' /\ TabKept(t)'
  BY <1>1, <1>2, LogoutEffect
<1>4. Touches(t) /\ Fields'
  BY <1>0, <1>1, <1>3, TypesNow DEF Touches, Fields
<1>5. SessionTypeOK'
  BY <1>0, <1>2, <1>3, <1>4, TypesAgain
<1>6. IssuedInv' /\ WaiterInv(t)' /\ BoundInv(t)' /\ ClosedInv(t)'
  BY <1>0, <1>1, <1>3 DEF IssuedInv, WaiterInv, Waiting, BoundInv, ClosedInv, SignedOut
<1> QED
  BY <1>3, <1>4, <1>5, <1>6, Assemble

-----------------------------------------------------------------------------
(* The refresh.                                                             *)

\* Whoever has an answer coming belongs to a tab that is open.
LEMMA OutIsOpen ==
  ASSUME SessionInv, NEW t \in Tabs,
         refresh[t].phase # "none" \/ \E r \in Requests[t] : request[t][r].phase # "idle"
  PROVE  t \in open
BY DEF SessionInv, ClosedInv

LEMMA ServeRefreshStep ==
  ASSUME SessionInv, NEW t \in Tabs, ServeRefresh(t)
  PROVE  SessionInv'
<1>0. /\ SessionTypeOK /\ IssuedInv /\ DiskBound /\ Fields
      /\ WaiterInv(t) /\ BoundInv(t) /\ ClosedInv(t)
  BY TypesNow DEF SessionInv
<1>a. /\ issued \in Nat /\ issued \in Pairs /\ refresh[t].token \in Pairs /\ refresh[t].new \in Pairs
      /\ store[t].access \in Nat /\ store[t].refresh \in Nat
      /\ refresh[t].token \in Nat /\ refresh[t].new \in Nat
      /\ disk.access \in Nat /\ disk.refresh \in Nat
      /\ \A r \in Requests[t] : request[t][r].token \in Nat
  BY <1>0, TabTypes DEF Stores
<1>b. /\ refresh[t].phase = "asked" /\ t \in open
      /\ UNCHANGED <<store, disk, open, request, crossed, ended>>
  BY OutIsOpen DEF ServeRefresh
<1>1. CASE /\ refresh[t].token \in live /\ Issue(issuedTo[refresh[t].token])
           /\ live' = (live \ {refresh[t].token}) \cup {issued + 1}
           /\ refresh' = [refresh EXCEPT ![t].phase = "granted", ![t].new = issued + 1]
           /\ UNCHANGED mishap
  <2>1. /\ refresh[t].token \in 1 .. issued /\ issuedTo[refresh[t].token] # 0
        /\ issuedTo[refresh[t].token] \in Pairs
    <3>1. refresh[t].token \in 1 .. issued
      BY <1>0, <1>1 DEF Fields
    <3>2. refresh[t].token \in Pairs /\ issuedTo \in [Pairs -> Pairs]
      BY <1>0, <1>a DEF Fields
    <3> QED
      BY <1>0, <3>1, <3>2 DEF IssuedInv
  <2>2. /\ issued' = issued + 1 /\ issued + 1 \in Pairs
        /\ issuedTo' \in [Pairs -> Pairs] /\ issuedTo'[issued + 1] = issuedTo[refresh[t].token]
        /\ \A n \in 0 .. issued : issuedTo'[n] = issuedTo[n]
    BY <1>0, <1>1, <1>a, <2>1, MaxIssuedAssumption DEF Issue, Fields, Pairs
  <2>3. /\ refresh'[t] = [phase |-> "granted", token |-> refresh[t].token, new |-> issued + 1]
        /\ refresh' \in [Tabs -> RefreshRecords]
        /\ \A x \in Tabs \ {t} : refresh'[x] = refresh[x]
    <3>1. refresh \in [Tabs -> RefreshRecords]
      BY TypesNow DEF SessionInv
    <3>2. /\ refresh'[t] = [refresh[t] EXCEPT !.phase = "granted", !.new = issued + 1]
          /\ DOMAIN refresh' = Tabs
          /\ \A x \in Tabs \ {t} : refresh'[x] = refresh[x]
      BY <1>1, <3>1
    <3>3. refresh'[t] = [phase |-> "granted", token |-> refresh[t].token, new |-> issued + 1]
      BY <3>1, <3>2 DEF RefreshRecords
    <3>4. [phase |-> "granted", token |-> refresh[t].token, new |-> issued + 1] \in RefreshRecords
      BY <2>2, <1>a DEF RefreshRecords
    <3>5. refresh' \in [Tabs -> RefreshRecords]
      BY <1>1, <3>1, <3>2, <3>3, <3>4
    <3> QED BY <3>2, <3>3, <3>5
  <2>4. Touches(t)
    BY <1>a, <1>b, <2>2, <2>3 DEF Touches
  <2>5. SessionTypeOK'
    <3>1. live' \subseteq 1 .. issued'
      BY <1>0, <1>1, <1>a, <2>2 DEF Fields
    <3>2. Fields'
      BY <1>0, <1>1, <1>b, <2>2, <3>1 DEF Fields
    <3> QED
      BY <1>0, <1>b, <2>3, <2>4, <3>2, TypesAgain, TypesNow, TabTypes
  <2>6. IssuedInv' /\ DiskBound'
    BY <1>0, <1>a, <1>b, <2>1, <2>2 DEF IssuedInv, DiskBound
  <2>7. WaiterInv(t)' /\ ClosedInv(t)'
    BY <1>0, <1>b, <2>3 DEF WaiterInv, Waiting, ClosedInv
  <2>8. BoundInv(t)'
    BY <1>0, <1>a, <1>b, <2>2, <2>3 DEF BoundInv
  <2>9. ASSUME ~crossed' PROVE ~crossed /\ Matches(disk)' /\ TabKept(t)'
    <3>1. ~crossed /\ TabKept(t)
      BY <1>b, <2>9 DEF SessionInv
    <3>2. Matches(disk)' /\ Matches(store[t])' /\ UserKept(t)' /\ LoginKept(t)'
      BY <1>b, <2>2, <3>1, KeptParts
    <3>3. RefreshKept(t)'
      BY <1>a, <1>b, <2>1, <2>2, <2>3, <3>1 DEF TabKept, RefreshKept
    <3> QED
      BY <3>1, <3>2, <3>3 DEF TabKept
  <2> QED
    BY <2>4, <2>5, <2>6, <2>7, <2>8, <2>9, Assemble
<1>2. CASE /\ refresh' = [refresh EXCEPT ![t].phase = "failed"]
           /\ live' \in {live, live \ {refresh[t].token}}
           /\ mishap' \in BOOLEAN
           /\ UNCHANGED <<issued, issuedTo>>
  <2>3. /\ refresh'[t] = [phase |-> "failed", token |-> refresh[t].token, new |-> refresh[t].new]
        /\ refresh' \in [Tabs -> RefreshRecords]
        /\ \A x \in Tabs \ {t} : refresh'[x] = refresh[x]
    BY <1>2, <1>0, TypesNow DEF RefreshRecords
  <2>4. Touches(t)
    BY <1>2, <1>a, <1>b, <2>3 DEF Touches
  <2>5. SessionTypeOK'
    <3>2. Fields'
      BY <1>0, <1>2, <1>b DEF Fields
    <3> QED
      BY <1>0, <1>b, <2>3, <2>4, <3>2, TypesAgain, TypesNow, TabTypes
  <2>6. IssuedInv' /\ DiskBound' /\ WaiterInv(t)' /\ ClosedInv(t)' /\ BoundInv(t)'
    BY <1>0, <1>2, <1>b, <2>3 DEF IssuedInv, DiskBound, WaiterInv, Waiting, ClosedInv, BoundInv
  <2>9. ASSUME ~crossed' PROVE ~crossed /\ Matches(disk)' /\ TabKept(t)'
    <3>1. ~crossed /\ TabKept(t)
      BY <1>b, <2>9 DEF SessionInv
    <3>2. Matches(disk)' /\ Matches(store[t])' /\ UserKept(t)' /\ LoginKept(t)'
      BY <1>2, <1>b, <3>1, KeptParts
    <3>3. RefreshKept(t)'
      BY <1>2, <1>b, <2>3, <3>1 DEF TabKept, RefreshKept
    <3> QED
      BY <3>1, <3>2, <3>3 DEF TabKept
  <2> QED
    BY <2>4, <2>5, <2>6, <2>9, Assemble
<1> QED
  BY <1>0, <1>1, <1>2 DEF ServeRefresh, Fields

LEMMA RefreshDoneStep ==
  ASSUME SessionInv, NEW t \in Tabs, RefreshDone(t)
  PROVE  SessionInv'
<1>0. /\ SessionTypeOK /\ IssuedInv /\ DiskBound /\ Fields
      /\ WaiterInv(t) /\ BoundInv(t) /\ ClosedInv(t)
  BY TypesNow DEF SessionInv
<1>a. /\ issued \in Nat /\ 0 \in Pairs /\ refresh[t].new \in Pairs
      /\ store[t] \in Stores /\ request[t] \in [Requests[t] -> RequestStates]
  BY <1>0, TabTypes
<1> DEFINE s == [store[t] EXCEPT !.access = refresh[t].new, !.refresh = refresh[t].new]
           W == InPhase(t, {"waits"})
           g == [r \in Requests[t] |->
                  IF r \in W THEN [request[t][r] EXCEPT !.phase = "resent", !.token = refresh[t].new]
                  ELSE request[t][r]]
<1>1. /\ refresh[t].phase = "granted" /\ t \in open
      /\ SetStore(t, s)
      /\ refresh' = [refresh EXCEPT ![t] = NoRefresh]
      /\ request' = [request EXCEPT ![t] = g]
      /\ UNCHANGED <<open, issued, issuedTo, live, mishap, crossed, ended>>
  BY OutIsOpen DEF RefreshDone, Resend
<1>2. s \in Stores /\ NoRefresh \in RefreshRecords
  BY <1>a DEF Stores, NoRefresh, RefreshRecords
<1>b. s.access = refresh[t].new /\ s.refresh = refresh[t].new /\ s.user = store[t].user /\ s.auth = store[t].auth
  BY <1>a DEF Stores
<1>3. g \in [Requests[t] -> RequestStates]
  BY <1>a DEF RequestStates
<1>c. \A r \in Requests[t] :
        /\ g[r].kind = request[t][r].kind
        /\ g[r].phase = IF request[t][r].phase = "waits" THEN "resent" ELSE request[t][r].phase
        /\ g[r].token = IF request[t][r].phase = "waits" THEN refresh[t].new ELSE request[t][r].token
  BY <1>a DEF RequestStates, InPhase
<1> HIDE DEF s, g, W
<1>4. /\ DOMAIN request' = Tabs /\ request'[t] = g /\ request'[t] \in [Requests[t] -> RequestStates]
      /\ \A x \in Tabs \ {t} : request'[x] = request[x]
  BY <1>0, <1>1, <1>3, AskedEffect
<1>5. /\ store' \in [Tabs -> Stores] /\ disk' \in Stores /\ store'[t] = s /\ disk' = s
      /\ \A x \in Tabs \ {t} : store'[x] = store[x]
  BY <1>0, <1>1, <1>2, SetStoreEffect
<1>6. /\ refresh' \in [Tabs -> RefreshRecords] /\ refresh'[t] = NoRefresh
      /\ \A x \in Tabs \ {t} : refresh'[x] = refresh[x]
  BY <1>0, <1>1, <1>2, TypesNow
<1>7. Touches(t) /\ Fields'
  BY <1>0, <1>1, <1>a, <1>4, <1>5, <1>6 DEF Touches, Fields
<1>8. SessionTypeOK'
  BY <1>0, <1>4, <1>5, <1>6, <1>7, TypesAgain
<1>9. IssuedInv' /\ DiskBound'
  BY <1>0, <1>1, <1>5, <1>b DEF IssuedInv, DiskBound, BoundInv
<1>10. WaiterInv(t)' /\ ClosedInv(t)' /\ BoundInv(t)'
  <2>1. WaiterInv(t)'
    BY <1>4, <1>6, <1>c DEF WaiterInv, Waiting, NoRefresh
  <2>2. BoundInv(t)'
    BY <1>0, <1>1, <1>4, <1>5, <1>6, <1>a, <1>b, <1>c DEF BoundInv, NoRefresh
  <2> QED
    BY <1>1, <2>1, <2>2 DEF ClosedInv
<1>11. ASSUME ~crossed' PROVE ~crossed /\ Matches(disk)' /\ TabKept(t)'
  <2>1. ~crossed /\ Matches(store[t]) /\ RefreshKept(t) /\ UserKept(t) /\ LoginKept(t)
    BY <1>1, <1>11 DEF SessionInv, TabKept
  <2>2. /\ store[t].refresh # 0 /\ store[t].auth /\ refresh[t].new # 0
        /\ issuedTo[refresh[t].new] = issuedTo[store[t].refresh]
    BY <1>1, <2>1 DEF RefreshKept, Matches
  <2>3. Matches(disk)' /\ Matches(store[t])'
    BY <1>1, <1>5, <1>b, <2>1, <2>2 DEF Matches
  <2>4. RefreshKept(t)'
    BY <1>6 DEF RefreshKept, NoRefresh
  <2>5. UserKept(t)'
    BY <1>1, <1>4, <1>5, <1>b, <1>c, <2>1, <2>2 DEF UserKept, Out
  <2>6. LoginKept(t)'
    <3>1. \A r \in Requests[t] : Out(t, r, "login")' <=> Out(t, r, "login")
      BY <1>4, <1>c DEF Out
    <3>2. \A r \in Requests[t] : request'[t][r].phase = "idle" <=> request[t][r].phase = "idle"
      BY <1>4, <1>c
    <3>3. \A r \in Requests[t] : request[t][r].phase = "sent" => request'[t][r].phase = "sent"
      BY <1>4, <1>c
    <3> QED
      BY <2>1, <2>2, <3>1, <3>2, <3>3 DEF LoginKept
  <2> QED
    BY <2>1, <2>3, <2>4, <2>5, <2>6 DEF TabKept
<1> QED
  BY <1>7, <1>8, <1>9, <1>10, <1>11, Assemble

LEMMA RefreshFailedStep ==
  ASSUME SessionInv, NEW t \in Tabs, RefreshFailed(t)
  PROVE  SessionInv'
<1>0. /\ SessionTypeOK /\ IssuedInv /\ Fields /\ BoundInv(t)
      /\ issued \in Nat /\ request[t] \in [Requests[t] -> RequestStates]
      /\ NoRefresh \in RefreshRecords /\ Idle \in RequestStates
  BY TypesNow, TabTypes DEF SessionInv, NoRefresh, RefreshRecords, Idle, RequestStates
<1> DEFINE g == [r \in Requests[t] |-> IF r \in InPhase(t, {"waits"}) THEN Idle ELSE request[t][r]]
<1>1. /\ refresh[t].phase = "failed" /\ t \in open
      /\ refresh' = [refresh EXCEPT ![t] = NoRefresh]
      /\ request' = [request EXCEPT ![t] = g]
      /\ Logout(t) /\ ended' = (ended \/ store[t].auth)
      /\ UNCHANGED <<open, issued, issuedTo, mishap>>
  BY OutIsOpen DEF RefreshFailed, Free, ForcedLogout
<1>3. g \in [Requests[t] -> RequestStates]
  BY <1>0
<1>c. \A r \in Requests[t] : /\ g[r].phase # "waits"
                             /\ g[r].token = 0 \/ g[r].token = request[t][r].token
  BY <1>0 DEF InPhase, Idle
<1> HIDE DEF g
<1>4. /\ DOMAIN request' = Tabs /\ request'[t] = g /\ request'[t] \in [Requests[t] -> RequestStates]
      /\ \A x \in Tabs \ {t} : request'[x] = request[x]
  BY <1>0, <1>1, <1>3, AskedEffect
<1>6. /\ refresh' \in [Tabs -> RefreshRecords] /\ refresh'[t] = NoRefresh
      /\ \A x \in Tabs \ {t} : refresh'[x] = refresh[x]
  BY <1>0, <1>1, TypesNow
<1>5. /\ store' \in [Tabs -> Stores] /\ disk' \in Stores
      /\ store'[t] = SignedOut /\ \A x \in Tabs \ {t} : store'[x] = store[x]
      /\ live' \subseteq 1 .. issued /\ crossed' \in BOOLEAN /\ DiskBound'
      /\ ~crossed' => ~crossed /\ Matches(disk)' /\ TabKept(t)'
  BY <1>1, <1>4, <1>6, LogoutEffect
<1>d. store[t].auth \in BOOLEAN
  BY <1>0, TabTypes DEF Stores
<1>7. Touches(t) /\ Fields'
  BY <1>0, <1>1, <1>4, <1>5, <1>6, <1>d DEF Touches, Fields
<1>8. SessionTypeOK'
  BY <1>0, <1>4, <1>5, <1>6, <1>7, TypesAgain
<1>9. IssuedInv' /\ WaiterInv(t)' /\ ClosedInv(t)'
  BY <1>0, <1>1, <1>4, <1>6, <1>c DEF IssuedInv, WaiterInv, Waiting, ClosedInv, NoRefresh
<1>10. BoundInv(t)'
  BY <1>0, <1>1, <1>4, <1>5, <1>6, <1>c DEF BoundInv, NoRefresh, SignedOut
<1> QED
  BY <1>5, <1>7, <1>8, <1>9, <1>10, Assemble

-----------------------------------------------------------------------------
(* Answers.                                                                 *)

\* A request that is answered was not waiting, and its slot is free then.
LEMMA SettledTab ==
  ASSUME SessionInv, NEW t \in Tabs, NEW r \in Requests[t], Settle(t, r),
         request[t][r].phase # "waits", request[t][r].phase # "idle"
  PROVE  /\ t \in open
         /\ DOMAIN request' = Tabs /\ request'[t] \in [Requests[t] -> RequestStates]
         /\ \A x \in Tabs \ {t} : request'[x] = request[x]
         /\ \A q \in Requests[t] : request'[t][q] = IF q = r THEN Idle ELSE request[t][q]
         /\ refresh'[t] = refresh[t] => WaiterInv(t)'
         /\ open' = open => ClosedInv(t)'
<1>0. SessionTypeOK /\ WaiterInv(t)
  BY DEF SessionInv
<1>1. t \in open
  BY OutIsOpen
<1>2. /\ DOMAIN request' = Tabs /\ request'[t] \in [Requests[t] -> RequestStates]
      /\ \A x \in Tabs \ {t} : request'[x] = request[x]
      /\ \A q \in Requests[t] : request'[t][q] = IF q = r THEN Idle ELSE request[t][q]
  BY <1>0, SettleEffect
<1>3. refresh'[t] = refresh[t] => WaiterInv(t)'
  BY <1>0, <1>2 DEF WaiterInv, Waiting, Idle
<1> QED
  BY <1>1, <1>2, <1>3 DEF ClosedInv

\* The rest of the tab's requests keep what they have kept.
LEMMA SettledKept ==
  ASSUME SessionInv, ~crossed, NEW t \in Tabs, NEW r \in Requests[t], UNCHANGED issuedTo,
         store'[t].refresh = store[t].refresh,
         \A q \in Requests[t] : request'[t][q] = IF q = r THEN Idle ELSE request[t][q]
  PROVE  UserKept(t)' /\ LoginKept(t)'
<1>1. UserKept(t) /\ LoginKept(t)
  BY DEF SessionInv, TabKept
<1>2. UserKept(t)'
  BY <1>1 DEF UserKept, Out, Idle
<1>3. LoginKept(t)'
  BY <1>1 DEF LoginKept, Out, Idle
<1> QED
  BY <1>2, <1>3

\* An answer that changes nothing but its slot.
LEMMA PassOnStep ==
  ASSUME SessionInv, NEW t \in Tabs, NEW r \in Requests[t], Settle(t, r),
         request[t][r].phase # "waits", request[t][r].phase # "idle",
         UNCHANGED <<store, disk, open, refresh, issued, issuedTo, live, mishap, crossed, ended>>
  PROVE  SessionInv'
<1>0. /\ SessionTypeOK /\ IssuedInv /\ DiskBound /\ Fields /\ BoundInv(t) /\ issued \in Nat
  BY TypesNow, TabTypes DEF SessionInv
<1>1. /\ DOMAIN request' = Tabs /\ request'[t] \in [Requests[t] -> RequestStates]
      /\ \A x \in Tabs \ {t} : request'[x] = request[x]
      /\ \A q \in Requests[t] : request'[t][q] = IF q = r THEN Idle ELSE request[t][q]
      /\ WaiterInv(t)' /\ ClosedInv(t)'
  BY SettledTab
<1>2. Touches(t) /\ Fields'
  BY <1>0, <1>1 DEF Touches, Fields
<1>3. SessionTypeOK'
  BY <1>0, <1>1, <1>2, TypesAgain, TypesNow
<1>4. IssuedInv' /\ DiskBound' /\ BoundInv(t)'
  BY <1>0, <1>1 DEF IssuedInv, DiskBound, BoundInv, Idle
<1>5. ASSUME ~crossed' PROVE ~crossed /\ Matches(disk)' /\ TabKept(t)'
  <2>1. ~crossed /\ TabKept(t)
    BY <1>5 DEF SessionInv
  <2>2. Matches(disk)' /\ Matches(store[t])' /\ RefreshKept(t)'
    BY <2>1, KeptParts
  <2>3. UserKept(t)' /\ LoginKept(t)'
    BY <1>1, <2>1, SettledKept
  <2> QED
    BY <2>1, <2>2, <2>3 DEF TabKept
<1> QED
  BY <1>1, <1>2, <1>3, <1>4, <1>5, Assemble

\* An answer that signs the tab out.
LEMMA GiveUpStep ==
  ASSUME SessionInv, NEW t \in Tabs, NEW r \in Requests[t], Settle(t, r),
         request[t][r].phase # "waits", request[t][r].phase # "idle",
         ForcedLogout(t), mishap' \in BOOLEAN,
         UNCHANGED <<open, refresh, issued, issuedTo>>
  PROVE  SessionInv'
<1>0. /\ SessionTypeOK /\ IssuedInv /\ Fields /\ BoundInv(t) /\ issued \in Nat
      /\ store[t].auth \in BOOLEAN
  BY TypesNow, TabTypes DEF SessionInv, Stores
<1>1. /\ DOMAIN request' = Tabs /\ request'[t] \in [Requests[t] -> RequestStates]
      /\ \A x \in Tabs \ {t} : request'[x] = request[x]
      /\ \A q \in Requests[t] : request'[t][q] = IF q = r THEN Idle ELSE request[t][q]
      /\ WaiterInv(t)' /\ ClosedInv(t)'
  BY SettledTab
<1>2. Logout(t) /\ ended' = (ended \/ store[t].auth)
  BY DEF ForcedLogout
<1>3. /\ store' \in [Tabs -> Stores] /\ disk' \in Stores
      /\ store'[t] = SignedOut /\ \A x \in Tabs \ {t} : store'[x] = store[x]
      /\ live' \subseteq 1 .. issued /\ crossed' \in BOOLEAN /\ DiskBound'
      /\ ~crossed' => ~crossed /\ Matches(disk)' /\ TabKept(t)'
  BY <1>0, <1>1, <1>2, TypesNow, LogoutEffect
<1>4. Touches(t) /\ Fields'
  BY <1>0, <1>1, <1>2, <1>3 DEF Touches, Fields
<1>5. SessionTypeOK'
  BY <1>0, <1>1, <1>3, <1>4, TypesAgain, TypesNow
<1>6. IssuedInv' /\ BoundInv(t)'
  BY <1>0, <1>1, <1>3 DEF IssuedInv, BoundInv, Idle, SignedOut
<1> QED
  BY <1>1, <1>3, <1>4, <1>5, <1>6, Assemble

LEMMA LoginAnswered ==
  ASSUME SessionInv, NEW t \in Tabs, NEW r \in Requests[t], Succeed(t, r), request[t][r].kind = "login"
  PROVE  SessionInv'
<1>0. /\ SessionTypeOK /\ IssuedInv /\ DiskBound /\ Fields
      /\ WaiterInv(t) /\ BoundInv(t) /\ issued \in Nat /\ issued \in Pairs
      /\ refresh[t].token \in Nat /\ refresh[t].new \in Nat
      /\ \A q \in Requests[t] : request[t][q].token \in Nat
  BY TypesNow, TabTypes DEF SessionInv
<1>1. /\ request[t][r].phase \in {"sent", "resent"} /\ Settle(t, r)
      /\ Issue(0) /\ live' = live \cup {issued + 1}
      /\ SetStore(t, [access |-> issued + 1, refresh |-> issued + 1, user |-> issued + 1, auth |-> TRUE])
      /\ UNCHANGED <<open, refresh, mishap, crossed, ended>>
  BY DEF Succeed
<1>2. /\ DOMAIN request' = Tabs /\ request'[t] \in [Requests[t] -> RequestStates]
      /\ \A x \in Tabs \ {t} : request'[x] = request[x]
      /\ \A q \in Requests[t] : request'[t][q] = IF q = r THEN Idle ELSE request[t][q]
      /\ WaiterInv(t)' /\ ClosedInv(t)'
  BY <1>1, SettledTab
<1>3. /\ issued' = issued + 1 /\ issued + 1 \in Pairs /\ issued + 1 # 0
      /\ issuedTo' \in [Pairs -> Pairs] /\ issuedTo'[issued + 1] = issued + 1
      /\ \A n \in 0 .. issued : issuedTo'[n] = issuedTo[n]
  BY <1>0, <1>1, MaxIssuedAssumption DEF Issue, Fields, Pairs
<1> DEFINE s == [access |-> issued + 1, refresh |-> issued + 1, user |-> issued + 1, auth |-> TRUE]
<1>4. s \in Stores
  BY <1>3 DEF Stores
<1>5. /\ store' \in [Tabs -> Stores] /\ disk' \in Stores /\ store'[t] = s /\ disk' = s
      /\ \A x \in Tabs \ {t} : store'[x] = store[x]
  BY <1>0, <1>1, <1>4, SetStoreEffect
<1>6. Touches(t)
  BY <1>0, <1>1, <1>2, <1>3, <1>5 DEF Touches
<1>7. SessionTypeOK'
  <2>1. live' \subseteq 1 .. issued'
    <3>1. live \subseteq 1 .. issued
      BY <1>0 DEF Fields
    <3>2. live' = live \cup {issued + 1} /\ issued' = issued + 1 /\ issued \in Nat
      BY <1>0, <1>1, <1>3
    <3> QED
      BY <3>1, <3>2
  <2>a. open' = open /\ mishap' = mishap /\ crossed' = crossed /\ ended' = ended
    BY <1>1
  <2>2. Fields'
    BY <1>0, <1>3, <2>1, <2>a DEF Fields
  <2> QED
    BY <1>0, <1>1, <1>2, <1>5, <1>6, <2>2, TypesAgain, TypesNow
<1>8. IssuedInv' /\ DiskBound' /\ BoundInv(t)'
  <2>1. IssuedInv'
    BY <1>0, <1>3 DEF IssuedInv
  <2>2. DiskBound'
    BY <1>0, <1>3, <1>5 DEF DiskBound
  <2>3. BoundInv(t)'
    BY <1>0, <1>1, <1>2, <1>3, <1>5 DEF BoundInv, Idle
  <2> QED
    BY <2>1, <2>2, <2>3
<1>9. ASSUME ~crossed' PROVE ~crossed /\ Matches(disk)' /\ TabKept(t)'
  <2>1. ~crossed /\ RefreshKept(t) /\ UserKept(t) /\ LoginKept(t)
    BY <1>1, <1>9 DEF SessionInv, TabKept
  <2>2. Matches(disk)' /\ Matches(store[t])'
    BY <1>3, <1>5 DEF Matches
  <2>3. /\ Out(t, r, "login") /\ request[t][r].phase = "sent"
        /\ \A q \in Requests[t] : Out(t, q, "login") => q = r
        /\ store[t].refresh = 0 \/ \A q \in Requests[t] \ {r} : request[t][q].phase = "idle"
    BY <1>1, <2>1 DEF LoginKept, Out
  <2>4. refresh[t].phase = "none"
    <3>1. SUFFICES ASSUME refresh[t].phase # "none" PROVE FALSE
      OBVIOUS
    <3>2. store[t].refresh # 0
      BY <2>1, <3>1 DEF RefreshKept
    <3>3. PICK q \in Requests[t] : request[t][q].phase = "waits"
      BY <1>0, <3>1 DEF WaiterInv, Waiting
    <3> QED
      BY <2>3, <3>2, <3>3
  <2>5. RefreshKept(t)'
    BY <1>1, <2>4 DEF RefreshKept
  <2>6. \A q \in Requests[t] : ~Out(t, q, "me")
    BY <2>1, <2>3 DEF UserKept, Out
  <2>7. UserKept(t)' /\ LoginKept(t)'
    BY <1>2, <2>3, <2>6 DEF UserKept, LoginKept, Out, Idle
  <2> QED
    BY <2>1, <2>2, <2>5, <2>7 DEF TabKept
<1> QED
  BY <1>2, <1>6, <1>7, <1>8, <1>9, Assemble

\* fetchUser.
LEMMA UserAnswered ==
  ASSUME SessionInv, NEW t \in Tabs, NEW r \in Requests[t], Succeed(t, r), request[t][r].kind = "me"
  PROVE  SessionInv'
<1>0. /\ SessionTypeOK /\ IssuedInv /\ DiskBound /\ Fields /\ BoundInv(t) /\ issued \in Nat
      /\ store[t] \in Stores /\ request[t][r].token \in Pairs
  BY TypesNow, TabTypes DEF SessionInv
<1> DEFINE s == [store[t] EXCEPT !.user = issuedTo[request[t][r].token], !.auth = TRUE]
<1>1. /\ request[t][r].phase \in {"sent", "resent"} /\ request[t][r].token # 0
      /\ Settle(t, r) /\ SetStore(t, s)
      /\ UNCHANGED <<open, refresh, issued, issuedTo, live, mishap, crossed, ended>>
  BY DEF Succeed, MayAccept
<1>2. /\ DOMAIN request' = Tabs /\ request'[t] \in [Requests[t] -> RequestStates]
      /\ \A x \in Tabs \ {t} : request'[x] = request[x]
      /\ \A q \in Requests[t] : request'[t][q] = IF q = r THEN Idle ELSE request[t][q]
      /\ WaiterInv(t)' /\ ClosedInv(t)'
  BY <1>1, SettledTab
<1>3. s \in Stores
  BY <1>0 DEF Stores, Fields
<1>4. /\ s.access = store[t].access /\ s.refresh = store[t].refresh
      /\ s.user = issuedTo[request[t][r].token] /\ s.auth = TRUE
  BY <1>0 DEF Stores
<1> HIDE DEF s
<1>5. /\ store' \in [Tabs -> Stores] /\ disk' \in Stores /\ store'[t] = s /\ disk' = s
      /\ \A x \in Tabs \ {t} : store'[x] = store[x]
  BY <1>0, <1>1, <1>3, SetStoreEffect
<1>6. Touches(t) /\ Fields'
  BY <1>0, <1>1, <1>2, <1>5 DEF Touches, Fields
<1>7. SessionTypeOK'
  BY <1>0, <1>1, <1>2, <1>5, <1>6, TypesAgain, TypesNow
<1>8. IssuedInv' /\ DiskBound' /\ BoundInv(t)'
  BY <1>0, <1>1, <1>2, <1>4, <1>5 DEF IssuedInv, DiskBound, BoundInv, Idle
<1>9. ASSUME ~crossed' PROVE ~crossed /\ Matches(disk)' /\ TabKept(t)'
  <2>1. ~crossed /\ Matches(store[t]) /\ RefreshKept(t) /\ UserKept(t)
    BY <1>1, <1>9 DEF SessionInv, TabKept
  <2>2. store[t].refresh # 0 /\ issuedTo[request[t][r].token] = issuedTo[store[t].refresh]
    BY <1>1, <2>1 DEF UserKept, Out
  <2>3. Matches(disk)' /\ Matches(store[t])'
    BY <1>1, <1>4, <1>5, <2>1, <2>2 DEF Matches
  <2>4. RefreshKept(t)'
    BY <1>1, <1>4, <1>5, <2>1 DEF RefreshKept
  <2>5. UserKept(t)' /\ LoginKept(t)'
    BY <1>1, <1>2, <1>4, <1>5, <2>1, SettledKept
  <2> QED
    BY <2>1, <2>3, <2>4, <2>5 DEF TabKept
<1> QED
  BY <1>2, <1>6, <1>7, <1>8, <1>9, Assemble

LEMMA SucceedStep ==
  ASSUME SessionInv, NEW t \in Tabs, NEW r \in Requests[t], Succeed(t, r)
  PROVE  SessionInv'
<1>1. CASE request[t][r].kind = "login"
  BY <1>1, LoginAnswered
<1>2. CASE request[t][r].kind = "me"
  BY <1>2, UserAnswered
<1>3. CASE request[t][r].kind \notin {"login", "me"}
  <2>1. /\ request[t][r].phase \in {"sent", "resent"} /\ Settle(t, r)
        /\ UNCHANGED <<store, disk, open, refresh, issued, issuedTo, live, mishap, crossed, ended>>
    BY <1>3 DEF Succeed
  <2> QED
    BY <2>1, PassOnStep
<1> QED
  BY <1>1, <1>2, <1>3

LEMMA FailStep ==
  ASSUME SessionInv, NEW t \in Tabs, NEW r \in Requests[t], Fail(t, r)
  PROVE  SessionInv'
<1>1. /\ request[t][r].phase \in {"sent", "resent"} /\ Settle(t, r)
      /\ UNCHANGED <<open, refresh, issued, issuedTo>>
      /\ \/ ForcedLogout(t) /\ mishap' = (mishap \/ store[t].auth)
         \/ UNCHANGED <<store, disk, live, crossed, ended, mishap>>
  BY DEF Fail
<1>2. mishap \in BOOLEAN /\ store[t].auth \in BOOLEAN
  BY TabTypes DEF SessionInv, SessionTypeOK, Stores
<1>3. CASE ForcedLogout(t) /\ mishap' = (mishap \/ store[t].auth)
  BY <1>1, <1>2, <1>3, GiveUpStep
<1>4. CASE UNCHANGED <<store, disk, live, crossed, ended, mishap>>
  BY <1>1, <1>4, PassOnStep
<1> QED
  BY <1>1, <1>3, <1>4

LEMMA RefuseStep ==
  ASSUME SessionInv, NEW t \in Tabs, NEW r \in Requests[t], Refuse(t, r)
  PROVE  SessionInv'
<1>0. /\ SessionTypeOK /\ IssuedInv /\ DiskBound /\ Fields
      /\ WaiterInv(t) /\ BoundInv(t) /\ ClosedInv(t) /\ issued \in Nat
      /\ request[t] \in [Requests[t] -> RequestStates] /\ request[t][r] \in RequestStates
      /\ store[t].refresh \in Pairs /\ 0 \in Pairs /\ mishap \in BOOLEAN
  BY TypesNow, TabTypes DEF SessionInv, Fields
<1>1. /\ request[t][r].phase = "sent" /\ request[t][r].kind # "login" /\ t \in open
      /\ UNCHANGED <<open, issued, issuedTo, mishap>>
  BY OutIsOpen DEF Refuse, MayRefuse
<1>2. CASE store[t].refresh = 0
  <2>1. Settle(t, r) /\ UNCHANGED refresh /\ ForcedLogout(t)
    BY <1>2 DEF Refuse
  <2> QED
    BY <1>0, <1>1, <2>1, GiveUpStep
<1>3. CASE store[t].refresh # 0
  <2> DEFINE q0 == [request[t][r] EXCEPT !.phase = "waits"]
             g == [request[t] EXCEPT ![r] = q0]
  <2>1. /\ request' = [request EXCEPT ![t][r].phase = "waits"]
        /\ Refreshing(t) /\ UNCHANGED <<store, disk, live, crossed, ended>>
    BY <1>3 DEF Refuse
  <2>2. /\ q0 \in RequestStates /\ q0.phase = "waits"
        /\ q0.kind = request[t][r].kind /\ q0.token = request[t][r].token
    BY <1>0 DEF RequestStates
  <2>a. g \in [Requests[t] -> RequestStates] /\ request' = [request EXCEPT ![t] = g]
    BY <1>0, <2>1, <2>2, TabTypes
  <2>b. \A q \in Requests[t] : g[q] = IF q = r THEN q0 ELSE request[t][q]
    BY <1>0
  <2> HIDE DEF q0, g
  <2>3. /\ DOMAIN request' = Tabs /\ request'[t] = g
        /\ request'[t] \in [Requests[t] -> RequestStates]
        /\ \A x \in Tabs \ {t} : request'[x] = request[x]
    BY <1>0, <2>a, AskedEffect
  <2>4. /\ refresh' \in [Tabs -> RefreshRecords]
        /\ \A x \in Tabs \ {t} : refresh'[x] = refresh[x]
        /\ \/ refresh'[t] = refresh[t] /\ refresh[t].phase # "none"
           \/ refresh'[t] = [phase |-> "asked", token |-> store[t].refresh, new |-> 0]
    <3>1. [phase |-> "asked", token |-> store[t].refresh, new |-> 0] \in RefreshRecords
      BY <1>0 DEF RefreshRecords
    <3> QED
      BY <1>0, <2>1, <3>1, TypesNow DEF Refreshing
  <2>5. Touches(t) /\ Fields'
    BY <1>0, <1>1, <2>1, <2>3, <2>4 DEF Touches, Fields
  <2>6. SessionTypeOK'
    BY <1>0, <2>1, <2>3, <2>4, <2>5, TypesAgain, TypesNow
  <2>7. IssuedInv' /\ DiskBound' /\ ClosedInv(t)'
    BY <1>0, <1>1, <2>1 DEF IssuedInv, DiskBound, ClosedInv
  <2>8. WaiterInv(t)'
    BY <2>2, <2>3, <2>4, <2>b DEF WaiterInv, Waiting
  <2>9. BoundInv(t)'
    BY <1>0, <1>1, <2>1, <2>2, <2>3, <2>4, <2>b DEF BoundInv
  <2>10. ASSUME ~crossed' PROVE ~crossed /\ Matches(disk)' /\ TabKept(t)'
    <3>1. ~crossed /\ RefreshKept(t) /\ UserKept(t) /\ LoginKept(t)
      BY <2>1, <2>10 DEF SessionInv, TabKept
    <3>2. Matches(disk)' /\ Matches(store[t])'
      BY <1>1, <2>1, <3>1, KeptParts
    <3>3. RefreshKept(t)'
      BY <1>1, <1>3, <2>1, <2>4, <3>1 DEF RefreshKept
    <3>4. UserKept(t)' /\ LoginKept(t)'
      BY <1>1, <2>1, <2>2, <2>3, <2>b, <3>1 DEF UserKept, LoginKept, Out
    <3> QED
      BY <3>1, <3>2, <3>3, <3>4 DEF TabKept
  <2> QED
    BY <2>5, <2>6, <2>7, <2>8, <2>9, <2>10, Assemble
<1> QED
  BY <1>2, <1>3

-----------------------------------------------------------------------------
(* The invariant.                                                           *)

LEMMA SessionInvStep == SessionInv /\ [SessionNext]_sessionVars => SessionInv'
<1> SUFFICES ASSUME SessionInv, [SessionNext]_sessionVars PROVE SessionInv'
  OBVIOUS
<1>1. CASE UNCHANGED sessionVars
  BY <1>1 DEF sessionVars, SessionInv, SessionTypeOK, InPhase, IssuedInv, DiskBound, WaiterInv, Waiting, BoundInv,
              ClosedInv, TabKept, Matches, RefreshKept, UserKept, LoginKept, Out
<1>2. CASE \E n \in 1 .. issued : ExpireRefresh(n)
  <2>1. /\ live' \subseteq live /\ mishap' = TRUE
        /\ UNCHANGED <<store, disk, open, request, refresh, issued, issuedTo, crossed, ended>>
    BY <1>2 DEF ExpireRefresh
  <2>2. SessionTypeOK'
    BY <2>1 DEF SessionInv, SessionTypeOK
  <2> QED
    BY <2>1, <2>2 DEF SessionInv, IssuedInv, DiskBound, WaiterInv, Waiting, BoundInv, ClosedInv,
                      TabKept, Matches, RefreshKept, UserKept, LoginKept, Out
<1>3. ASSUME NEW t \in Tabs,
             \/ LoadPage(t) \/ SignOut(t)
             \/ ServeRefresh(t) \/ RefreshDone(t) \/ RefreshFailed(t)
             \/ \E r \in Requests[t] : \/ Ask(t, r) \/ Login(t, r)
                                       \/ Succeed(t, r) \/ Fail(t, r) \/ Refuse(t, r)
      PROVE  SessionInv'
  BY <1>3, LoadPageStep, SignOutStep, ServeRefreshStep, RefreshDoneStep, RefreshFailedStep,
     SendStep, SucceedStep, FailStep, RefuseStep
<1> QED
  BY <1>1, <1>2, <1>3 DEF SessionNext

LEMMA SessionInvariant == SessionSpec => []SessionInv
<1>1. SessionInit => SessionInv
  BY SessionInvInit
<1> QED
  BY <1>1, SessionInvStep, PTL DEF SessionSpec

\* Every variable of the session has its type, however many tabs, requests and pairs there are.
THEOREM SessionTypeCorrect == SessionSpec => []SessionTypeOK
<1>1. SessionInv => SessionTypeOK
  BY DEF SessionInv
<1> QED
  BY <1>1, SessionInvariant, PTL

\* A tab's tokens are one pair and belong to the user that it shows, as long as no logout
\* meets an answer that is still out, whatever the other tabs do (auth-store.ts, api.ts).
THEOREM TokensAreTheUsers == SessionSpec => []TokensMatchSession
<1>1. SessionInv => TokensMatchSession
  BY DEF SessionInv, SessionTypeOK, TabKept, Matches, TokensMatchSession
<1> QED
  BY <1>1, SessionInvariant, PTL

\* No request waits for a refresh that is not out, and no refresh is out for nobody (api.ts).
THEOREM NobodyWaitsInVain == SessionSpec => []WaiterHasRefresh
<1>1. SessionInv => WaiterHasRefresh
  BY DEF SessionInv, WaiterInv, Waiting, WaiterHasRefresh, InPhase
<1> QED
  BY <1>1, SessionInvariant, PTL

-----------------------------------------------------------------------------
(* Why a session is lost.                                                   *)

\* Without a mishap one tab at most has ever been open, its refresh token is good
\* unless it is being exchanged, and then the new one is.
OneTab(t) ==
  /\ \A x \in open : x = t
  /\ disk = store[t]
  /\ refresh[t].phase # "failed"
  /\ refresh[t].phase \in {"none", "asked"} /\ store[t].refresh # 0 => store[t].refresh \in live
  /\ refresh[t].phase = "granted" => refresh[t].new \in live

ReasonInv ==
  ~mishap /\ ~crossed =>
    /\ ~ended
    /\ open = {} => disk.refresh = 0
    /\ \A t \in open : OneTab(t)

LEMMA ReasonInit == SessionInit => ReasonInv
BY DEF SessionInit, ReasonInv, SignedOut

LEMMA ReasonTab ==
  ASSUME SessionInv, ReasonInv, ~mishap, ~crossed, NEW t \in Tabs,
         \/ t \in open
         \/ refresh[t].phase # "none" \/ \E r \in Requests[t] : request[t][r].phase # "idle"
  PROVE  t \in open /\ open = {t} /\ OneTab(t) /\ ~ended /\ TabKept(t)
<1>1. t \in open
  BY OutIsOpen
<1>2. OneTab(t) /\ ~ended
  BY <1>1 DEF ReasonInv
<1>3. open = {t}
  BY <1>1, <1>2 DEF OneTab
<1> QED
  BY <1>1, <1>2, <1>3 DEF SessionInv

\* Signing out leaves nothing that could be lost.
LEMMA ReasonLogout ==
  ASSUME SessionInv, ReasonInv, NEW t \in Tabs, ~mishap, ~crossed', Logout(t), t \in open,
         UNCHANGED open,
         \/ ended' = ended
         \/ ended' = (ended \/ store[t].auth) /\ ~store[t].auth
  PROVE  ReasonInv'
<1>1. ~crossed /\ ~Pending(t)'
  BY DEF Logout
<1>2. open = {t} /\ ~ended
  BY <1>1, ReasonTab
<1>3. /\ store'[t] = SignedOut /\ disk' = SignedOut
  BY TabTypes DEF Logout, SetStore, SessionInv
<1>4. refresh'[t].phase = "none"
  BY <1>1 DEF Pending
<1>5. ~ended'
  BY <1>2
<1>6. open' = {t} /\ OneTab(t)'
  BY <1>2, <1>3, <1>4 DEF OneTab, SignedOut
<1> QED
  BY <1>5, <1>6 DEF ReasonInv

LEMMA ReasonStep == SessionInv /\ ReasonInv /\ [SessionNext]_sessionVars => ReasonInv'
<1> SUFFICES ASSUME SessionInv, ReasonInv, [SessionNext]_sessionVars, ~mishap', ~crossed'
             PROVE  ReasonInv'
  BY DEF ReasonInv
<1>0. SessionTypeOK
  BY DEF SessionInv
<1>1. CASE UNCHANGED sessionVars
  BY <1>1 DEF sessionVars, ReasonInv, OneTab
<1>2. CASE \E n \in 1 .. issued : ExpireRefresh(n)
  BY <1>2 DEF ExpireRefresh
<1>3. ASSUME NEW t \in Tabs, LoadPage(t)
      PROVE  ReasonInv'
  <2>1. /\ open \ {t} = {} /\ refresh[t].phase = "none" /\ ~mishap /\ ~crossed
        /\ open' = open \cup {t} /\ live' = live
        /\ UNCHANGED <<disk, ended>>
    BY <1>3 DEF LoadPage
  <2>2. store'[t] = disk /\ refresh'[t] = NoRefresh
    BY <1>0, <1>3, TabTypes, TypesNow DEF LoadPage
  <2>3. open' = {t} /\ ~ended' /\ (disk.refresh # 0 => disk.refresh \in live)
    BY <2>1 DEF ReasonInv, OneTab
  <2> QED
    BY <2>1, <2>2, <2>3 DEF ReasonInv, OneTab, NoRefresh
<1>4. ASSUME NEW t \in Tabs, SignOut(t)
      PROVE  ReasonInv'
  <2>1. t \in open /\ Logout(t) /\ UNCHANGED <<open, mishap, ended>>
    BY <1>4 DEF SignOut
  <2> QED
    BY <2>1, ReasonLogout
<1>5. ASSUME NEW t \in Tabs, ServeRefresh(t)
      PROVE  ReasonInv'
  <2>1. /\ refresh[t].phase = "asked" /\ ~crossed /\ ~mishap
        /\ UNCHANGED <<store, disk, open, ended>>
    BY <1>5 DEF ServeRefresh, SessionInv, SessionTypeOK
  <2>2. open = {t} /\ OneTab(t) /\ ~ended /\ TabKept(t)
    BY <2>1, ReasonTab
  <2>3. refresh[t].token \in live
    BY <2>1, <2>2 DEF OneTab, TabKept, RefreshKept
  <2>4. /\ refresh' = [refresh EXCEPT ![t].phase = "granted", ![t].new = issued + 1]
        /\ issued + 1 \in live'
    BY <1>5, <2>3 DEF ServeRefresh
  <2>5. refresh'[t].phase = "granted" /\ refresh'[t].new = issued + 1
    BY <1>0, <2>4, TypesNow DEF RefreshRecords
  <2> QED
    BY <2>1, <2>2, <2>4, <2>5 DEF ReasonInv, OneTab
<1>6. ASSUME NEW t \in Tabs, RefreshDone(t)
      PROVE  ReasonInv'
  <2> DEFINE s == [store[t] EXCEPT !.access = refresh[t].new, !.refresh = refresh[t].new]
  <2>1. /\ refresh[t].phase = "granted" /\ ~crossed /\ ~mishap
        /\ SetStore(t, s) /\ refresh' = [refresh EXCEPT ![t] = NoRefresh]
        /\ UNCHANGED <<open, live, ended>>
    BY <1>6 DEF RefreshDone
  <2>2. open = {t} /\ OneTab(t) /\ ~ended
    BY <2>1, ReasonTab
  <2>3. store'[t] = s /\ disk' = s /\ refresh'[t] = NoRefresh
    BY <1>0, <2>1, TabTypes, TypesNow DEF SetStore
  <2>4. s.refresh = refresh[t].new
    BY <1>0, TabTypes DEF Stores
  <2> HIDE DEF s
  <2> QED
    BY <2>1, <2>2, <2>3, <2>4 DEF ReasonInv, OneTab, NoRefresh
<1>7. ASSUME NEW t \in Tabs, RefreshFailed(t)
      PROVE  ReasonInv'
  <2>1. refresh[t].phase = "failed" /\ ~crossed /\ ~mishap
    BY <1>7 DEF RefreshFailed, ForcedLogout, Logout
  <2> QED
    BY <2>1, ReasonTab DEF OneTab
<1>8. ASSUME NEW t \in Tabs, NEW r \in Requests[t], Ask(t, r) \/ Login(t, r)
      PROVE  ReasonInv'
  BY <1>8 DEF Ask, Login, ReasonInv, OneTab
<1>9. ASSUME NEW t \in Tabs, NEW r \in Requests[t], Succeed(t, r)
      PROVE  ReasonInv'
  <2>1. /\ request[t][r].phase \in {"sent", "resent"} /\ ~crossed /\ ~mishap
        /\ UNCHANGED <<open, refresh, ended>>
    BY <1>9 DEF Succeed
  <2>2. open = {t} /\ OneTab(t) /\ ~ended
    BY <2>1, ReasonTab
  <2>3. CASE request[t][r].kind = "login"
    <3> DEFINE s == [access |-> issued + 1, refresh |-> issued + 1, user |-> issued + 1, auth |-> TRUE]
    <3>1. live' = live \cup {issued + 1} /\ SetStore(t, s)
      BY <1>9, <2>3 DEF Succeed
    <3>2. store'[t] = s /\ disk' = s
      BY <1>0, <3>1, TabTypes DEF SetStore
    <3> QED
      BY <2>1, <2>2, <3>1, <3>2 DEF ReasonInv, OneTab
  <2>4. CASE request[t][r].kind = "me"
    <3> DEFINE s == [store[t] EXCEPT !.user = issuedTo[request[t][r].token], !.auth = TRUE]
    <3>1. UNCHANGED live /\ SetStore(t, s)
      BY <1>9, <2>4 DEF Succeed
    <3>2. store'[t] = s /\ disk' = s /\ s.refresh = store[t].refresh
      BY <1>0, <3>1, TabTypes DEF SetStore, Stores
    <3> HIDE DEF s
    <3> QED
      BY <2>1, <2>2, <3>1, <3>2 DEF ReasonInv, OneTab
  <2>5. CASE request[t][r].kind \notin {"login", "me"}
    <3>1. UNCHANGED <<store, disk, live>>
      BY <1>9, <2>5 DEF Succeed
    <3> QED
      BY <2>1, <2>2, <3>1 DEF ReasonInv, OneTab
  <2> QED
    BY <2>3, <2>4, <2>5
<1>10. ASSUME NEW t \in Tabs, NEW r \in Requests[t], Fail(t, r)
       PROVE  ReasonInv'
  <2>1. /\ request[t][r].phase \in {"sent", "resent"} /\ UNCHANGED <<open, refresh>>
        /\ \/ ForcedLogout(t) /\ mishap' = (mishap \/ store[t].auth)
           \/ UNCHANGED <<store, disk, live, crossed, ended, mishap>>
    BY <1>10 DEF Fail
  <2>2. CASE ForcedLogout(t) /\ mishap' = (mishap \/ store[t].auth)
    <3>1. /\ ~mishap /\ ~store[t].auth /\ Logout(t)
          /\ ended' = (ended \/ store[t].auth) /\ ~crossed
      BY <2>2 DEF ForcedLogout, Logout
    <3>2. t \in open
      BY <2>1, OutIsOpen
    <3> QED
      BY <2>1, <3>1, <3>2, ReasonLogout
  <2>3. CASE UNCHANGED <<store, disk, live, crossed, ended, mishap>>
    BY <2>1, <2>3 DEF ReasonInv, OneTab
  <2> QED
    BY <2>1, <2>2, <2>3
<1>11. ASSUME NEW t \in Tabs, NEW r \in Requests[t], Refuse(t, r)
       PROVE  ReasonInv'
  <2>1. /\ request[t][r].phase = "sent" /\ UNCHANGED <<open, mishap>> /\ ~mishap
        /\ t \in open
    BY <1>11, OutIsOpen DEF Refuse
  <2>2. CASE store[t].refresh = 0
    <3>1. Logout(t) /\ ended' = (ended \/ store[t].auth) /\ ~crossed
      BY <1>11, <2>2 DEF Refuse, ForcedLogout, Logout
    <3>2. ~store[t].auth
      BY <2>1, <2>2, <3>1, ReasonTab DEF TabKept, Matches
    <3> QED
      BY <2>1, <3>1, <3>2, ReasonLogout
  <2>3. CASE store[t].refresh # 0
    <3>1. Refreshing(t) /\ UNCHANGED <<store, disk, live, crossed, ended>>
      BY <1>11, <2>3 DEF Refuse
    <3>2. open = {t} /\ OneTab(t) /\ ~ended
      BY <2>1, <3>1, ReasonTab
    <3>3. refresh'[t] = refresh[t] \/ (refresh[t].phase = "none" /\ refresh'[t].phase = "asked")
      BY <1>0, <3>1, TypesNow DEF Refreshing
    <3> QED
      BY <2>1, <3>1, <3>2, <3>3 DEF ReasonInv, OneTab
  <2> QED
    BY <2>2, <2>3
<1> QED
  BY <1>1, <1>2, <1>3, <1>4, <1>5, <1>6, <1>7, <1>8, <1>9, <1>10, <1>11 DEF SessionNext

\* The interceptor ends the session of a tab that shows a user only after a mishap, or when
\* a logout has met an answer: as many requests as there are may find the token expired.
THEOREM SessionsEndForAReason == SessionSpec => []SessionLostHasReason
<1>1. SessionInit => ReasonInv
  BY ReasonInit
<1>2. SessionSpec => []ReasonInv
  BY <1>1, SessionInvariant, ReasonStep, PTL DEF SessionSpec
<1>3. ReasonInv => SessionLostHasReason
  BY DEF ReasonInv, SessionLostHasReason
<1> QED
  BY <1>2, <1>3, PTL

(***************************************************************************)
(* Proofs about NetworkView, for any nodes and panels: its panels          *)
(* implement LatestView, whatever order the answers come in.               *)
(***************************************************************************)
-----------------------------------------------------------------------------
(* The inductive invariant.                                                 *)

\* A request that is out is not ahead of the counter of its panel, and one with
\* the number of the counter is for the object of the panel's latest request.
FlightInv ==
  \A r \in flight : /\ r.seq <= latest[r.panel].seq
                    /\ r.seq = latest[r.panel].seq => r.of = latest[r.panel].of

NetInv == NetTypeOK /\ FlightInv

LEMMA NetInvInit == NetInit => NetInv
<1> SUFFICES ASSUME NetInit PROVE NetInv
  OBVIOUS
<1>1. [p \in Panels |-> [seq |-> 0, of |-> NoNode]] \in [Panels -> Marks]
  BY DEF Marks
<1>2. NetTypeOK
  BY <1>1 DEF NetInit, NetTypeOK
<1>3. FlightInv
  BY DEF NetInit, FlightInv
<1> QED
  BY <1>2, <1>3 DEF NetInv

-----------------------------------------------------------------------------
(* What every step does: at most one round of requests, at most one answer. *)

Refetch(F) == NoFetch(F) \/ \E P : \E n \in Nodes : Fetch(P, n, F)

NetAnswered == UNCHANGED view \/ \E r \in flight : IsLatest(r) /\ Take(r)

LEMMA RequestEffect ==
  ASSUME NetInv, NEW F \in SUBSET flight, Refetch(F)
  PROVE  /\ latest' \in [Panels -> Marks]
         /\ flight' \subseteq [panel : Panels, seq : Nat, of : Nodes]
         /\ FlightInv'
         /\ \E P \in SUBSET Panels : LV!Asks(P)
<1>0. NetTypeOK /\ FlightInv
  BY DEF NetInv
<1>1. CASE NoFetch(F)
  <2>1. latest' = latest /\ flight' = F
    BY <1>1 DEF NoFetch
  <2>2. PICK o : o = [p \in {} |-> NoNode]
    OBVIOUS
  <2>3. o \in [{} -> Nodes]
    BY <2>2
  <2>4. latest' = [p \in Panels |-> IF p \in {} THEN [seq |-> latest[p].seq + 1, of |-> o[p]]
                                    ELSE latest[p]]
    BY <1>0, <2>1 DEF NetTypeOK
  <2>5. LV!Asks({})
    BY <2>3, <2>4 DEF LV!Asks
  <2>6. FlightInv'
    BY <1>0, <2>1 DEF FlightInv
  <2> QED
    BY <1>0, <2>1, <2>5, <2>6 DEF NetTypeOK
<1>2. CASE \E P : \E n \in Nodes : Fetch(P, n, F)
  <2>a. PICK P : \E n \in Nodes : Fetch(P, n, F)
    BY <1>2
  <2>0. PICK n \in Nodes : Fetch(P, n, F)
    BY <2>a
  <2>1. latest' = [p \in Panels |-> IF p \in P THEN [seq |-> latest[p].seq + 1, of |-> n]
                                    ELSE latest[p]]
    BY <2>0 DEF Fetch
  <2>2. flight' = F \cup {[panel |-> p, seq |-> latest[p].seq + 1, of |-> n] : p \in P \cap Panels}
    BY <2>0 DEF Fetch
  <2>3. \A p \in Panels : latest[p] \in Marks /\ latest[p].seq \in Nat
    BY <1>0 DEF NetTypeOK, Marks
  <2>4. latest' \in [Panels -> Marks]
    BY <2>1, <2>3 DEF Marks
  <2>5. flight' \subseteq [panel : Panels, seq : Nat, of : Nodes]
    BY <1>0, <2>2, <2>3 DEF NetTypeOK
  <2>6. FlightInv'
    <3> SUFFICES ASSUME NEW r \in flight'
                 PROVE  /\ r.seq <= latest'[r.panel].seq
                        /\ r.seq = latest'[r.panel].seq => r.of = latest'[r.panel].of
      BY DEF FlightInv
    <3>1. CASE r \in F
      <4>1. r.panel \in Panels /\ r.seq \in Nat
        BY <1>0, <3>1 DEF NetTypeOK
      <4>2. /\ r.seq <= latest[r.panel].seq
            /\ r.seq = latest[r.panel].seq => r.of = latest[r.panel].of
        BY <1>0, <3>1 DEF FlightInv
      <4>3. latest[r.panel].seq \in Nat
        BY <2>3, <4>1
      <4>4. CASE r.panel \in P
        <5>1. latest'[r.panel].seq = latest[r.panel].seq + 1
          BY <2>1, <4>1, <4>4
        <5> QED
          BY <4>1, <4>2, <4>3, <5>1
      <4>5. CASE r.panel \notin P
        <5>1. latest'[r.panel] = latest[r.panel]
          BY <2>1, <4>1, <4>5
        <5> QED
          BY <4>2, <5>1
      <4> QED
        BY <4>4, <4>5
    <3>2. CASE r \notin F
      <4>1. PICK p \in P \cap Panels : r = [panel |-> p, seq |-> latest[p].seq + 1, of |-> n]
        BY <2>2, <3>2
      <4>2. latest'[p] = [seq |-> latest[p].seq + 1, of |-> n]
        BY <2>1
      <4> QED
        BY <2>3, <4>1, <4>2
    <3> QED
      BY <3>1, <3>2
  <2>7. LV!Asks(P \cap Panels)
    <3>1. PICK o : o = [p \in P \cap Panels |-> n]
      OBVIOUS
    <3>2. o \in [P \cap Panels -> Nodes]
      BY <3>1
    <3>3. latest' = [p \in Panels |-> IF p \in P \cap Panels
                                      THEN [seq |-> latest[p].seq + 1, of |-> o[p]]
                                      ELSE latest[p]]
      BY <2>1, <3>1
    <3> QED
      BY <3>2, <3>3 DEF LV!Asks
  <2> QED
    BY <2>4, <2>5, <2>6, <2>7
<1> QED
  BY <1>1, <1>2 DEF Refetch

LEMMA AnswerEffect ==
  ASSUME NetInv, NetAnswered
  PROVE  /\ view' \in [Panels -> Marks]
         /\ \E P \in SUBSET Panels : LV!Shows(P)
<1>0. NetTypeOK /\ FlightInv
  BY DEF NetInv
<1>1. CASE UNCHANGED view
  <2>1. view' = [p \in Panels |-> IF p \in {} THEN latest[p]
                                  ELSE IF p \in {} THEN [latest[p] EXCEPT !.of = NoNode]
                                  ELSE view[p]]
    BY <1>0, <1>1 DEF NetTypeOK
  <2>2. LV!Shows({})
    <3> USE DEF LV!Shows
    <3> WITNESS {} \in SUBSET {}
    <3> QED
      BY <2>1
  <2> QED
    BY <1>0, <1>1, <2>2 DEF NetTypeOK
<1>2. CASE \E r \in flight : IsLatest(r) /\ Take(r)
  <2>0. PICK r \in flight : IsLatest(r) /\ Take(r)
    BY <1>2
  <2>1. PICK of \in {r.of, NoNode} : view' = [view EXCEPT ![r.panel] = [seq |-> r.seq, of |-> of]]
    BY <2>0 DEF Take
  <2>2. /\ r.panel \in Panels /\ r.seq \in Nat /\ r.of \in Nodes
        /\ latest[r.panel] \in Marks
    BY <1>0 DEF NetTypeOK
  <2>3. latest[r.panel] = [seq |-> r.seq, of |-> r.of]
    BY <1>0, <2>0, <2>2 DEF IsLatest, FlightInv, Marks
  <2>4. view' \in [Panels -> Marks]
    BY <1>0, <2>1, <2>2 DEF NetTypeOK, Marks
  <2>5. CASE of = r.of
    <3>1. view' = [p \in Panels |-> IF p \in {r.panel} THEN latest[p]
                                    ELSE IF p \in {r.panel} THEN [latest[p] EXCEPT !.of = NoNode]
                                    ELSE view[p]]
      BY <1>0, <2>1, <2>2, <2>3, <2>5 DEF NetTypeOK
    <3>2. {r.panel} \in SUBSET {r.panel}
      OBVIOUS
    <3>3. LV!Shows({r.panel})
      BY <3>1, <3>2 DEF LV!Shows
    <3> QED
      BY <2>2, <2>4, <3>3
  <2>6. CASE of = NoNode
    <3>1. [latest[r.panel] EXCEPT !.of = NoNode] = [seq |-> r.seq, of |-> NoNode]
      BY <2>3
    <3>2. view' = [p \in Panels |-> IF p \in {} THEN latest[p]
                                    ELSE IF p \in {r.panel} THEN [latest[p] EXCEPT !.of = NoNode]
                                    ELSE view[p]]
      BY <1>0, <2>1, <2>2, <2>6, <3>1 DEF NetTypeOK
    <3>3. LV!Shows({r.panel})
      <4> USE DEF LV!Shows
      <4> WITNESS {} \in SUBSET {r.panel}
      <4> QED
        BY <3>2
    <3> QED
      BY <2>2, <2>4, <3>3
  <2> QED
    BY <2>1, <2>5, <2>6
<1> QED
  BY <1>1, <1>2 DEF NetAnswered

-----------------------------------------------------------------------------
(* Every action is such a step, and keeps the rest of the state in its type.*)

RestType ==
  /\ selected \in Nodes \cup {NoNode} /\ scanning \in Nodes \cup {NoNode}
  /\ trigger \subseteq Nodes /\ baselineOps \subseteq Nodes
  /\ strayed \in BOOLEAN

Shape == (\E F \in SUBSET flight : Refetch(F)) /\ NetAnswered /\ RestType'

LEMMA SetScanningShape ==
  ASSUME NetTypeOK, NEW n \in Nodes \cup {NoNode}, NEW F, SetScanning(n, F)
  PROVE  Refetch(F) /\ scanning' = n
BY DEF SetScanning, Refetch, NetTypeOK

LEMMA StepShape == ASSUME NetTypeOK, NetNext PROVE Shape
<1>0. RestType /\ flight \subseteq [panel : Panels, seq : Nat, of : Nodes]
  BY DEF NetTypeOK, RestType
<1>1. ASSUME NEW n \in Nodes, SelectNode(n) PROVE Shape
  BY <1>0, <1>1 DEF SelectNode, Shape, Refetch, NetAnswered, RestType
<1>2. ASSUME NEW n \in Nodes, TriggerAnswered(n) PROVE Shape
  <2>1. CASE UNCHANGED <<latest, flight, scanning>>
    BY <1>0, <1>2, <2>1 DEF TriggerAnswered, Shape, Refetch, NoFetch, NetAnswered, RestType
  <2>2. CASE SetScanning(NoNode, flight)
    <3>1. Refetch(flight) /\ scanning' = NoNode
      BY <2>2, SetScanningShape
    <3> QED
      BY <1>0, <1>2, <3>1 DEF TriggerAnswered, Shape, NetAnswered, RestType
  <2> QED
    BY <1>2, <2>1, <2>2 DEF TriggerAnswered
<1>3. ASSUME NEW n \in Nodes, BaselineChanged(n) PROVE Shape
  <2>1. Refetch(flight)
    BY <1>3 DEF BaselineChanged, Refetch, NoFetch
  <2>2. strayed' \in BOOLEAN
    BY <1>0, <1>3 DEF BaselineChanged, RestType
  <2> QED
    BY <1>0, <1>3, <2>1, <2>2 DEF BaselineChanged, Shape, NetAnswered, RestType
<1>4. ASSUME Tick PROVE Shape
  <2>1. selected \in Nodes
    BY <1>0, <1>4 DEF Tick, RestType
  <2> QED
    BY <1>0, <1>4, <2>1 DEF Tick, Shape, Refetch, NetAnswered, RestType
<1>5. ASSUME TriggerScan PROVE Shape
  <2>1. selected \in Nodes
    BY <1>0, <1>5 DEF TriggerScan, RestType
  <2>2. Refetch(flight) /\ scanning' = selected
    BY <1>5, <2>1, SetScanningShape DEF TriggerScan
  <2> QED
    BY <1>0, <1>5, <2>1, <2>2 DEF TriggerScan, Shape, NetAnswered, RestType
<1>6. ASSUME ChangeBaseline PROVE Shape
  BY <1>0, <1>6 DEF ChangeBaseline, Shape, Refetch, NoFetch, NetAnswered, RestType
<1>7. ASSUME NEW r \in flight, ScansAnswered(r) PROVE Shape
  <2>1. NetAnswered
    BY <1>7 DEF ScansAnswered, NetAnswered
  <2>2. Refetch(flight \ {r}) /\ scanning' \in Nodes \cup {NoNode}
    BY <1>0, <1>7, SetScanningShape DEF ScansAnswered, Refetch, RestType
  <2> QED
    BY <1>0, <1>7, <2>1, <2>2 DEF ScansAnswered, Shape, RestType
<1>8. ASSUME NEW r \in flight, ListAnswered(r) PROVE Shape
  BY <1>0, <1>8 DEF ListAnswered, Shape, Refetch, NetAnswered, RestType
<1>9. ASSUME NEW r \in flight, Overtaken(r) PROVE Shape
  BY <1>0, <1>9 DEF Overtaken, Shape, Refetch, NetAnswered, RestType
<1> QED
  BY <1>1, <1>2, <1>3, <1>4, <1>5, <1>6, <1>7, <1>8, <1>9 DEF NetNext

LEMMA NetInvNext == NetInv /\ [NetNext]_netVars => NetInv' /\ [LV!Next]_<<latest, view>>
<1> SUFFICES ASSUME NetInv, [NetNext]_netVars
             PROVE  NetInv' /\ [LV!Next]_<<latest, view>>
  OBVIOUS
<1>1. CASE UNCHANGED netVars
  BY <1>1 DEF netVars, NetInv, NetTypeOK, FlightInv
<1>2. CASE NetNext
  <2>1. Shape
    BY <1>2, StepShape DEF NetInv
  <2>2. PICK F \in SUBSET flight : Refetch(F)
    BY <2>1 DEF Shape
  <2>3. /\ latest' \in [Panels -> Marks]
        /\ flight' \subseteq [panel : Panels, seq : Nat, of : Nodes]
        /\ FlightInv'
        /\ \E P \in SUBSET Panels : LV!Asks(P)
    BY <2>2, RequestEffect
  <2>4. view' \in [Panels -> Marks] /\ \E P \in SUBSET Panels : LV!Shows(P)
    BY <2>1, AnswerEffect DEF Shape
  <2>5. NetInv'
    BY <2>1, <2>3, <2>4 DEF Shape, RestType, NetInv, NetTypeOK
  <2>6. LV!Next
    BY <2>3, <2>4 DEF LV!Next
  <2> QED
    BY <2>5, <2>6
<1> QED
  BY <1>1, <1>2

-----------------------------------------------------------------------------
(* The theorems.                                                            *)

\* The store of the network page is only ever in states that its types know.
THEOREM NetTypeCorrect == NetSpec => []NetTypeOK
<1>1. NetInv => NetTypeOK
  BY DEF NetInv
<1> QED
  BY <1>1, NetInvInit, NetInvNext, PTL DEF NetSpec

\* The page implements LatestView: for any nodes and however many requests overlap,
\* a panel changes only to the answer of its latest request, or to nothing.
THEOREM PanelsShowLatest == NetSpec => ShowsLatestOnly
<1>1. NetInit => LV!Init
  BY DEF NetInit, LV!Init
<1> QED
  BY <1>1, NetInvInit, NetInvNext, PTL DEF NetSpec, ShowsLatestOnly, LV!Spec
-----------------------------------------------------------------------------
(* NetworkView, for any nodes and panels: when nothing is out, the panels   *)
(* show the selected node.                                                  *)

LatestIsSelected == \A p \in Panels : latest[p].of = selected

\* The latest request of a panel is out, or its answer is what the panel shows.
AskedOrShown ==
  \A p \in Panels : \/ \E r \in flight : r.panel = p /\ r.seq = latest[p].seq
                    \/ view[p].seq = latest[p].seq /\ view[p].of \in {latest[p].of, NoNode}

QuietInv == NetInv /\ AskedOrShown /\ (~strayed => LatestIsSelected)

LEMMA QuietInvInit == NetInit => QuietInv
<1> SUFFICES ASSUME NetInit PROVE QuietInv
  OBVIOUS
<1>1. AskedOrShown /\ LatestIsSelected
  BY DEF NetInit, AskedOrShown, LatestIsSelected
<1> QED
  BY <1>1, NetInvInit DEF QuietInv

\* What becomes of the requests that are out: none is answered, one is that is
\* the latest and is shown, or one is that has been overtaken.
TakenIn(F) ==
  \/ F = flight /\ UNCHANGED view
  \/ \E r \in flight : F = flight \ {r} /\ IsLatest(r) /\ Take(r)
  \/ \E r \in flight : F = flight \ {r} /\ ~IsLatest(r) /\ UNCHANGED view

LEMMA AskedOrShownKept ==
  ASSUME QuietInv, NEW F, Refetch(F), TakenIn(F) PROVE AskedOrShown'
<1>0. NetTypeOK /\ FlightInv /\ AskedOrShown
  BY DEF QuietInv, NetInv
<1> SUFFICES ASSUME NEW p \in Panels
             PROVE  \/ \E r \in flight' : r.panel = p /\ r.seq = latest'[p].seq
                    \/ view'[p].seq = latest'[p].seq /\ view'[p].of \in {latest'[p].of, NoNode}
  BY DEF AskedOrShown
<1>1. ASSUME latest'[p] = latest[p], F \subseteq flight'
      PROVE  \/ \E r \in flight' : r.panel = p /\ r.seq = latest'[p].seq
             \/ view'[p].seq = latest'[p].seq /\ view'[p].of \in {latest'[p].of, NoNode}
  <2>1. CASE F = flight /\ UNCHANGED view
    BY <1>0, <1>1, <2>1 DEF AskedOrShown
  <2>2. ASSUME NEW r \in flight, F = flight \ {r}, IsLatest(r), Take(r)
        PROVE  \/ \E q \in flight' : q.panel = p /\ q.seq = latest'[p].seq
               \/ view'[p].seq = latest'[p].seq /\ view'[p].of \in {latest'[p].of, NoNode}
    <3>1. PICK of \in {r.of, NoNode} : view' = [view EXCEPT ![r.panel] = [seq |-> r.seq, of |-> of]]
      BY <2>2 DEF Take
    <3>2. r.panel \in Panels /\ r.seq = latest[r.panel].seq /\ r.of = latest[r.panel].of
      BY <1>0, <2>2 DEF NetTypeOK, FlightInv, IsLatest
    <3>3. CASE r.panel = p
      <4>1. view'[p] = [seq |-> r.seq, of |-> of]
        BY <1>0, <3>1, <3>3 DEF NetTypeOK
      <4> QED
        BY <1>1, <3>2, <3>3, <4>1
    <3>4. CASE r.panel # p
      <4>1. view'[p] = view[p]
        BY <1>0, <3>1, <3>4 DEF NetTypeOK
      <4> QED
        BY <1>0, <1>1, <2>2, <3>4, <4>1 DEF AskedOrShown
    <3> QED
      BY <3>3, <3>4
  <2>3. ASSUME NEW r \in flight, F = flight \ {r}, ~IsLatest(r), UNCHANGED view
        PROVE  \/ \E q \in flight' : q.panel = p /\ q.seq = latest'[p].seq
               \/ view'[p].seq = latest'[p].seq /\ view'[p].of \in {latest'[p].of, NoNode}
    BY <1>0, <1>1, <2>3 DEF AskedOrShown, IsLatest
  <2> QED
    BY <2>1, <2>2, <2>3 DEF TakenIn
<1>2. CASE NoFetch(F)
  BY <1>1, <1>2 DEF NoFetch
<1>3. ASSUME NEW P, NEW n \in Nodes, Fetch(P, n, F)
      PROVE  \/ \E r \in flight' : r.panel = p /\ r.seq = latest'[p].seq
             \/ view'[p].seq = latest'[p].seq /\ view'[p].of \in {latest'[p].of, NoNode}
  <2>1. latest' = [q \in Panels |-> IF q \in P THEN [seq |-> latest[q].seq + 1, of |-> n]
                                    ELSE latest[q]]
    BY <1>3 DEF Fetch
  <2>2. flight' = F \cup {[panel |-> q, seq |-> latest[q].seq + 1, of |-> n] : q \in P \cap Panels}
    BY <1>3 DEF Fetch
  <2>3. CASE p \in P
    <3>1. [panel |-> p, seq |-> latest[p].seq + 1, of |-> n] \in flight'
      BY <2>2, <2>3
    <3>2. latest'[p].seq = latest[p].seq + 1
      BY <2>1, <2>3
    <3> QED
      BY <3>1, <3>2
  <2>4. CASE p \notin P
    BY <1>1, <2>1, <2>2, <2>4
  <2> QED
    BY <2>3, <2>4
<1> QED
  BY <1>2, <1>3 DEF Refetch

LEMMA EveryStepTakesIn == ASSUME NetTypeOK, NetNext PROVE \E F : Refetch(F) /\ TakenIn(F)
<1>1. ASSUME NEW n \in Nodes, SelectNode(n) PROVE Refetch(flight) /\ TakenIn(flight)
  BY <1>1 DEF SelectNode, Refetch, TakenIn
<1>2. ASSUME NEW n \in Nodes, TriggerAnswered(n) PROVE Refetch(flight) /\ TakenIn(flight)
  <2>1. UNCHANGED view
    BY <1>2 DEF TriggerAnswered
  <2>2. CASE UNCHANGED <<latest, flight, scanning>>
    BY <2>1, <2>2 DEF Refetch, NoFetch, TakenIn
  <2>3. CASE SetScanning(NoNode, flight)
    BY <2>1, <2>3, SetScanningShape DEF TakenIn
  <2> QED
    BY <1>2, <2>2, <2>3 DEF TriggerAnswered
<1>3. ASSUME NEW n \in Nodes, BaselineChanged(n) PROVE Refetch(flight) /\ TakenIn(flight)
  BY <1>3 DEF BaselineChanged, Refetch, NoFetch, TakenIn
<1>4. ASSUME Tick PROVE Refetch(flight) /\ TakenIn(flight)
  BY <1>4 DEF Tick, NetTypeOK, Refetch, TakenIn
<1>5. ASSUME TriggerScan PROVE Refetch(flight) /\ TakenIn(flight)
  <2>1. selected \in Nodes /\ SetScanning(selected, flight) /\ UNCHANGED view
    BY <1>5 DEF TriggerScan, NetTypeOK
  <2> QED
    BY <2>1, SetScanningShape DEF TakenIn
<1>6. ASSUME ChangeBaseline PROVE Refetch(flight) /\ TakenIn(flight)
  BY <1>6 DEF ChangeBaseline, Refetch, NoFetch, TakenIn
<1>7. ASSUME NEW r \in flight, ScansAnswered(r) PROVE Refetch(flight \ {r}) /\ TakenIn(flight \ {r})
  <2>1. TakenIn(flight \ {r})
    BY <1>7 DEF ScansAnswered, TakenIn
  <2>2. CASE SetScanning(NoNode, flight \ {r})
    BY <2>1, <2>2, SetScanningShape
  <2>3. CASE NoFetch(flight \ {r})
    BY <2>1, <2>3 DEF Refetch
  <2> QED
    BY <1>7, <2>2, <2>3 DEF ScansAnswered
<1>8. ASSUME NEW r \in flight, ListAnswered(r) PROVE Refetch(flight \ {r}) /\ TakenIn(flight \ {r})
  BY <1>8 DEF ListAnswered, Refetch, TakenIn
<1>9. ASSUME NEW r \in flight, Overtaken(r) PROVE Refetch(flight \ {r}) /\ TakenIn(flight \ {r})
  BY <1>9 DEF Overtaken, Refetch, TakenIn
<1> QED
  BY <1>1, <1>2, <1>3, <1>4, <1>5, <1>6, <1>7, <1>8, <1>9 DEF NetNext

\* Requests are for the selected node, apart from those after a baseline's change.
LEMMA SelectedKept ==
  ASSUME NetTypeOK, LatestIsSelected, NEW F, selected' = selected,
         NoFetch(F) \/ \E P : Fetch(P, selected, F)
  PROVE  LatestIsSelected'
<1>1. CASE NoFetch(F)
  BY <1>1 DEF NoFetch, LatestIsSelected
<1>2. ASSUME NEW P, Fetch(P, selected, F) PROVE LatestIsSelected'
  <2>1. latest' = [p \in Panels |-> IF p \in P THEN [seq |-> latest[p].seq + 1, of |-> selected]
                                    ELSE latest[p]]
    BY <1>2 DEF Fetch
  <2> QED
    BY <2>1 DEF LatestIsSelected
<1> QED
  BY <1>1, <1>2

LEMMA LatestIsSelectedKept ==
  ASSUME QuietInv, NetNext, ~strayed' PROVE LatestIsSelected'
<1>0. NetTypeOK
  BY DEF QuietInv, NetInv
<1>1. ~strayed
  BY <1>0 DEF NetNext, SelectNode, TriggerAnswered, BaselineChanged, Tick, TriggerScan, ChangeBaseline,
              ScansAnswered, ListAnswered, Overtaken
<1>2. LatestIsSelected
  BY <1>1 DEF QuietInv
<1>3. ASSUME NEW n, NEW F, SetScanning(n, F) PROVE NoFetch(F) \/ \E P : Fetch(P, selected, F)
  BY <1>3 DEF SetScanning
<1>4. ASSUME NEW n \in Nodes, SelectNode(n) PROVE LatestIsSelected'
  <2>1. /\ selected' = n
        /\ latest' = [p \in Panels |-> IF p \in AllPanels THEN [seq |-> latest[p].seq + 1, of |-> n]
                                       ELSE latest[p]]
    BY <1>4 DEF SelectNode, Fetch
  <2> QED
    BY <2>1, NetPanelsAssumption DEF LatestIsSelected
<1>5. ASSUME NEW n \in Nodes, TriggerAnswered(n) PROVE LatestIsSelected'
  <2>1. selected' = selected
    BY <1>5 DEF TriggerAnswered
  <2>2. CASE UNCHANGED <<latest, flight, scanning>>
    BY <1>2, <2>1, <2>2 DEF LatestIsSelected
  <2>3. CASE SetScanning(NoNode, flight)
    BY <1>0, <1>2, <1>3, <2>1, <2>3, SelectedKept
  <2> QED
    BY <1>5, <2>2, <2>3 DEF TriggerAnswered
<1>6. ASSUME NEW n \in Nodes, BaselineChanged(n) PROVE LatestIsSelected'
  <2>1. selected' = selected
    BY <1>6 DEF BaselineChanged
  <2>2. CASE UNCHANGED <<latest, flight, strayed>>
    BY <1>2, <2>1, <2>2 DEF LatestIsSelected
  <2>3. CASE Fetch({"baselines"}, n, flight) /\ strayed' = (strayed \/ n # selected)
    <3>1. n = selected
      BY <2>3, Zenon
    <3> QED
      BY <1>0, <1>2, <2>1, <2>3, <3>1, SelectedKept
  <2> QED
    BY <1>6, <2>2, <2>3 DEF BaselineChanged
<1>7. ASSUME Tick PROVE LatestIsSelected'
  BY <1>0, <1>2, <1>7, SelectedKept DEF Tick
<1>8. ASSUME TriggerScan PROVE LatestIsSelected'
  <2>1. selected' = selected /\ SetScanning(selected, flight)
    BY <1>8 DEF TriggerScan
  <2> QED
    BY <1>0, <1>2, <1>3, <2>1, SelectedKept
<1>9. ASSUME ChangeBaseline PROVE LatestIsSelected'
  BY <1>2, <1>9 DEF ChangeBaseline, LatestIsSelected
<1>10. ASSUME NEW r \in flight, ScansAnswered(r) PROVE LatestIsSelected'
  <2>1. selected' = selected /\ (SetScanning(NoNode, flight \ {r}) \/ NoFetch(flight \ {r}))
    BY <1>10 DEF ScansAnswered
  <2> QED
    BY <1>0, <1>2, <1>3, <2>1, SelectedKept
<1>11. ASSUME NEW r \in flight, ListAnswered(r) \/ Overtaken(r) PROVE LatestIsSelected'
  BY <1>2, <1>11 DEF ListAnswered, Overtaken, NoFetch, LatestIsSelected
<1> QED
  BY <1>4, <1>5, <1>6, <1>7, <1>8, <1>9, <1>10, <1>11 DEF NetNext

LEMMA QuietInvNext == QuietInv /\ [NetNext]_netVars => QuietInv'
<1> SUFFICES ASSUME QuietInv, [NetNext]_netVars PROVE QuietInv'
  OBVIOUS
<1>1. NetInv'
  BY NetInvNext DEF QuietInv
<1>2. CASE UNCHANGED netVars
  BY <1>1, <1>2 DEF netVars, QuietInv, AskedOrShown, LatestIsSelected
<1>3. CASE NetNext
  <2>1. AskedOrShown'
    BY <1>3, EveryStepTakesIn, AskedOrShownKept DEF QuietInv, NetInv
  <2> QED
    BY <1>1, <1>3, <2>1, LatestIsSelectedKept DEF QuietInv
<1> QED
  BY <1>2, <1>3

LEMMA QuietFromInv == QuietInv => QuietPanelsAreSelected
BY DEF QuietInv, QuietPanelsAreSelected, AskedOrShown, LatestIsSelected

(***************************************************************************)
(* Proofs about CockpitFiles, for any VMs and paths and any number of      *)
(* keystrokes and saves: no file gets the text of another.                 *)
(***************************************************************************)
-----------------------------------------------------------------------------
(* The inductive invariant.                                                 *)

TabInv == tab => vm # Nil

\* No text is newer than the last keystroke.
RevInv == /\ content # Nil => content.rev <= strokes
          /\ original # Nil => original.rev <= strokes
          /\ edit # Nil => edit.rev <= strokes
          /\ save # Nil => save.text.rev <= strokes
          /\ \A f \in Files : remote[f].rev <= strokes

\* Every file has a text of its own.
RemoteKept == \A f \in Files : remote[f].of = f

\* A file is read for the path that is open, in the VM of the cockpit.
ReadKept == read # Nil => path # Nil /\ read = <<vm, path>>

\* Once it is read, the store and the tab have its text.
EditorKept ==
  path # Nil /\ read = Nil =>
    /\ content # Nil /\ content.of = <<vm, path>>
    /\ original # Nil /\ original.of = <<vm, path>>
    /\ tab => edit # Nil /\ edit.of = <<vm, path>> /\ edit.rev >= original.rev
    /\ ~tab => original = content

\* A save is of the file that is open, and the text has only become newer since.
SaveKept ==
  save # Nil => /\ tab /\ path # Nil /\ read = Nil
                /\ save.to = <<vm, path>> /\ save.text.of = save.to
                /\ save.text.rev <= edit.rev

Kept == RemoteKept /\ ReadKept /\ EditorKept /\ SaveKept

FilesInv == FilesTypeOK /\ TabInv /\ RevInv /\ (~mixed => Kept)

LEMMA NilFacts == /\ Nil \notin VMs /\ Nil \notin Paths /\ Nil \notin Files /\ Nil \notin Texts
                  /\ Nil \notin [to : Files, text : Texts]
BY FilesNilAssumption

LEMMA FilesInvInit == FilesInit => FilesInv
<1> SUFFICES ASSUME FilesInit PROVE FilesInv
  OBVIOUS
<1>1. 0 \in 0 .. MaxRev
  BY FilesBoundAssumption
<1>2. remote \in [Files -> Texts]
  BY <1>1 DEF FilesInit, Texts
<1>3. FilesTypeOK
  BY <1>1, <1>2 DEF FilesInit, FilesTypeOK
<1>4. TabInv /\ RevInv /\ Kept
  BY DEF FilesInit, TabInv, RevInv, Kept, RemoteKept, ReadKept, EditorKept, SaveKept
<1> QED
  BY <1>3, <1>4 DEF FilesInv

-----------------------------------------------------------------------------
(* The invariant holds after every step.                                    *)

\* What FilesTypeOK says of the texts, for the steps that compare them.
LEMMA TextTypes ==
  ASSUME FilesTypeOK
  PROVE  /\ content # Nil => content \in Texts /\ content.rev \in Nat
         /\ original # Nil => original \in Texts /\ original.rev \in Nat
         /\ edit # Nil => edit \in Texts /\ edit.rev \in Nat
         /\ save # Nil => save.to \in Files /\ save.text \in Texts /\ save.text.rev \in Nat
         /\ \A f \in Files : remote[f] \in Texts /\ remote[f].rev \in Nat
         /\ strokes \in Nat
BY FilesBoundAssumption DEF FilesTypeOK, Texts

LEMMA LeaveKeeps == ASSUME FilesInv, NEW v \in VMs, Leave(v) PROVE FilesInv'
<1>1. FilesTypeOK'
  BY DEF FilesInv, FilesTypeOK, Leave
<1>2. TabInv' /\ RevInv'
  BY DEF FilesInv, TabInv, RevInv, Leave
<1>3. ASSUME ~mixed' PROVE Kept'
  <2>1. ~mixed /\ (path = Nil \/ (v = vm /\ original = content /\ save = Nil))
    BY <1>3 DEF Leave, FilesInv, FilesTypeOK
  <2>2. Kept
    BY <2>1 DEF FilesInv
  <2>3. RemoteKept' /\ ReadKept' /\ EditorKept' /\ SaveKept'
    BY <2>1, <2>2 DEF Leave, Kept, RemoteKept, ReadKept, EditorKept, SaveKept
  <2> QED
    BY <2>3 DEF Kept
<1> QED
  BY <1>1, <1>2, <1>3 DEF FilesInv

LEMMA ShowTabKeeps == ASSUME FilesInv, ShowTab PROVE FilesInv'
<1>0. /\ vm # Nil /\ ~tab /\ tab' = TRUE /\ edit' = content
      /\ UNCHANGED <<vm, path, content, original, read, save, remote, strokes, mixed>>
  BY DEF ShowTab
<1>1. FilesTypeOK'
  BY <1>0 DEF FilesInv, FilesTypeOK
<1>2. TabInv' /\ RevInv'
  BY <1>0 DEF FilesInv, TabInv, RevInv
<1>3. ASSUME ~mixed' PROVE Kept'
  <2>1. Kept
    BY <1>0, <1>3 DEF FilesInv
  <2>2. original # Nil => original.rev \in Nat
    BY TextTypes DEF FilesInv
  <2>3. RemoteKept' /\ ReadKept' /\ EditorKept' /\ SaveKept'
    BY <1>0, <2>1, <2>2 DEF Kept, RemoteKept, ReadKept, EditorKept, SaveKept
  <2> QED
    BY <2>3 DEF Kept
<1> QED
  BY <1>1, <1>2, <1>3 DEF FilesInv

LEMMA OpenFileKeeps == ASSUME FilesInv, NEW p \in Paths, OpenFile(p) PROVE FilesInv'
<1>0. /\ tab /\ path = Nil /\ path' = p /\ read' = <<vm, p>>
      /\ UNCHANGED <<vm, tab, content, original, edit, save, remote, strokes, mixed>>
  BY DEF OpenFile
<1>1. vm \in VMs /\ read' \in Files /\ read' # Nil
  BY <1>0, NilFacts DEF FilesInv, TabInv, FilesTypeOK, Files
<1>2. FilesTypeOK'
  BY <1>0, <1>1 DEF FilesInv, FilesTypeOK
<1>3. TabInv' /\ RevInv'
  BY <1>0 DEF FilesInv, TabInv, RevInv
<1>4. ASSUME ~mixed' PROVE Kept'
  <2>1. Kept
    BY <1>0, <1>4 DEF FilesInv
  <2>2. save = Nil
    BY <1>0, <2>1 DEF Kept, SaveKept
  <2>3. RemoteKept' /\ ReadKept' /\ EditorKept' /\ SaveKept'
    BY <1>0, <1>1, <2>1, <2>2, NilFacts DEF Kept, RemoteKept, ReadKept, EditorKept, SaveKept
  <2> QED
    BY <2>3 DEF Kept
<1> QED
  BY <1>2, <1>3, <1>4 DEF FilesInv

LEMMA FileReadKeeps == ASSUME FilesInv, FileRead PROVE FilesInv'
<1>0. /\ read # Nil /\ read' = Nil
      /\ content' = remote[read] /\ original' = remote[read]
      /\ edit' = IF tab THEN remote[read] ELSE edit
      /\ UNCHANGED <<vm, tab, path, save, remote, strokes, mixed>>
  BY DEF FileRead
<1>1. read \in Files /\ remote[read] \in Texts /\ remote[read] # Nil /\ remote[read].rev \in Nat
  BY <1>0, TextTypes, NilFacts DEF FilesInv, FilesTypeOK
<1>2. FilesTypeOK'
  BY <1>0, <1>1 DEF FilesInv, FilesTypeOK
<1>3. TabInv' /\ RevInv'
  BY <1>0, <1>1 DEF FilesInv, TabInv, RevInv
<1>4. ASSUME ~mixed' PROVE Kept'
  <2>1. Kept
    BY <1>0, <1>4 DEF FilesInv
  <2>2. save = Nil /\ read = <<vm, path>> /\ remote[read].of = read
    BY <1>0, <1>1, <2>1 DEF Kept, SaveKept, ReadKept, RemoteKept
  <2>3. RemoteKept' /\ ReadKept' /\ SaveKept'
    BY <1>0, <2>1, <2>2 DEF Kept, RemoteKept, ReadKept, SaveKept
  <2>4. EditorKept'
    BY <1>0, <1>1, <2>2 DEF EditorKept
  <2> QED
    BY <2>3, <2>4 DEF Kept
<1> QED
  BY <1>2, <1>3, <1>4 DEF FilesInv

LEMMA ReadFailedKeeps == ASSUME FilesInv, ReadFailed PROVE FilesInv'
<1>0. /\ read # Nil /\ read' = Nil /\ path' = Nil
      /\ UNCHANGED <<vm, tab, content, original, edit, save, remote, strokes, mixed>>
  BY DEF ReadFailed
<1>1. FilesTypeOK'
  BY <1>0 DEF FilesInv, FilesTypeOK
<1>2. TabInv' /\ RevInv'
  BY <1>0 DEF FilesInv, TabInv, RevInv
<1>3. ASSUME ~mixed' PROVE Kept'
  <2>1. Kept
    BY <1>0, <1>3 DEF FilesInv
  <2>2. save = Nil
    BY <1>0, <2>1 DEF Kept, SaveKept
  <2>3. RemoteKept' /\ ReadKept' /\ EditorKept' /\ SaveKept'
    BY <1>0, <2>1, <2>2 DEF Kept, RemoteKept, ReadKept, EditorKept, SaveKept
  <2> QED
    BY <2>3 DEF Kept
<1> QED
  BY <1>1, <1>2, <1>3 DEF FilesInv

LEMMA CloseFileKeeps == ASSUME FilesInv, CloseFile PROVE FilesInv'
<1>0. /\ tab /\ path # Nil /\ read = Nil
      /\ path' = Nil /\ content' = Nil /\ original' = Nil
      /\ mixed' = (mixed \/ save # Nil)
      /\ UNCHANGED <<vm, tab, edit, read, save, remote, strokes>>
  BY DEF CloseFile, Editing
<1>1. FilesTypeOK'
  BY <1>0 DEF FilesInv, FilesTypeOK
<1>2. TabInv' /\ RevInv'
  BY <1>0 DEF FilesInv, TabInv, RevInv
<1>3. ASSUME ~mixed' PROVE Kept'
  <2>1. ~mixed /\ save = Nil
    BY <1>0, <1>3 DEF FilesInv, FilesTypeOK
  <2>2. Kept
    BY <2>1 DEF FilesInv
  <2>3. RemoteKept' /\ ReadKept' /\ EditorKept' /\ SaveKept'
    BY <1>0, <2>1, <2>2 DEF Kept, RemoteKept, ReadKept, EditorKept, SaveKept
  <2> QED
    BY <2>3 DEF Kept
<1> QED
  BY <1>1, <1>2, <1>3 DEF FilesInv

LEMMA TypeTextKeeps == ASSUME FilesInv, TypeText PROVE FilesInv'
<1>0. /\ tab /\ path # Nil /\ read = Nil /\ edit # Nil /\ strokes < MaxRev
      /\ strokes' = strokes + 1
      /\ edit' = [edit EXCEPT !.rev = strokes + 1]
      /\ UNCHANGED <<vm, tab, path, content, original, read, save, remote, mixed>>
  BY DEF TypeText, Editing
<1>1. edit \in Texts /\ strokes \in Nat /\ strokes + 1 \in 0 .. MaxRev
  BY <1>0, TextTypes, FilesBoundAssumption DEF FilesInv
<1>2. /\ edit' \in Texts /\ edit'.of = edit.of /\ edit'.rev = strokes + 1
      /\ edit' # Nil
  BY <1>0, <1>1, NilFacts DEF Texts
<1>3. FilesTypeOK'
  BY <1>0, <1>1, <1>2 DEF FilesInv, FilesTypeOK
<1>4. TabInv'
  BY <1>0 DEF FilesInv, TabInv
<1>5. RevInv'
  BY <1>0, <1>1, <1>2, TextTypes DEF FilesInv, RevInv
<1>6. ASSUME ~mixed' PROVE Kept'
  <2>1. Kept
    BY <1>0, <1>6 DEF FilesInv
  <2>2. RemoteKept' /\ ReadKept'
    BY <1>0, <2>1 DEF Kept, RemoteKept, ReadKept
  <2>3. EditorKept'
    BY <1>0, <1>1, <1>2, <2>1, TextTypes DEF Kept, EditorKept, FilesInv, RevInv
  <2>4. SaveKept'
    BY <1>0, <1>1, <1>2, <2>1, TextTypes DEF Kept, SaveKept, FilesInv, RevInv
  <2> QED
    BY <2>2, <2>3, <2>4 DEF Kept
<1> QED
  BY <1>3, <1>4, <1>5, <1>6 DEF FilesInv

LEMMA DiscardKeeps == ASSUME FilesInv, Discard PROVE FilesInv'
<1>0. /\ tab /\ path # Nil /\ read = Nil /\ original # Nil /\ edit' = original
      /\ mixed' = (mixed \/ save # Nil)
      /\ UNCHANGED <<vm, tab, path, content, original, read, save, remote, strokes>>
  BY DEF Discard, Editing
<1>1. FilesTypeOK'
  BY <1>0 DEF FilesInv, FilesTypeOK
<1>2. TabInv' /\ RevInv'
  BY <1>0 DEF FilesInv, TabInv, RevInv
<1>3. ASSUME ~mixed' PROVE Kept'
  <2>1. ~mixed /\ save = Nil
    BY <1>0, <1>3 DEF FilesInv, FilesTypeOK
  <2>2. Kept /\ original.rev \in Nat
    BY <1>0, <2>1, TextTypes DEF FilesInv
  <2>3. RemoteKept' /\ ReadKept' /\ EditorKept' /\ SaveKept'
    BY <1>0, <2>1, <2>2 DEF Kept, RemoteKept, ReadKept, EditorKept, SaveKept
  <2> QED
    BY <2>3 DEF Kept
<1> QED
  BY <1>1, <1>2, <1>3 DEF FilesInv

LEMMA SaveFileKeeps == ASSUME FilesInv, SaveFile PROVE FilesInv'
<1>0. /\ tab /\ path # Nil /\ read = Nil /\ edit # Nil /\ save = Nil
      /\ save' = [to |-> <<vm, path>>, text |-> edit]
      /\ UNCHANGED <<vm, tab, path, content, original, edit, read, remote, strokes, mixed>>
  BY DEF SaveFile, Editing
<1>1. <<vm, path>> \in Files /\ edit \in Texts /\ edit.rev \in Nat
  BY <1>0, TextTypes DEF FilesInv, TabInv, FilesTypeOK, Files
<1>2. FilesTypeOK'
  BY <1>0, <1>1 DEF FilesInv, FilesTypeOK
<1>3. TabInv' /\ RevInv'
  BY <1>0 DEF FilesInv, TabInv, RevInv
<1>4. ASSUME ~mixed' PROVE Kept'
  <2>1. Kept
    BY <1>0, <1>4 DEF FilesInv
  <2>2. RemoteKept' /\ ReadKept' /\ EditorKept'
    BY <1>0, <2>1 DEF Kept, RemoteKept, ReadKept, EditorKept
  <2>3. SaveKept'
    BY <1>0, <1>1, <2>1 DEF Kept, EditorKept, SaveKept
  <2> QED
    BY <2>2, <2>3 DEF Kept
<1> QED
  BY <1>2, <1>3, <1>4 DEF FilesInv

\* The answer of a save, which stores the text or not and is taken as original or not.
LEMMA SaveEndsKeeps == ASSUME FilesInv, Saved \/ SaveFailed PROVE FilesInv'
<1>0. /\ save # Nil /\ save' = Nil
      /\ remote' \in {remote, [remote EXCEPT ![save.to] = save.text]}
      /\ original' \in {original, save.text}
      /\ UNCHANGED <<vm, tab, path, content, edit, read, strokes, mixed>>
  BY DEF Saved, SaveFailed
<1>1. /\ save.to \in Files /\ save.text \in Texts /\ save.text # Nil
      /\ save.text.rev \in Nat /\ remote \in [Files -> Texts]
  BY <1>0, TextTypes, NilFacts DEF FilesInv, FilesTypeOK
<1>2. remote' \in [Files -> Texts]
  BY <1>0, <1>1
<1>3. \A f \in Files : remote'[f] = remote[f] \/ (f = save.to /\ remote'[f] = save.text)
  BY <1>0, <1>1
<1>4. FilesTypeOK'
  BY <1>0, <1>1, <1>2 DEF FilesInv, FilesTypeOK
<1>5. TabInv' /\ RevInv'
  BY <1>0, <1>1, <1>3 DEF FilesInv, TabInv, RevInv
<1>6. ASSUME ~mixed' PROVE Kept'
  <2>1. Kept
    BY <1>0, <1>6 DEF FilesInv
  <2>2. /\ tab /\ path # Nil /\ read = Nil /\ save.to = <<vm, path>>
        /\ save.text.of = save.to /\ save.text.rev <= edit.rev
    BY <1>0, <2>1 DEF Kept, SaveKept
  <2>3. RemoteKept'
    BY <1>3, <2>1, <2>2 DEF Kept, RemoteKept
  <2>4. ReadKept' /\ SaveKept'
    BY <1>0, <2>2 DEF ReadKept, SaveKept
  <2>5. EditorKept'
    BY <1>0, <1>1, <2>1, <2>2, TextTypes DEF Kept, EditorKept, FilesInv
  <2> QED
    BY <2>3, <2>4, <2>5 DEF Kept
<1> QED
  BY <1>4, <1>5, <1>6 DEF FilesInv

LEMMA FilesInvNext == FilesInv /\ [FilesNext]_filesVars => FilesInv'
<1> SUFFICES ASSUME FilesInv, [FilesNext]_filesVars PROVE FilesInv'
  OBVIOUS
<1>1. CASE UNCHANGED filesVars
  BY <1>1 DEF filesVars, FilesInv, FilesTypeOK, TabInv, RevInv, Kept, RemoteKept, ReadKept,
              EditorKept, SaveKept
<1>2. ASSUME NEW v \in VMs, SetVM(v) PROVE FilesInv'
  BY <1>2, LeaveKeeps DEF SetVM
<1>3. CASE LeaveTab
  <2>1. vm \in VMs
    BY <1>3 DEF LeaveTab, FilesInv, TabInv, FilesTypeOK
  <2> QED
    BY <1>3, <2>1, LeaveKeeps DEF LeaveTab
<1> QED
  BY <1>1, <1>2, <1>3, ShowTabKeeps, OpenFileKeeps, FileReadKeeps, ReadFailedKeeps,
     CloseFileKeeps, TypeTextKeeps, DiscardKeeps, SaveFileKeeps, SaveEndsKeeps DEF FilesNext

LEMMA FilesInvariance == FilesSpec => []FilesInv
BY FilesInvInit, FilesInvNext, PTL DEF FilesSpec

-----------------------------------------------------------------------------
(* The theorems.                                                            *)

\* The store, the tab and the files are only ever in states that their types know.
THEOREM FilesTypeCorrect == FilesSpec => []FilesTypeOK
<1>1. FilesInv => FilesTypeOK
  BY DEF FilesInv
<1> QED
  BY <1>1, FilesInvariance, PTL

\* For any VMs and files and however often the user types, saves, closes and moves
\* on: the editor shows the text of its file, and no file gets another's text,
\* unless one of the cases that "mixed" records has happened.
THEOREM NoForeignText == FilesSpec => []EditorKeepsToItsFile
<1>1. FilesInv => EditorKeepsToItsFile
  BY DEF FilesInv, Kept, RemoteKept, EditorKept, SaveKept, EditorKeepsToItsFile, Editing
<1> QED
  BY <1>1, FilesInvariance, PTL
(***************************************************************************)
(* Proofs about LiveSocket, for any numbers of sockets, timers and         *)
(* renders: the hook has one socket, and it is never stranded.             *)
(***************************************************************************)
-----------------------------------------------------------------------------
(* The inductive invariant.                                                 *)

SocketRecords == [state : {"closed", "connecting", "open", "closing"}, closure : 0 .. MaxClosure]

\* A socket has the number of the closure that made it.
Numbered(sk) == \A s \in Sockets : sk[s].state # "closed" => sk[s].closure # 0

OnlyRef == \A s \in Sockets : Live(socket, s) => s = wsRef

\* While the hook is off it has no socket and makes none.
OffInv == mounted /\ ~enabled => ~connecting /\ \A s \in Sockets : ~Live(socket, s)

\* isConnectingRef blocks connect only while an event of a socket is to come.
GoingInv == connecting => \/ Live(socket, wsRef)
                          \/ \E s \in Sockets : socket[s].state = "closing"

\* Until a socket is made beside a closing one there is one socket or one timer,
\* and it belongs to the current closure whenever it matters.
OneAlive == \A s, q \in Sockets :
              socket[s].state # "closed" /\ socket[q].state # "closed" => s = q

TimerInv == \A t \in Timers :
              timer[t] # 0 => /\ t = timerRef /\ enabled
                              /\ \A s \in Sockets : socket[s].state = "closed"
                              /\ token /\ visible => timer[t] = closure

ClosureInv == \A s \in Sockets :
                socket[s].state # "closed"
                /\ (Live(socket, s) \/ connecting \/ (enabled /\ token /\ visible))
                => socket[s].closure = closure

ShownInv == \A s \in Sockets : socket[s].state = "open" => connected

Calm == OneAlive /\ TimerInv /\ ClosureInv /\ ShownInv

SocketInv ==
  /\ SocketTypeOK
  /\ Numbered(socket)
  /\ OnlyRef /\ OffInv /\ GoingInv /\ NeverStranded
  /\ mounted /\ ~displaced => Calm

LEMMA SocketInvInit == SocketInit => SocketInv
<1> SUFFICES ASSUME SocketInit PROVE SocketInv
  OBVIOUS
<1>1. 1 \in 1 .. MaxClosure /\ 0 \in 0 .. MaxClosure
  BY MaxClosureAssumption
<1>2. SocketTypeOK
  BY <1>1 DEF SocketInit, SocketTypeOK
<1>3. \A s \in Sockets : socket[s].state = "closed"
  BY DEF SocketInit
<1>4. Numbered(socket) /\ OnlyRef /\ OffInv /\ GoingInv /\ NeverStranded
  BY <1>3 DEF SocketInit, Numbered, OnlyRef, OffInv, GoingInv, NeverStranded, Live
<1>5. Calm
  BY <1>3 DEF SocketInit, Calm, OneAlive, TimerInv, ClosureInv, ShownInv
<1> QED
  BY <1>2, <1>4, <1>5 DEF SocketInv

-----------------------------------------------------------------------------
(* connect either makes a socket or does nothing.                           *)

Made(c) ==
  /\ enabled' /\ token' /\ visible'
  /\ connecting' = TRUE /\ wsRef' \in Sockets
  /\ socket' \in [Sockets -> SocketRecords]
  /\ socket'[wsRef'] = [state |-> "connecting", closure |-> c]
  /\ Numbered(socket')
  /\ \A q \in Sockets \ {wsRef'} : ~Live(socket', q)
  /\ displaced' \in BOOLEAN
  /\ ~displaced' => ~displaced /\ \A q \in Sockets \ {wsRef'} : socket'[q].state = "closed"

Skipped(ref, going, sk) ==
  /\ ~(enabled' /\ token' /\ visible') \/ going \/ Live(sk, ref)
  /\ wsRef' = ref /\ connecting' = going /\ socket' = sk /\ displaced' = displaced

LEMMA ConnectEffect ==
  ASSUME SocketTypeOK, NEW c \in 0 .. MaxClosure, c # 0, NEW ref, NEW going,
         NEW sk \in [Sockets -> SocketRecords], Numbered(sk),
         \A s \in Sockets : Live(sk, s) => s = ref,
         Connect(c, ref, going, sk)
  PROVE  Made(c) \/ Skipped(ref, going, sk)
<1>1. CASE MayConnect(ref, going, sk)
  <2>1. PICK s \in Sockets :
          /\ sk[s].state = "closed"
          /\ wsRef' = s /\ connecting' = TRUE
          /\ socket' = [sk EXCEPT ![s] = [state |-> "connecting", closure |-> c]]
          /\ displaced' = (displaced \/ \E q \in Sockets : sk[q].state = "closing")
    BY <1>1 DEF Connect
  <2>2. enabled' /\ token' /\ visible' /\ \A q \in Sockets : ~Live(sk, q)
    BY <1>1 DEF MayConnect
  <2>3. /\ socket' \in [Sockets -> SocketRecords]
        /\ socket'[s] = [state |-> "connecting", closure |-> c]
        /\ \A q \in Sockets \ {s} : socket'[q] = sk[q]
    BY <2>1 DEF SocketRecords
  <2>4. \A q \in Sockets \ {s} : ~Live(socket', q)
    BY <2>2, <2>3 DEF Live
  <2>5. \A q \in Sockets : sk[q].state \in {"closed", "closing"}
    <3> TAKE q \in Sockets
    <3>1. sk[q].state \in {"closed", "connecting", "open", "closing"}
      BY DEF SocketRecords
    <3>2. q # NoSocket
      BY NoSocketAssumption
    <3> QED
      BY <2>2, <3>1, <3>2 DEF Live
  <2>6. displaced' \in BOOLEAN /\ (~displaced' => ~displaced)
    BY <2>1 DEF SocketTypeOK
  <2>7. ~displaced' => \A q \in Sockets \ {s} : socket'[q].state = "closed"
    BY <2>1, <2>3, <2>5
  <2>8. Numbered(socket')
    BY <2>1, <2>3 DEF Numbered
  <2> QED
    BY <2>1, <2>2, <2>3, <2>4, <2>6, <2>7, <2>8 DEF Made
<1>2. CASE ~MayConnect(ref, going, sk)
  BY <1>2 DEF Connect, MayConnect, Skipped
<1> QED
  BY <1>1, <1>2

\* A socket that is made for the current closure, with no timer beside it, is all
\* that the invariant asks for.
LEMMA MadeKeeps ==
  ASSUME NEW c, Made(c), SocketTypeOK'
  PROVE  /\ Numbered(socket)' /\ OnlyRef' /\ OffInv' /\ GoingInv' /\ NeverStranded'
         /\ ~displaced' /\ c = closure' /\ (\A t \in Timers : timer'[t] = 0) => Calm'
<1>1. Live(socket', wsRef')
  BY NoSocketAssumption DEF Made, Live
<1>2. Numbered(socket)' /\ OnlyRef' /\ OffInv' /\ GoingInv' /\ NeverStranded'
  BY <1>1 DEF Made, Numbered, OnlyRef, OffInv, GoingInv, NeverStranded, Live
<1>3. ASSUME ~displaced', c = closure', \A t \in Timers : timer'[t] = 0
      PROVE  Calm'
  <2>1. \A q \in Sockets \ {wsRef'} : socket'[q].state = "closed"
    BY <1>3 DEF Made
  <2>2. socket'[wsRef'].state = "connecting" /\ socket'[wsRef'].closure = closure'
    BY <1>3 DEF Made
  <2>3. OneAlive' /\ TimerInv' /\ ClosureInv' /\ ShownInv'
    BY <1>3, <2>1, <2>2 DEF OneAlive, TimerInv, ClosureInv, ShownInv
  <2> QED
    BY <2>3 DEF Calm
<1> QED
  BY <1>2, <1>3

LEMMA ClosingEffect ==
  ASSUME SocketInv
  PROVE  /\ Closing(wsRef) \in [Sockets -> SocketRecords]
         /\ \A s \in Sockets : ~Live(Closing(wsRef), s)
         /\ \A s \in Sockets : Closing(wsRef)[s].closure = socket[s].closure
         /\ \A s \in Sockets : socket[s].state = "closed" <=> Closing(wsRef)[s].state = "closed"
         /\ \A s \in Sockets : Closing(wsRef)[s].state # "open"
         /\ Numbered(Closing(wsRef))
<1>1. socket \in [Sockets -> SocketRecords] /\ OnlyRef /\ Numbered(socket)
  BY DEF SocketInv, SocketTypeOK, SocketRecords
<1>2. CASE Live(socket, wsRef)
  <2>1. wsRef \in Sockets
    BY <1>2 DEF Live, SocketInv, SocketTypeOK
  <2>2. Closing(wsRef) = [socket EXCEPT ![wsRef].state = "closing"]
    BY <1>2 DEF Closing
  <2> QED
    BY <1>1, <1>2, <2>1, <2>2, NoSocketAssumption DEF Live, OnlyRef, SocketRecords, Numbered
<1>3. CASE ~Live(socket, wsRef)
  <2>1. Closing(wsRef) = socket
    BY <1>3 DEF Closing
  <2> QED
    BY <1>1, <1>3, <2>1, NoSocketAssumption DEF Live, OnlyRef, SocketRecords, Numbered
<1> QED
  BY <1>2, <1>3

LEMMA ClearedEffect ==
  ASSUME SocketTypeOK
  PROVE  /\ Cleared \in [Timers -> 0 .. MaxClosure]
         /\ TimerInv => \A t \in Timers : Cleared[t] = 0
<1>1. timer \in [Timers -> 0 .. MaxClosure] /\ 0 \in 0 .. MaxClosure
  BY MaxClosureAssumption DEF SocketTypeOK
<1>2. CASE timerRef = NoTimer
  BY <1>1, <1>2, NoTimerAssumption DEF Cleared, TimerInv
<1>3. CASE timerRef # NoTimer
  <2>1. timerRef \in Timers
    BY <1>3 DEF SocketTypeOK
  <2>2. Cleared = [timer EXCEPT ![timerRef] = 0]
    BY <1>3 DEF Cleared
  <2> QED
    BY <1>1, <2>1, <2>2 DEF TimerInv
<1> QED
  BY <1>2, <1>3

-----------------------------------------------------------------------------
(* The effect of connect, its cleanup and its next run.                     *)

LEMMA EffectKeeps ==
  ASSUME SocketInv, RunEffect, mounted, mounted' = mounted, visible' = visible,
         closure' \in 1 .. MaxClosure, enabled' \in BOOLEAN, token' \in BOOLEAN
  PROVE  SocketInv'
<1> DEFINE types == /\ wsRef \in Sockets \cup {NoSocket} /\ connecting \in BOOLEAN
                    /\ socket \in [Sockets -> SocketRecords] /\ displaced \in BOOLEAN
<1>0. SocketTypeOK /\ types
  BY DEF SocketInv, SocketTypeOK, SocketRecords
<1>1. UNCHANGED <<timerRef, connected>> /\ closure' \in 0 .. MaxClosure /\ closure' # 0
  BY MaxClosureAssumption DEF RunEffect
<1>2. ASSUME types', timer' \in [Timers -> 0 .. MaxClosure] PROVE SocketTypeOK'
  BY <1>0, <1>1, <1>2 DEF SocketTypeOK, SocketRecords
<1>3. CASE enabled
  <2>1. timer' = Cleared
    BY <1>3 DEF RunEffect
  <2>2. timer' \in [Timers -> 0 .. MaxClosure]
    BY <1>0, <2>1, ClearedEffect
  <2>3. ~displaced => \A t \in Timers : timer'[t] = 0
    BY <1>0, <2>1, ClearedEffect DEF SocketInv, Calm
  <2>4. CASE Made(closure')
    <3>1. types'
      BY <2>4 DEF Made
    <3>2. SocketTypeOK'
      BY <1>2, <2>2, <3>1
    <3>3. ~displaced' => ~displaced
      BY <2>4 DEF Made
    <3> QED
      BY <2>3, <2>4, <3>2, <3>3, MadeKeeps DEF SocketInv
  <2>5. CASE /\ ~(enabled' /\ token' /\ visible')
             /\ wsRef' = NoSocket /\ connecting' = FALSE
             /\ socket' = Closing(wsRef) /\ displaced' = displaced
    <3>1. SocketTypeOK'
      BY <1>0, <1>2, <2>2, <2>5, ClosingEffect
    <3>2. Numbered(socket)' /\ OnlyRef' /\ OffInv' /\ GoingInv' /\ NeverStranded'
      BY <2>5, ClosingEffect DEF Numbered, OnlyRef, OffInv, GoingInv, NeverStranded
    <3>3. ASSUME ~displaced' PROVE Calm'
      <4>1. Calm /\ \A t \in Timers : timer'[t] = 0
        BY <2>3, <2>5, <3>3 DEF SocketInv
      <4>2. OneAlive' /\ TimerInv' /\ ClosureInv' /\ ShownInv'
        BY <2>5, <4>1, ClosingEffect DEF Calm, OneAlive, TimerInv, ClosureInv, ShownInv
      <4> QED
        BY <4>2 DEF Calm
    <3> QED
      BY <3>1, <3>2, <3>3 DEF SocketInv
  <2>6. Made(closure') \/ (enabled' => Skipped(NoSocket, FALSE, Closing(wsRef)))
    <3>1. CASE enabled'
      <4>1. Connect(closure', NoSocket, FALSE, Closing(wsRef))
        BY <1>3, <3>1 DEF RunEffect
      <4> QED
        BY <1>0, <1>1, <4>1, ClosingEffect, ConnectEffect
    <3> QED
      BY <3>1
  <2>7. ~enabled' => /\ wsRef' = NoSocket /\ connecting' = FALSE
                     /\ socket' = Closing(wsRef) /\ displaced' = displaced
    BY <1>3 DEF RunEffect
  <2> QED
    BY <2>4, <2>5, <2>6, <2>7 DEF Skipped, Live
<1>4. CASE ~enabled
  <2>1. Connect(closure', wsRef, connecting, socket) /\ timer' = timer
    BY <1>4 DEF RunEffect
  <2>2. ~connecting /\ \A s \in Sockets : ~Live(socket, s)
    BY <1>4 DEF SocketInv, OffInv
  <2>3. ~Live(socket, wsRef)
    BY <1>0, <2>2 DEF Live
  <2>4. Made(closure') \/ Skipped(wsRef, connecting, socket)
    BY <1>0, <1>1, <2>1, ConnectEffect DEF SocketInv, OnlyRef
  <2>5. timer' \in [Timers -> 0 .. MaxClosure]
    BY <1>0, <2>1 DEF SocketTypeOK
  <2>6. ~displaced => \A t \in Timers : timer'[t] = 0
    BY <1>4, <2>1 DEF SocketInv, Calm, TimerInv
  <2>7. CASE Made(closure')
    <3>1. SocketTypeOK' /\ (~displaced' => ~displaced)
      BY <1>2, <2>5, <2>7 DEF Made
    <3> QED
      BY <2>6, <2>7, <3>1, MadeKeeps DEF SocketInv
  <2>8. CASE Skipped(wsRef, connecting, socket)
    <3>1. /\ wsRef' = wsRef /\ connecting' = FALSE /\ socket' = socket /\ displaced' = displaced
          /\ ~(enabled' /\ token' /\ visible')
      BY <1>0, <2>2, <2>3, <2>8 DEF Skipped
    <3>2. SocketTypeOK'
      BY <1>0, <1>2, <2>5, <3>1
    <3>3. \A s \in Sockets : ~Live(socket', s)
      BY <2>2, <3>1
    <3>4. Numbered(socket)' /\ OnlyRef' /\ OffInv' /\ GoingInv' /\ NeverStranded'
      BY <3>1, <3>3 DEF SocketInv, Numbered, OnlyRef, OffInv, GoingInv, NeverStranded
    <3>5. ASSUME ~displaced' PROVE Calm'
      <4>1. Calm
        BY <3>1, <3>5 DEF SocketInv
      <4>2. OneAlive' /\ TimerInv' /\ ClosureInv' /\ ShownInv'
        BY <1>1, <2>6, <3>1, <3>3, <3>5, <4>1
        DEF Calm, OneAlive, TimerInv, ClosureInv, ShownInv
      <4> QED
        BY <4>2 DEF Calm
    <3> QED
      BY <3>2, <3>4, <3>5 DEF SocketInv
  <2> QED
    BY <2>4, <2>7, <2>8
<1> QED
  BY <1>3, <1>4

-----------------------------------------------------------------------------
(* The invariant holds after every step.                                    *)

LEMMA RerenderKeeps == ASSUME SocketInv, Rerender \/ SetEnabled PROVE SocketInv'
<1>1. /\ mounted /\ mounted' = mounted /\ visible' = visible /\ RunEffect
      /\ enabled' \in BOOLEAN /\ token' \in BOOLEAN
  BY DEF Rerender, SetEnabled, SocketInv, SocketTypeOK
<1>2. closure' \in 1 .. MaxClosure
  BY MaxClosureAssumption DEF Rerender, SetEnabled, SocketInv, SocketTypeOK
<1> QED
  BY <1>1, <1>2, EffectKeeps

LEMMA UnmountKeeps == ASSUME SocketInv, Unmount PROVE SocketInv'
<1>1. /\ mounted' = FALSE
      /\ UNCHANGED <<enabled, token, visible, closure, timerRef, connected, displaced>>
  BY DEF Unmount
<1>2. CASE enabled
  <2>1. timer' = Cleared /\ wsRef' = NoSocket /\ connecting' = FALSE /\ socket' = Closing(wsRef)
    BY <1>2 DEF Unmount
  <2>2. SocketTypeOK'
    BY <1>1, <2>1, ClearedEffect, ClosingEffect DEF SocketInv, SocketTypeOK, SocketRecords
  <2>3. Numbered(socket)' /\ OnlyRef' /\ OffInv' /\ GoingInv' /\ NeverStranded'
    BY <1>1, <2>1, ClosingEffect DEF Numbered, OnlyRef, OffInv, GoingInv, NeverStranded
  <2> QED
    BY <1>1, <2>2, <2>3 DEF SocketInv
<1>3. CASE ~enabled
  <2>1. UNCHANGED <<timer, wsRef, connecting, socket>>
    BY <1>3 DEF Unmount
  <2> QED
    BY <1>1, <2>1 DEF SocketInv, SocketTypeOK, Numbered, OnlyRef, OffInv, GoingInv, NeverStranded
<1> QED
  BY <1>2, <1>3 DEF SocketInv, SocketTypeOK

LEMMA HideKeeps == ASSUME SocketInv, Hide PROVE SocketInv'
<1>1. /\ visible' = FALSE
      /\ UNCHANGED <<mounted, enabled, token, closure, wsRef, connecting, socket,
                     timer, timerRef, connected, displaced>>
  BY DEF Hide
<1>2. SocketTypeOK' /\ Numbered(socket)' /\ OnlyRef' /\ OffInv' /\ GoingInv' /\ NeverStranded'
  BY <1>1 DEF SocketInv, SocketTypeOK, Numbered, OnlyRef, OffInv, GoingInv, NeverStranded
<1>3. Calm => Calm'
  BY <1>1 DEF Calm, OneAlive, TimerInv, ClosureInv, ShownInv
<1> QED
  BY <1>1, <1>2, <1>3 DEF SocketInv

LEMMA ShowKeeps == ASSUME SocketInv, Show PROVE SocketInv'
<1>0. /\ visible' = TRUE /\ UNCHANGED <<mounted, enabled, token, closure, connected>>
      /\ SocketTypeOK /\ closure \in 0 .. MaxClosure /\ closure # 0
      /\ socket \in [Sockets -> SocketRecords]
  BY MaxClosureAssumption DEF Show, SocketInv, SocketTypeOK, SocketRecords
<1>1. CASE ~(mounted /\ enabled)
  <2>1. UNCHANGED <<timer, timerRef, wsRef, connecting, socket, displaced>>
    BY <1>1 DEF Show
  <2>2. SocketTypeOK' /\ Numbered(socket)' /\ OnlyRef' /\ OffInv' /\ GoingInv' /\ NeverStranded'
    BY <1>0, <1>1, <2>1 DEF SocketInv, SocketTypeOK, Numbered, OnlyRef, OffInv, GoingInv, NeverStranded
  <2>3. mounted /\ Calm => Calm'
    BY <1>0, <1>1, <2>1 DEF Calm, OneAlive, TimerInv, ClosureInv, ShownInv
  <2> QED
    BY <1>0, <2>1, <2>2, <2>3 DEF SocketInv
<1>2. CASE mounted /\ enabled
  <2>1. timer' = Cleared /\ timerRef' = NoTimer
    BY <1>2 DEF Show
  <2>2. timer' \in [Timers -> 0 .. MaxClosure]
    BY <1>0, <2>1, ClearedEffect
  <2>3. ~displaced => \A t \in Timers : timer'[t] = 0
    BY <1>0, <1>2, <2>1, ClearedEffect DEF SocketInv, Calm
  <2>4. CASE Made(closure)
    <3>1. SocketTypeOK'
      BY <1>0, <2>1, <2>2, <2>4 DEF Made, SocketTypeOK, SocketRecords
    <3>2. closure' = closure /\ (~displaced' => ~displaced)
      BY <1>0, <2>4 DEF Made
    <3> QED
      BY <2>3, <2>4, <3>1, <3>2, MadeKeeps DEF SocketInv
  <2>5. CASE /\ UNCHANGED <<wsRef, connecting, socket, displaced>>
             /\ ~token \/ connecting \/ Live(socket, wsRef)
    <3>1. SocketTypeOK' /\ Numbered(socket)' /\ OnlyRef' /\ OffInv' /\ GoingInv'
      BY <1>0, <1>2, <2>1, <2>2, <2>5 DEF SocketInv, SocketTypeOK, Numbered, OnlyRef, OffInv, GoingInv
    <3>2. NeverStranded'
      BY <1>0, <2>5 DEF SocketInv, GoingInv, NeverStranded
    <3>3. ASSUME ~displaced PROVE Calm'
      <4>1. Calm
        BY <1>2, <3>3 DEF SocketInv
      <4>2. OneAlive' /\ TimerInv' /\ ShownInv'
        BY <1>0, <2>3, <2>5, <3>3, <4>1 DEF Calm, OneAlive, TimerInv, ShownInv
      <4>3. ClosureInv'
        <5>1. wsRef \in Sockets => (Live(socket, wsRef) => socket[wsRef].state # "closed")
          BY DEF Live
        <5>2. wsRef \in Sockets \cup {NoSocket}
          BY <1>0 DEF SocketTypeOK
        <5> QED
          BY <1>0, <2>5, <4>1, <5>1, <5>2 DEF Calm, OneAlive, ClosureInv, Live
      <4> QED
        BY <4>2, <4>3 DEF Calm
    <3> QED
      BY <2>5, <3>1, <3>2, <3>3 DEF SocketInv
  <2>6. \/ UNCHANGED <<wsRef, connecting, socket, displaced>> /\ Live(socket, wsRef)
        \/ Connect(closure, wsRef, connecting, socket)
    BY <1>2 DEF Show
  <2>7. Connect(closure, wsRef, connecting, socket)
          => Made(closure) \/ Skipped(wsRef, connecting, socket)
    BY <1>0, ConnectEffect DEF SocketInv, OnlyRef
  <2> QED
    BY <1>0, <1>2, <2>4, <2>5, <2>6, <2>7 DEF Skipped
<1> QED
  BY <1>1, <1>2

LEMMA OpenedKeeps == ASSUME SocketInv, NEW s \in Sockets, Opened(s) PROVE SocketInv'
<1>0. /\ socket[s].state = "connecting"
      /\ socket' = [socket EXCEPT ![s].state = "open"]
      /\ connecting' = FALSE /\ connected' = TRUE
      /\ UNCHANGED <<mounted, enabled, token, visible, closure, wsRef, timer, timerRef, displaced>>
  BY DEF Opened
<1>1. /\ socket \in [Sockets -> SocketRecords] /\ SocketTypeOK
      /\ s # NoSocket /\ Live(socket, s) /\ s = wsRef
  BY <1>0, NoSocketAssumption DEF SocketInv, SocketTypeOK, SocketRecords, OnlyRef, Live
<1>2. /\ \A q \in Sockets : Live(socket', q) <=> Live(socket, q)
      /\ \A q \in Sockets : socket'[q].closure = socket[q].closure
      /\ \A q \in Sockets : socket'[q].state = "closed" <=> socket[q].state = "closed"
      /\ socket' \in [Sockets -> SocketRecords]
  BY <1>0, <1>1 DEF Live, SocketRecords
<1>3. SocketTypeOK'
  BY <1>0, <1>1, <1>2 DEF SocketTypeOK, SocketRecords
<1>4. Numbered(socket)' /\ OnlyRef' /\ OffInv' /\ GoingInv' /\ NeverStranded'
  BY <1>0, <1>1, <1>2 DEF SocketInv, Numbered, OnlyRef, OffInv, GoingInv, NeverStranded
<1>5. ASSUME mounted, ~displaced PROVE Calm'
  <2>1. Calm
    BY <1>5 DEF SocketInv
  <2>2. OneAlive' /\ TimerInv' /\ ClosureInv' /\ ShownInv'
    BY <1>0, <1>2, <2>1 DEF Calm, OneAlive, TimerInv, ClosureInv, ShownInv
  <2> QED
    BY <2>2 DEF Calm
<1> QED
  BY <1>0, <1>3, <1>4, <1>5 DEF SocketInv

LEMMA DroppedKeeps == ASSUME SocketInv, NEW s \in Sockets, Dropped(s) PROVE SocketInv'
<1>0. /\ Live(socket, s)
      /\ socket' = [socket EXCEPT ![s].state = "closing"]
      /\ UNCHANGED <<mounted, enabled, token, visible, closure, wsRef, connecting,
                     timer, timerRef, connected, displaced>>
  BY DEF Dropped
<1>1. socket \in [Sockets -> SocketRecords] /\ SocketTypeOK
  BY DEF SocketInv, SocketTypeOK, SocketRecords
<1>2. /\ \A q \in Sockets : Live(socket', q) => Live(socket, q)
      /\ \A q \in Sockets : socket'[q].closure = socket[q].closure
      /\ \A q \in Sockets : socket'[q].state = "closed" <=> socket[q].state = "closed"
      /\ \A q \in Sockets : socket'[q].state = "open" => socket[q].state = "open"
      /\ socket' \in [Sockets -> SocketRecords]
      /\ socket'[s].state = "closing"
  BY <1>0, <1>1 DEF Live, SocketRecords
<1>3. SocketTypeOK'
  BY <1>0, <1>1, <1>2 DEF SocketTypeOK, SocketRecords
<1>4. Numbered(socket)' /\ OnlyRef' /\ OffInv' /\ GoingInv' /\ NeverStranded'
  BY <1>0, <1>2 DEF SocketInv, Numbered, OnlyRef, OffInv, GoingInv, NeverStranded
<1>5. ASSUME mounted, ~displaced PROVE Calm'
  <2>1. Calm /\ socket[s].closure = closure
    BY <1>0, <1>5 DEF SocketInv, Calm, ClosureInv, Live
  <2>2. OneAlive' /\ TimerInv' /\ ShownInv'
    BY <1>0, <1>2, <2>1 DEF Calm, OneAlive, TimerInv, ShownInv
  <2>3. ClosureInv'
    BY <1>0, <1>2, <2>1 DEF Calm, ClosureInv
  <2> QED
    BY <2>2, <2>3 DEF Calm
<1> QED
  BY <1>0, <1>3, <1>4, <1>5 DEF SocketInv

LEMMA ClosedKeeps == ASSUME SocketInv, NEW s \in Sockets, Closed(s) PROVE SocketInv'
<1>0. /\ socket[s].state = "closing"
      /\ socket' = [socket EXCEPT ![s].state = "closed"]
      /\ connecting' = FALSE /\ connected' = FALSE
      /\ UNCHANGED <<mounted, enabled, token, visible, closure, wsRef, displaced>>
  BY DEF Closed
<1>1. socket \in [Sockets -> SocketRecords] /\ SocketTypeOK /\ socket[s].closure \in 0 .. MaxClosure
  BY DEF SocketInv, SocketTypeOK, SocketRecords
<1>2. /\ \A q \in Sockets : Live(socket', q) <=> Live(socket, q)
      /\ \A q \in Sockets \ {s} : socket'[q] = socket[q]
      /\ socket' \in [Sockets -> SocketRecords]
      /\ socket'[s].state = "closed"
  BY <1>0, <1>1 DEF Live, SocketRecords
<1>3. CASE enabled
  <2>1. PICK t \in Timers : /\ timer[t] = 0
                           /\ timer' = [timer EXCEPT ![t] = socket[s].closure]
                           /\ timerRef' = t
    BY <1>3 DEF Closed
  <2>2. SocketTypeOK'
    BY <1>0, <1>1, <1>2, <2>1 DEF SocketTypeOK, SocketRecords
  <2>3. Numbered(socket)' /\ OnlyRef' /\ OffInv' /\ GoingInv'
    BY <1>0, <1>2, <1>3 DEF SocketInv, Numbered, OnlyRef, OffInv, GoingInv
  <2>4. socket[s].closure # 0
    BY <1>0 DEF SocketInv, Numbered
  <2>5. NeverStranded'
    BY <1>1, <2>1, <2>4 DEF SocketTypeOK, NeverStranded
  <2>6. ASSUME mounted, ~displaced PROVE Calm'
    <3>1. Calm
      BY <2>6 DEF SocketInv
    <3>2. \A q \in Sockets : socket'[q].state = "closed"
      BY <1>0, <1>2, <3>1 DEF Calm, OneAlive
    <3>3. \A u \in Timers : timer[u] = 0
      BY <1>0, <3>1 DEF Calm, TimerInv
    <3>4. \A u \in Timers : timer'[u] # 0 => u = t /\ timer'[u] = socket[s].closure
      BY <1>1, <2>1, <3>3 DEF SocketTypeOK
    <3>5. token /\ visible => socket[s].closure = closure
      BY <1>0, <1>3, <3>1 DEF Calm, ClosureInv
    <3>6. TimerInv'
      BY <1>0, <1>3, <2>1, <3>2, <3>4, <3>5 DEF TimerInv
    <3>7. OneAlive' /\ ClosureInv' /\ ShownInv'
      BY <3>2 DEF OneAlive, ClosureInv, ShownInv
    <3> QED
      BY <3>6, <3>7 DEF Calm
  <2> QED
    BY <1>0, <2>2, <2>3, <2>5, <2>6 DEF SocketInv
<1>4. CASE ~enabled
  <2>1. UNCHANGED <<timer, timerRef>>
    BY <1>4 DEF Closed
  <2>2. SocketTypeOK'
    BY <1>0, <1>1, <1>2, <2>1 DEF SocketTypeOK, SocketRecords
  <2>3. Numbered(socket)' /\ OnlyRef' /\ OffInv' /\ GoingInv' /\ NeverStranded'
    BY <1>0, <1>2, <1>4 DEF SocketInv, Numbered, OnlyRef, OffInv, GoingInv, NeverStranded
  <2>4. ASSUME mounted, ~displaced PROVE Calm'
    <3>1. Calm
      BY <2>4 DEF SocketInv
    <3>2. \A q \in Sockets : socket'[q].state = "closed"
      BY <1>0, <1>2, <3>1 DEF Calm, OneAlive
    <3>3. OneAlive' /\ TimerInv' /\ ClosureInv' /\ ShownInv'
      BY <1>0, <1>4, <2>1, <3>1, <3>2 DEF Calm, OneAlive, TimerInv, ClosureInv, ShownInv
    <3> QED
      BY <3>3 DEF Calm
  <2> QED
    BY <1>0, <2>2, <2>3, <2>4 DEF SocketInv
<1> QED
  BY <1>3, <1>4

LEMMA FiresKeeps == ASSUME SocketInv, NEW t \in Timers, Fires(t) PROVE SocketInv'
<1>0. /\ timer[t] # 0 /\ timer' = [timer EXCEPT ![t] = 0]
      /\ UNCHANGED <<mounted, enabled, token, visible, closure, timerRef, connected>>
      /\ Connect(timer[t], wsRef, connecting, socket)
  BY DEF Fires
<1>1. /\ SocketTypeOK /\ socket \in [Sockets -> SocketRecords]
      /\ timer \in [Timers -> 0 .. MaxClosure]
  BY DEF SocketInv, SocketTypeOK, SocketRecords
<1>2. timer' \in [Timers -> 0 .. MaxClosure] /\ timer[t] \in 0 .. MaxClosure
  BY <1>0, <1>1, MaxClosureAssumption
<1>3. Made(timer[t]) \/ Skipped(wsRef, connecting, socket)
  BY <1>0, <1>1, <1>2, ConnectEffect DEF SocketInv, OnlyRef
<1>4. ASSUME mounted, ~displaced
      PROVE  /\ \A u \in Timers : timer'[u] = 0
             /\ \A q \in Sockets : socket[q].state = "closed"
             /\ enabled /\ (token /\ visible => timer[t] = closure)
  BY <1>0, <1>1, <1>4 DEF SocketInv, Calm, TimerInv
<1>5. CASE Made(timer[t])
  <2>1. SocketTypeOK'
    BY <1>0, <1>1, <1>2, <1>5 DEF Made, SocketTypeOK, SocketRecords
  <2>2. token /\ visible /\ closure' = closure /\ mounted' = mounted /\ (~displaced' => ~displaced)
    BY <1>0, <1>5 DEF Made
  <2> QED
    BY <1>4, <1>5, <2>1, <2>2, MadeKeeps DEF SocketInv
<1>6. CASE Skipped(wsRef, connecting, socket)
  <2>1. /\ UNCHANGED <<wsRef, connecting, socket, displaced>>
        /\ ~(enabled /\ token /\ visible) \/ connecting \/ Live(socket, wsRef)
    BY <1>0, <1>6 DEF Skipped
  <2>2. SocketTypeOK'
    BY <1>0, <1>1, <1>2, <2>1 DEF SocketTypeOK
  <2>3. Numbered(socket)' /\ OnlyRef' /\ OffInv' /\ GoingInv'
    BY <1>0, <2>1 DEF SocketInv, Numbered, OnlyRef, OffInv, GoingInv
  <2>4. NeverStranded'
    BY <1>0, <2>1 DEF SocketInv, GoingInv, NeverStranded
  <2>5. ASSUME mounted, ~displaced PROVE Calm'
    BY <1>4, <2>1, <2>5 DEF Calm, OneAlive, TimerInv, ClosureInv, ShownInv
  <2> QED
    BY <1>0, <2>1, <2>2, <2>3, <2>4, <2>5 DEF SocketInv
<1> QED
  BY <1>3, <1>5, <1>6

LEMMA SocketInvNext == SocketInv /\ [SocketNext]_socketVars => SocketInv'
<1> SUFFICES ASSUME SocketInv, [SocketNext]_socketVars PROVE SocketInv'
  OBVIOUS
<1>1. CASE UNCHANGED socketVars
  <2>1. SocketTypeOK' /\ Numbered(socket)' /\ OnlyRef' /\ OffInv' /\ GoingInv' /\ NeverStranded'
    BY <1>1 DEF socketVars, SocketInv, SocketTypeOK, Numbered, OnlyRef, OffInv, GoingInv, NeverStranded
  <2>2. Calm => Calm'
    BY <1>1 DEF socketVars, Calm, OneAlive, TimerInv, ClosureInv, ShownInv
  <2> QED
    BY <1>1, <2>1, <2>2 DEF socketVars, SocketInv
<1> QED
  BY <1>1, RerenderKeeps, UnmountKeeps, HideKeeps, ShowKeeps, OpenedKeeps, DroppedKeeps,
     ClosedKeeps, FiresKeeps DEF SocketNext

LEMMA SocketInvariance == SocketSpec => []SocketInv
BY SocketInvInit, SocketInvNext, PTL DEF SocketSpec

-----------------------------------------------------------------------------
(* The theorems.                                                            *)

\* The hook's references, sockets and timers keep their types.
THEOREM SocketTypeCorrect == SocketSpec => []SocketTypeOK
<1>1. SocketInv => SocketTypeOK
  BY DEF SocketInv
<1> QED
  BY <1>1, SocketInvariance, PTL

\* For any number of renders, sockets and timers the hook has at most one socket on
\* its way or open, and until one is made beside a closing one it is shown as
\* connected and feeds the current callbacks.
THEOREM OnlyOneSocket == SocketSpec => []OneSocket
<1>1. SocketInv => OneSocket
  <2> SUFFICES ASSUME SocketInv PROVE OneSocket
    OBVIOUS
  <2>1. ASSUME ~displaced, mounted, NEW s \in Sockets, socket[s].state = "open"
        PROVE  connected /\ socket[s].closure = closure
    BY <2>1, NoSocketAssumption DEF SocketInv, Calm, ClosureInv, ShownInv, Live
  <2> QED
    BY <2>1 DEF SocketInv, OnlyRef, OneSocket
<1> QED
  BY <1>1, SocketInvariance, PTL

\* A hook that should be connected is, or something is to come that connects it.
THEOREM WillConnect == SocketSpec => []NeverStranded
<1>1. SocketInv => NeverStranded
  BY DEF SocketInv
<1> QED
  BY <1>1, SocketInvariance, PTL
-----------------------------------------------------------------------------
(* CockpitListing, for any VMs and directories: the entries that are shown  *)
(* are those of the current path.                                           *)

\* Something is shown or changed only in the cockpit of a VM.
MachineInv == browsing \/ entryOps # {} => machine \in Machines

\* While no two listings were out at once, one at most is out.
OneListing == /\ \A f \in Places : listings[f] <= 1
              /\ \A f, g \in Places : listings[f] > 0 /\ listings[g] > 0 => f = g

\* What is out is for the path that is shown, under a spinner.
ListsThePath == browsing => \A f \in Places : listings[f] > 0 => f = <<machine, cwd>> /\ dirLoading

PathIsListed == browsing => dirLoading \/ dirError \/ listed = <<machine, cwd>>

ListingInv ==
  /\ ListingTypeOK /\ MachineInv
  /\ ~overlapped => OneListing /\ ListsThePath /\ PathIsListed

LEMMA ListingInvInit == ListingInit => ListingInv
<1> SUFFICES ASSUME ListingInit PROVE ListingInv
  OBVIOUS
<1>1. ListingTypeOK /\ MachineInv
  BY ListingRootAssumption DEF ListingInit, ListingTypeOK, MachineInv
<1>2. OneListing /\ ListsThePath /\ PathIsListed
  BY DEF ListingInit, OneListing, ListsThePath, PathIsListed
<1> QED
  BY <1>1, <1>2 DEF ListingInv

\* A listing is asked for: it is the only one, unless others were out.
LEMMA NavigateKeeps ==
  ASSUME ListingInv, machine \in Machines, NEW d \in Dirs, Navigate(d), machine' = machine,
         browsing' \in BOOLEAN, entryOps' \subseteq Machines
  PROVE  ListingInv'
<1>0. ListingTypeOK
  BY DEF ListingInv
<1>1. /\ <<machine, d>> \in Places
      /\ \A f \in Places : listings[f] \in Nat
      /\ listings' = [listings EXCEPT ![<<machine, d>>] = listings[<<machine, d>>] + 1]
      /\ cwd' = d /\ dirLoading' = TRUE /\ dirError' = FALSE /\ listed' = listed
      /\ overlapped' = (overlapped \/ \E f \in Places : listings[f] > 0)
  BY <1>0 DEF ListingTypeOK, Places, Navigate
<1>2. /\ listings' \in [Places -> Nat]
      /\ \A f \in Places : listings'[f] = IF f = <<machine, d>> THEN listings[f] + 1 ELSE listings[f]
  BY <1>0, <1>1 DEF ListingTypeOK
<1>3. ListingTypeOK' /\ MachineInv'
  BY <1>0, <1>1, <1>2 DEF ListingTypeOK, MachineInv
<1>4. ASSUME ~overlapped' PROVE OneListing' /\ ListsThePath' /\ PathIsListed'
  <2>0. ~ \E f \in Places : listings[f] > 0
    BY <1>1, <1>4, Zenon
  <2>1. \A f \in Places : listings[f] = 0
    BY <1>1, <2>0
  <2>2. \A f \in Places : listings'[f] = IF f = <<machine, d>> THEN 1 ELSE 0
    BY <1>2, <2>1
  <2>3. OneListing'
    BY <2>2 DEF OneListing
  <2>4. ListsThePath' /\ PathIsListed'
    BY <1>1, <2>2 DEF ListsThePath, PathIsListed
  <2> QED
    BY <2>3, <2>4
<1> QED
  BY <1>3, <1>4 DEF ListingInv

\* A listing is answered: the spinner goes, and nothing is out.
LEMMA ListingAnswerKeeps ==
  ASSUME ListingInv, NEW f \in Places, Listed(f) \/ ListFailed(f)
  PROVE  ListingInv'
<1>0. ListingTypeOK /\ MachineInv
  BY DEF ListingInv
<1>1. /\ listings[f] > 0 /\ listings' = [listings EXCEPT ![f] = listings[f] - 1]
      /\ dirLoading' = FALSE /\ UNCHANGED <<machine, browsing, cwd, entryOps, overlapped>>
      /\ \/ listed' = f /\ UNCHANGED dirError
         \/ dirError' = TRUE /\ UNCHANGED listed
  BY DEF Listed, ListFailed
<1>2. /\ listings' \in [Places -> Nat]
      /\ \A g \in Places : listings[g] \in Nat
                           /\ listings'[g] = IF g = f THEN listings[g] - 1 ELSE listings[g]
  BY <1>0, <1>1 DEF ListingTypeOK
<1>3. ListingTypeOK' /\ MachineInv'
  BY <1>0, <1>1, <1>2 DEF ListingTypeOK, MachineInv
<1>4. ASSUME ~overlapped' PROVE OneListing' /\ ListsThePath' /\ PathIsListed'
  <2>1. OneListing /\ ListsThePath
    BY <1>1, <1>4 DEF ListingInv
  <2>2. \A g \in Places : listings'[g] = 0
    BY <1>1, <1>2, <2>1 DEF OneListing
  <2>3. OneListing' /\ ListsThePath'
    BY <2>2 DEF OneListing, ListsThePath
  <2>4. PathIsListed'
    BY <1>1, <2>1 DEF PathIsListed, ListsThePath
  <2> QED
    BY <2>3, <2>4
<1> QED
  BY <1>3, <1>4 DEF ListingInv

LEMMA ListingInvNext == ListingInv /\ [ListingNext]_listingVars => ListingInv'
<1> SUFFICES ASSUME ListingInv, [ListingNext]_listingVars PROVE ListingInv'
  OBVIOUS
<1>0. ListingTypeOK /\ MachineInv
  BY DEF ListingInv
<1>1. ASSUME NEW v \in Machines, SetMachine(v) PROVE ListingInv'
  <2>1. ListingTypeOK' /\ MachineInv'
    BY <1>0, <1>1 DEF SetMachine, ListingTypeOK, MachineInv
  <2>2. ASSUME ~overlapped' PROVE OneListing' /\ ListsThePath' /\ PathIsListed'
    BY <1>1, <2>2 DEF SetMachine, ListingInv, OneListing, ListsThePath, PathIsListed
  <2> QED
    BY <2>1, <2>2 DEF ListingInv
<1>2. ASSUME NEW v \in Machines, EntryChanged(v) PROVE ListingInv'
  <2>1. machine \in Machines /\ cwd \in Dirs /\ browsing \in BOOLEAN
    BY <1>0, <1>2 DEF EntryChanged, MachineInv, ListingTypeOK
  <2>2. machine' = machine /\ browsing' = browsing /\ entryOps' \subseteq Machines
    BY <1>0, <1>2 DEF EntryChanged, ListingTypeOK
  <2>3. CASE Navigate(cwd)
    BY <2>1, <2>2, <2>3, NavigateKeeps
  <2>4. CASE UNCHANGED <<cwd, listed, dirLoading, dirError, listings, overlapped>>
    <3>1. ListingTypeOK' /\ MachineInv'
      BY <1>0, <2>1, <2>2, <2>4 DEF ListingTypeOK, MachineInv
    <3>2. ASSUME ~overlapped' PROVE OneListing' /\ ListsThePath' /\ PathIsListed'
      BY <2>2, <2>4, <3>2 DEF ListingInv, OneListing, ListsThePath, PathIsListed
    <3> QED
      BY <3>1, <3>2 DEF ListingInv
  <2> QED
    BY <1>2, <2>3, <2>4 DEF EntryChanged
<1>3. ASSUME ShowListing PROVE ListingInv'
  <2>1. machine \in Machines /\ machine' = machine /\ browsing' \in BOOLEAN /\ entryOps' \subseteq Machines
    BY <1>0, <1>3 DEF ShowListing, ListingTypeOK
  <2>2. Navigate(Root)
    BY <1>3 DEF ShowListing
  <2> QED
    BY <2>1, <2>2, NavigateKeeps, ListingRootAssumption
<1>4. ASSUME ChangeEntry PROVE ListingInv'
  <2>1. ListingTypeOK' /\ MachineInv'
    BY <1>0, <1>4 DEF ChangeEntry, ListingTypeOK, MachineInv
  <2>2. ASSUME ~overlapped' PROVE OneListing' /\ ListsThePath' /\ PathIsListed'
    BY <1>4, <2>2 DEF ChangeEntry, ListingInv, OneListing, ListsThePath, PathIsListed
  <2> QED
    BY <2>1, <2>2 DEF ListingInv
<1>5. ASSUME NEW d \in Dirs, GoTo(d) PROVE ListingInv'
  <2>1. machine \in Machines /\ machine' = machine /\ browsing' \in BOOLEAN /\ entryOps' \subseteq Machines
    BY <1>0, <1>5 DEF GoTo, MachineInv, ListingTypeOK
  <2>2. Navigate(d)
    BY <1>5 DEF GoTo
  <2> QED
    BY <2>1, <2>2, NavigateKeeps
<1>6. CASE UNCHANGED listingVars
  <2>1. ListingTypeOK' /\ MachineInv'
    BY <1>0, <1>6 DEF listingVars, ListingTypeOK, MachineInv
  <2>2. ASSUME ~overlapped' PROVE OneListing' /\ ListsThePath' /\ PathIsListed'
    BY <1>6, <2>2 DEF listingVars, ListingInv, OneListing, ListsThePath, PathIsListed
  <2> QED
    BY <2>1, <2>2 DEF ListingInv
<1> QED
  BY <1>1, <1>2, <1>3, <1>4, <1>5, <1>6, ListingAnswerKeeps DEF ListingNext

LEMMA ListingFromInv == ListingInv => ListingIsOfPath
BY DEF ListingInv, ListingIsOfPath, PathIsListed

-----------------------------------------------------------------------------
(* MigrateDialog, for any nodes: what is offered, chosen and submitted is   *)
(* the target's own.                                                        *)

LoadRecords == [of : Targets, attempt : 1 .. MaxAttempts, out : BOOLEAN, cancelled : BOOLEAN]

\* The runs of loadStorages that the effect has not cancelled: one at most, and
\* for the target.
Current(l) == ~l.cancelled
LoadIsOfTarget == /\ \A l \in loads : Current(l) => l.of = target
                  /\ \A k, l \in loads : Current(k) /\ Current(l) => k = l

\* A timeout is only set while there are attempts left.
RetriesLeft == \A l \in loads : ~l.out => l.attempt < MaxAttempts

OfferIsChosen == offered # NoTarget => chosen = offered

\* Until the target is changed after a choice: the choice is the target's, nothing
\* that could replace it is on its way, and without it there is no way forward.
ChoiceInv == /\ chosen \in {target, NoTarget}
             /\ chosen # NoTarget => \A l \in loads : ~Current(l)
             /\ step \in {"options", "confirm"} => chosen # NoTarget

SpinnerInv == spinner => \E l \in loads : Current(l) /\ l.out

DialogInv ==
  /\ DialogTypeOK /\ LoadIsOfTarget /\ RetriesLeft /\ OfferIsChosen
  /\ ~switched => ChoiceInv
  /\ ~revived => SpinnerInv

LEMMA DialogInvInit == DialogInit => DialogInv
<1> SUFFICES ASSUME DialogInit PROVE DialogInv
  OBVIOUS
<1>1. DialogTypeOK
  BY DEF DialogInit, DialogTypeOK, Steps
<1>2. LoadIsOfTarget /\ RetriesLeft /\ OfferIsChosen /\ ChoiceInv /\ SpinnerInv
  BY DEF DialogInit, LoadIsOfTarget, RetriesLeft, OfferIsChosen, ChoiceInv, SpinnerInv
<1> QED
  BY <1>1, <1>2 DEF DialogInv

LEMMA PickTargetKeeps ==
  ASSUME DialogInv, NEW n \in Targets, PickTarget(n) PROVE DialogInv'
<1> DEFINE new == [of |-> n, attempt |-> 1, out |-> TRUE, cancelled |-> FALSE]
<1>0. DialogTypeOK /\ loads \subseteq LoadRecords
  BY DEF DialogInv, DialogTypeOK, LoadRecords
<1>1. /\ target' = n /\ spinner' = TRUE /\ loads' = CancelLoads \cup {new}
      /\ step = "target"
      /\ UNCHANGED <<step, offered, chosen, submitting, revived>>
  BY DEF PickTarget
<1>2. switched' \in BOOLEAN /\ (~switched' => ~switched /\ chosen = NoTarget)
  BY <1>0, Zenon DEF PickTarget, DialogTypeOK
<1>3. \A l \in CancelLoads : /\ l \in LoadRecords /\ l.cancelled = TRUE
                             /\ ~l.out => l.attempt < MaxAttempts
  BY <1>0 DEF CancelLoads, LoadRecords, DialogInv, RetriesLeft
<1>4. new \in LoadRecords /\ new.of = n /\ new.out = TRUE /\ new.cancelled = FALSE
  BY DEF LoadRecords, MaxAttempts
<1> HIDE DEF new
<1>5. DialogTypeOK'
  <2>1. loads' \subseteq LoadRecords
    BY <1>1, <1>3, <1>4
  <2> QED
    BY <1>0, <1>1, <1>2, <2>1 DEF DialogTypeOK, LoadRecords
<1>6. LoadIsOfTarget' /\ RetriesLeft'
  BY <1>1, <1>3, <1>4 DEF LoadIsOfTarget, RetriesLeft, Current
<1>7. OfferIsChosen'
  BY <1>1 DEF DialogInv, OfferIsChosen
<1>8. ~switched' => ChoiceInv'
  BY <1>1, <1>2 DEF ChoiceInv
<1>9. SpinnerInv'
  BY <1>1, <1>4 DEF SpinnerInv, Current
<1> QED
  BY <1>5, <1>6, <1>7, <1>8, <1>9 DEF DialogInv

LEMMA StoragesLoadedKeeps ==
  ASSUME DialogInv, NEW l \in loads, StoragesLoaded(l) PROVE DialogInv'
<1>0. DialogTypeOK /\ loads \subseteq LoadRecords
  BY DEF DialogInv, DialogTypeOK, LoadRecords
<1>1. loads' = loads \ {l} /\ UNCHANGED <<step, target, submitting, switched, revived>>
  BY DEF StoragesLoaded
<1>2. LoadIsOfTarget' /\ RetriesLeft'
  BY <1>1 DEF DialogInv, LoadIsOfTarget, RetriesLeft
<1>3. CASE l.cancelled
  <2>1. UNCHANGED <<offered, chosen, spinner>>
    BY <1>3 DEF StoragesLoaded
  <2>2. DialogTypeOK'
    BY <1>0, <1>1, <2>1 DEF DialogTypeOK
  <2>3. OfferIsChosen'
    BY <2>1 DEF DialogInv, OfferIsChosen
  <2>4. ~switched' => ChoiceInv'
    BY <1>1, <2>1 DEF DialogInv, ChoiceInv
  <2>5. ~revived' => SpinnerInv'
    BY <1>1, <1>3, <2>1 DEF DialogInv, SpinnerInv, Current
  <2> QED
    BY <1>2, <2>2, <2>3, <2>4, <2>5 DEF DialogInv
<1>4. CASE ~l.cancelled
  <2>1. offered' \in {l.of, NoTarget} /\ chosen' = offered' /\ spinner' = FALSE
    BY <1>4 DEF StoragesLoaded
  <2>2. l.of = target /\ l.of \in Targets /\ \A k \in loads \ {l} : ~Current(k)
    BY <1>0, <1>4 DEF DialogInv, LoadIsOfTarget, LoadRecords, Current
  <2>3. DialogTypeOK'
    BY <1>0, <1>1, <2>1, <2>2 DEF DialogTypeOK
  <2>4. OfferIsChosen' /\ SpinnerInv'
    BY <2>1 DEF OfferIsChosen, SpinnerInv
  <2>5. ASSUME ~switched' PROVE ChoiceInv'
    <3>1. step \notin {"options", "confirm"}
      BY <1>1, <1>4, <2>5 DEF DialogInv, ChoiceInv, Current
    <3> QED
      BY <1>1, <2>1, <2>2, <3>1 DEF ChoiceInv
  <2> QED
    BY <1>2, <2>3, <2>4, <2>5 DEF DialogInv
<1> QED
  BY <1>3, <1>4

LEMMA LoadFailsKeeps ==
  ASSUME DialogInv, NEW l \in loads, LoadFails(l) PROVE DialogInv'
<1>0. DialogTypeOK /\ loads \subseteq LoadRecords
  BY DEF DialogInv, DialogTypeOK, LoadRecords
<1>1. l \in LoadRecords /\ UNCHANGED <<step, target, chosen, submitting, switched, revived>>
  BY <1>0 DEF LoadFails
<1> DEFINE again == [l EXCEPT !.out = FALSE]
<1>2. again \in LoadRecords /\ again.out = FALSE /\ again.cancelled = l.cancelled
      /\ again.of = l.of /\ again.attempt = l.attempt
  BY <1>1 DEF LoadRecords
<1>3. CASE ~l.cancelled /\ l.attempt < MaxAttempts
  <2>1. loads' = (loads \ {l}) \cup {again} /\ spinner' = FALSE /\ UNCHANGED offered
    BY <1>3 DEF LoadFails
  <2> HIDE DEF again
  <2>2. DialogTypeOK'
    <3>1. loads' \subseteq LoadRecords
      BY <1>0, <1>2, <2>1
    <3> QED
      BY <1>0, <1>1, <2>1, <3>1 DEF DialogTypeOK, LoadRecords
  <2>3. LoadIsOfTarget' /\ RetriesLeft'
    BY <1>1, <1>2, <1>3, <2>1 DEF DialogInv, LoadIsOfTarget, RetriesLeft, Current
  <2>4. OfferIsChosen' /\ SpinnerInv'
    BY <1>1, <2>1 DEF DialogInv, OfferIsChosen, SpinnerInv
  <2>5. ~switched' => ChoiceInv'
    BY <1>1, <1>2, <1>3, <2>1 DEF DialogInv, ChoiceInv, Current
  <2> QED
    BY <2>2, <2>3, <2>4, <2>5 DEF DialogInv
<1>4. CASE ~(~l.cancelled /\ l.attempt < MaxAttempts)
  <2>1. loads' = loads \ {l}
    BY <1>4 DEF LoadFails
  <2>2. /\ l.cancelled => UNCHANGED <<spinner, offered>>
        /\ ~l.cancelled => spinner' = FALSE /\ offered' = NoTarget
    BY <1>4 DEF LoadFails
  <2>3. DialogTypeOK'
    BY <1>0, <1>1, <2>1, <2>2 DEF DialogTypeOK
  <2>4. LoadIsOfTarget' /\ RetriesLeft' /\ OfferIsChosen'
    BY <1>1, <2>1, <2>2 DEF DialogInv, LoadIsOfTarget, RetriesLeft, OfferIsChosen
  <2>5. ~revived' => SpinnerInv'
    BY <1>1, <2>1, <2>2 DEF DialogInv, SpinnerInv, Current
  <2>6. ~switched' => ChoiceInv'
    BY <1>1, <2>1 DEF DialogInv, ChoiceInv
  <2> QED
    BY <2>3, <2>4, <2>5, <2>6 DEF DialogInv
<1> QED
  BY <1>3, <1>4

LEMMA RetryFiresKeeps ==
  ASSUME DialogInv, NEW l \in loads, RetryFires(l) PROVE DialogInv'
<1>0. DialogTypeOK /\ loads \subseteq LoadRecords
  BY DEF DialogInv, DialogTypeOK, LoadRecords
<1> DEFINE next == [l EXCEPT !.out = TRUE, !.attempt = l.attempt + 1]
<1>1. /\ ~l.out /\ loads' = (loads \ {l}) \cup {next} /\ spinner' = TRUE
      /\ UNCHANGED <<step, target, offered, chosen, submitting, switched>>
  BY DEF RetryFires
<1>2. revived' \in BOOLEAN /\ (~revived' => ~revived /\ ~l.cancelled)
  BY <1>0, Zenon DEF RetryFires, DialogTypeOK
<1>3. l.attempt < MaxAttempts
  BY <1>1 DEF DialogInv, RetriesLeft
<1>4. next \in LoadRecords /\ next.out = TRUE /\ next.cancelled = l.cancelled /\ next.of = l.of
  <2>1. l \in LoadRecords /\ l.attempt + 1 \in 1 .. MaxAttempts
    BY <1>0, <1>3 DEF LoadRecords, MaxAttempts
  <2> QED
    BY <2>1 DEF LoadRecords
<1> HIDE DEF next
<1>5. DialogTypeOK'
  <2>1. loads' \subseteq LoadRecords
    BY <1>0, <1>1, <1>4
  <2> QED
    BY <1>0, <1>1, <1>2, <2>1 DEF DialogTypeOK, LoadRecords
<1>6. LoadIsOfTarget' /\ RetriesLeft'
  BY <1>1, <1>4 DEF DialogInv, LoadIsOfTarget, RetriesLeft, Current
<1>7. OfferIsChosen'
  BY <1>1 DEF DialogInv, OfferIsChosen
<1>8. ~switched' => ChoiceInv'
  BY <1>1, <1>4 DEF DialogInv, ChoiceInv, Current
<1>9. ~revived' => SpinnerInv'
  BY <1>1, <1>2, <1>4 DEF SpinnerInv, Current
<1> QED
  BY <1>5, <1>6, <1>7, <1>8, <1>9 DEF DialogInv

\* The steps of the dialog change nothing that is loaded.
LEMMA DialogStepKeeps ==
  ASSUME DialogInv, step' \in Steps \cup {"closed"}, submitting' \in BOOLEAN,
         step' \in {"options", "confirm"} => step \in {"options", "confirm"} \/ chosen # NoTarget,
         UNCHANGED <<target, offered, chosen, spinner, loads, switched, revived>>
  PROVE  DialogInv'
<1>1. DialogTypeOK'
  BY DEF DialogInv, DialogTypeOK
<1>2. LoadIsOfTarget' /\ RetriesLeft' /\ OfferIsChosen' /\ (~revived' => SpinnerInv')
  BY DEF DialogInv, LoadIsOfTarget, RetriesLeft, OfferIsChosen, SpinnerInv
<1>3. ~switched' => ChoiceInv'
  BY DEF DialogInv, ChoiceInv
<1> QED
  BY <1>1, <1>2, <1>3 DEF DialogInv

LEMMA DialogInvNext == DialogInv /\ [DialogNext]_dialogVars => DialogInv'
<1> SUFFICES ASSUME DialogInv, [DialogNext]_dialogVars PROVE DialogInv'
  OBVIOUS
<1>0. DialogTypeOK
  BY DEF DialogInv
<1>1. ASSUME OpenDialog PROVE DialogInv'
  BY <1>0, <1>1, DialogStepKeeps DEF OpenDialog, DialogTypeOK, Steps
<1>2. ASSUME CloseDialog PROVE DialogInv'
  <2>1. DialogTypeOK'
    BY <1>2 DEF CloseDialog, DialogTypeOK, Steps
  <2>2. LoadIsOfTarget' /\ RetriesLeft' /\ OfferIsChosen' /\ ChoiceInv' /\ SpinnerInv'
    BY <1>2 DEF CloseDialog, LoadIsOfTarget, RetriesLeft, OfferIsChosen, ChoiceInv, SpinnerInv
  <2> QED
    BY <2>1, <2>2 DEF DialogInv
<1>3. ASSUME Forward \/ Back PROVE DialogInv'
  <2>1. submitting' \in BOOLEAN
    BY <1>0, <1>3 DEF Forward, Back, GoToStep, DialogTypeOK
  <2>2. /\ step' \in Steps \cup {"closed"}
        /\ step' \in {"options", "confirm"} => step \in {"options", "confirm"} \/ chosen # NoTarget
        /\ UNCHANGED <<target, offered, chosen, spinner, loads, switched, revived>>
    BY <1>3 DEF Forward, Back, GoToStep, Steps
  <2> QED
    BY <2>1, <2>2, DialogStepKeeps
<1>4. ASSUME PickStorage PROVE DialogInv'
  <2>1. chosen' = chosen
    BY <1>4 DEF PickStorage, DialogInv, OfferIsChosen
  <2> QED
    BY <1>0, <1>4, <2>1, DialogStepKeeps DEF PickStorage, DialogTypeOK
<1>5. ASSUME SubmitMigration \/ SubmitFails PROVE DialogInv'
  <2>1. submitting' \in BOOLEAN
    BY <1>5, Zenon DEF SubmitMigration, SubmitFails
  <2> QED
    BY <1>0, <1>5, <2>1, DialogStepKeeps DEF SubmitMigration, SubmitFails, DialogTypeOK
<1>6. CASE UNCHANGED dialogVars
  BY <1>0, <1>6, DialogStepKeeps DEF dialogVars, DialogTypeOK
<1> QED
  BY <1>1, <1>2, <1>3, <1>4, <1>5, <1>6, PickTargetKeeps, StoragesLoadedKeeps, LoadFailsKeeps,
     RetryFiresKeeps DEF DialogNext

LEMMA DialogFromInv == DialogInv => DialogIsOfTarget
<1> SUFFICES ASSUME DialogInv PROVE DialogIsOfTarget
  OBVIOUS
<1>1. ~switched => /\ {offered, chosen} \subseteq {target, NoTarget}
                   /\ step \in {"options", "confirm"} => chosen = target
  BY DEF DialogInv, ChoiceInv, OfferIsChosen
<1>2. spinner /\ ~revived => \E l \in loads : l.of = target /\ ~l.cancelled /\ l.out
  BY DEF DialogInv, SpinnerInv, LoadIsOfTarget, Current
<1> QED
  BY <1>1, <1>2 DEF DialogIsOfTarget

-----------------------------------------------------------------------------
(* ChatWindow, for any conversations: what is displayed is of the one in    *)
(* the title.                                                               *)

\* The input is locked while a message is out; one whose conversation is still to
\* be found was written for none.
SendingInv ==
  /\ isSending <=> sending # NotSending
  /\ sending.phase = "none" => sending = NotSending
  /\ sending.phase = "list" => sending.to = NoChat /\ sending.of \in Chats

\* While no other conversation is shown than the one that was written to, the
\* message on its way, the temporary one and the rest are all of the current one.
SentFromHere == sending # NotSending => sending.to = current
TempIsHere == temp.shown => temp.of = current
AllOfCurrent == messages \cup calls \subseteq {current}

ChatInv ==
  /\ ChatTypeOK /\ SendingInv /\ NoChat \notin messages
  /\ ~moved => SentFromHere /\ TempIsHere /\ AllOfCurrent

LEMMA NotSendingType ==
  /\ NotSending \in [phase : {"none", "chat", "list"}, to : Chats \cup {NoChat}, of : Chats \cup {NoChat}]
  /\ NotSending.phase = "none" /\ NotSending.to = NoChat /\ NotSending.of = NoChat
  /\ NoTemp \in [shown : BOOLEAN, of : Chats \cup {NoChat}] /\ NoTemp.shown = FALSE
BY DEF NotSending, NoTemp

LEMMA ChatInvInit == ChatInit => ChatInv
<1> SUFFICES ASSUME ChatInit PROVE ChatInv
  OBVIOUS
<1>1. /\ exists \subseteq known /\ known \subseteq Chats /\ current = NoChat /\ messages = {} /\ calls = {}
      /\ selects = {} /\ deletes = {} /\ temp = NoTemp /\ sending = NotSending
  BY DEF ChatInit
<1>2. /\ busy \in BOOLEAN /\ fetching \in BOOLEAN /\ isSending = FALSE /\ moved \in BOOLEAN
  BY Zenon DEF ChatInit
<1>3. ChatTypeOK
  BY <1>1, <1>2, NotSendingType DEF ChatTypeOK
<1>4. SendingInv /\ SentFromHere /\ TempIsHere /\ AllOfCurrent
  BY <1>1, <1>2, NotSendingType DEF SendingInv, SentFromHere, TempIsHere, AllOfCurrent
<1> QED
  BY <1>1, <1>3, <1>4 DEF ChatInv

\* The conversations and what is on its way change, not what is shown.
LEMMA ScreenStays ==
  ASSUME ChatInv, ChatTypeOK', UNCHANGED <<current, messages, temp, isSending, sending>>,
         calls' \subseteq calls, ~moved' => ~moved
  PROVE  ChatInv'
BY DEF ChatInv, SendingInv, SentFromHere, TempIsHere, AllOfCurrent

\* Another conversation is shown.
LEMMA LeavesKeeps ==
  ASSUME ChatInv, ChatTypeOK', Leaves, temp' = NoTemp, UNCHANGED <<isSending, sending>>,
         NoChat \notin messages', messages' \cup calls' \subseteq {current'}
  PROVE  ChatInv'
<1>1. SendingInv'
  BY DEF ChatInv, SendingInv
<1>2. TempIsHere' /\ AllOfCurrent'
  BY NotSendingType DEF TempIsHere, AllOfCurrent
<1>3. ASSUME ~moved' PROVE SentFromHere'
  <2>1. sending = NotSending
    BY <1>3, Zenon DEF Leaves
  <2> QED
    BY <2>1 DEF SentFromHere
<1> QED
  BY <1>1, <1>2, <1>3 DEF ChatInv

\* A reply comes: what is displayed stays of one conversation if it was of none
\* or of that one.
LEMMA ReplyKeeps ==
  ASSUME ChatInv, ChatTypeOK', NEW c \in Chats, Reply(c),
         ~moved' => current' = c /\ messages \subseteq {c}
  PROVE  ChatInv'
<1>1. SendingInv' /\ SentFromHere' /\ TempIsHere'
  BY NotSendingType DEF Reply, SendingInv, SentFromHere, TempIsHere
<1>2. NoChat \notin messages'
  BY NoChatAssumption DEF Reply, ChatInv
<1>3. ~moved' => AllOfCurrent'
  BY DEF Reply, AllOfCurrent
<1> QED
  BY <1>1, <1>2, <1>3 DEF ChatInv

LEMMA ChatInvNext == ChatInv /\ [ChatNext]_chatVars => ChatInv'
<1> SUFFICES ASSUME ChatInv, [ChatNext]_chatVars PROVE ChatInv'
  OBVIOUS
<1>0. ChatTypeOK /\ SendingInv
  BY DEF ChatInv
<1>1. ASSUME OpenChat PROVE ChatInv'
  <2>1. ChatTypeOK'
    BY <1>0, <1>1 DEF OpenChat, ChatTypeOK
  <2> QED
    BY <1>1, <2>1, ScreenStays DEF OpenChat
<1>2. ASSUME ChatsFetched PROVE ChatInv'
  <2>1. ChatTypeOK'
    BY <1>0, <1>2 DEF ChatsFetched, ChatTypeOK
  <2> QED
    BY <1>2, <2>1, ScreenStays DEF ChatsFetched
<1>3. ASSUME NewChat PROVE ChatInv'
  <2>1. moved' \in BOOLEAN
    BY <1>3, Zenon DEF NewChat, Leaves
  <2>2. ChatTypeOK'
    BY <1>0, <1>3, <2>1, NotSendingType DEF NewChat, ChatTypeOK
  <2> QED
    BY <1>3, <2>2, LeavesKeeps DEF NewChat
<1>4. ASSUME SendChat PROVE ChatInv'
  <2>1. /\ sending' = [phase |-> "chat", to |-> current, of |-> NoChat] /\ isSending' = TRUE
        /\ temp' = [shown |-> TRUE, of |-> current]
        /\ UNCHANGED <<exists, known, current, messages, calls, busy, selects, fetching, deletes, moved>>
    BY <1>4 DEF SendChat
  <2>2. ChatTypeOK'
    <3>1. /\ sending' \in [phase : {"none", "chat", "list"}, to : Chats \cup {NoChat},
                           of : Chats \cup {NoChat}]
          /\ temp' \in [shown : BOOLEAN, of : Chats \cup {NoChat}]
      BY <1>0, <2>1 DEF ChatTypeOK
    <3>2. isSending' \in BOOLEAN
      BY <2>1, Zenon
    <3> QED
      BY <1>0, <2>1, <3>1, <3>2 DEF ChatTypeOK
  <2>3. SendingInv' /\ SentFromHere' /\ TempIsHere'
    BY <2>1, NotSendingType DEF SendingInv, SentFromHere, TempIsHere
  <2>4. ~moved' => AllOfCurrent'
    BY <2>1 DEF ChatInv, AllOfCurrent
  <2> QED
    BY <2>1, <2>2, <2>3, <2>4 DEF ChatInv
<1>5. ASSUME ChatAnswered PROVE ChatInv'
  <2>1. sending.to \in Chats /\ Reply(sending.to) /\ sending # NotSending
    BY <1>0, <1>5, NotSendingType DEF ChatAnswered, ChatTypeOK
  <2>2. ChatTypeOK'
    BY <1>0, <1>5, <2>1, NotSendingType DEF ChatAnswered, Reply, ChatTypeOK
  <2>3. ~moved' => current' = sending.to /\ messages \subseteq {sending.to}
    BY <1>5, <2>1 DEF ChatAnswered, ChatInv, SentFromHere, AllOfCurrent
  <2>4. PICK c \in Chats : c = sending.to
    BY <2>1
  <2> QED
    BY <2>1, <2>2, <2>3, <2>4, ReplyKeeps
<1>6. ASSUME ChatFound PROVE ChatInv'
  <2>1. sending.of \in Chats /\ Reply(sending.of) /\ sending.to = NoChat /\ sending # NotSending
    BY <1>0, <1>6, NotSendingType DEF ChatFound, SendingInv
  <2>2. moved' \in BOOLEAN /\ (~moved' => ~moved /\ sending.of \in exists)
    BY <1>0, <1>6, Zenon DEF ChatFound, ChatTypeOK
  <2>3. ChatTypeOK'
    BY <1>0, <1>6, <2>1, <2>2, NotSendingType DEF ChatFound, Reply, ChatTypeOK
  <2>4. ~moved' => current' = sending.of /\ messages \subseteq {sending.of}
    BY <1>6, <2>1, <2>2 DEF ChatFound, ChatInv, SentFromHere, AllOfCurrent
  <2>5. PICK c \in Chats : c = sending.of
    BY <2>1
  <2> QED
    BY <2>1, <2>3, <2>4, <2>5, ReplyKeeps
<1>7. ASSUME SendFails PROVE ChatInv'
  <2>1. ChatTypeOK'
    BY <1>0, <1>7, NotSendingType DEF SendFails, ChatTypeOK
  <2>2. SendingInv' /\ SentFromHere' /\ TempIsHere'
    BY <1>7, NotSendingType DEF SendFails, SendingInv, SentFromHere, TempIsHere
  <2>3. ~moved' => AllOfCurrent'
    BY <1>7 DEF SendFails, ChatInv, AllOfCurrent
  <2> QED
    BY <1>7, <2>1, <2>2, <2>3 DEF SendFails, ChatInv
<1>8. ASSUME NEW c \in Chats, SelectChat(c) PROVE ChatInv'
  <2>1. ChatTypeOK'
    BY <1>0, <1>8 DEF SelectChat, ChatTypeOK
  <2> QED
    BY <1>8, <2>1, ScreenStays DEF SelectChat
<1>9. ASSUME NEW c \in Chats, ChatSelected(c) PROVE ChatInv'
  <2>1. moved' \in BOOLEAN
    BY <1>9, Zenon DEF ChatSelected, Leaves
  <2>2. ChatTypeOK'
    BY <1>0, <1>9, <2>1, NotSendingType DEF ChatSelected, ChatTypeOK
  <2> QED
    BY <1>9, <2>2, LeavesKeeps, NoChatAssumption DEF ChatSelected
<1>10. ASSUME NEW c \in Chats, SelectFails(c) PROVE ChatInv'
  <2>1. ChatTypeOK'
    BY <1>0, <1>10 DEF SelectFails, ChatTypeOK
  <2> QED
    BY <1>10, <2>1, ScreenStays DEF SelectFails
<1>11. ASSUME NEW c \in Chats, DeleteChat(c) PROVE ChatInv'
  <2>1. ChatTypeOK'
    BY <1>0, <1>11 DEF DeleteChat, ChatTypeOK
  <2> QED
    BY <1>11, <2>1, ScreenStays DEF DeleteChat
<1>12. ASSUME NEW c \in Chats, ChatDeleted(c) PROVE ChatInv'
  <2>1. CASE current = c
    <3>1. /\ current' = NoChat /\ messages' = {} /\ calls' = {} /\ temp' = NoTemp /\ Leaves
          /\ deletes' \subseteq deletes
          /\ UNCHANGED <<exists, known, busy, isSending, sending, selects, fetching>>
      BY <1>12, <2>1 DEF ChatDeleted
    <3>2. moved' \in BOOLEAN
      BY <3>1, Zenon DEF Leaves
    <3>3. ChatTypeOK'
      BY <1>0, <3>1, <3>2, NotSendingType DEF ChatTypeOK
    <3> QED
      BY <3>1, <3>3, LeavesKeeps
  <2>2. CASE current # c
    <3>1. /\ UNCHANGED <<exists, known, current, messages, calls, temp, busy, isSending, sending,
                         selects, fetching>>
          /\ deletes' \subseteq deletes
          /\ moved' = (moved \/ sending.of = c)
      BY <1>12, <2>2 DEF ChatDeleted
    <3>2. moved' \in BOOLEAN /\ (~moved' => ~moved)
      BY <1>0, <3>1, Zenon DEF ChatTypeOK
    <3>3. ChatTypeOK'
      BY <1>0, <3>1, <3>2 DEF ChatTypeOK
    <3> QED
      BY <3>1, <3>2, <3>3, ScreenStays
  <2> QED
    BY <2>1, <2>2
<1>13. ASSUME NEW c \in Chats, DeleteFails(c) PROVE ChatInv'
  <2>1. ChatTypeOK'
    BY <1>0, <1>13 DEF DeleteFails, ChatTypeOK
  <2> QED
    BY <1>13, <2>1, ScreenStays DEF DeleteFails
<1>14. ASSUME NEW c \in Chats, ChatCreated(c) PROVE ChatInv'
  <2>1. /\ sending' = [sending EXCEPT !.phase = "list", !.of = c]
        /\ sending \in [phase : {"none", "chat", "list"}, to : Chats \cup {NoChat},
                        of : Chats \cup {NoChat}]
        /\ sending.phase = "chat" /\ sending.to = NoChat
    BY <1>0, <1>14 DEF ChatCreated, ChatTypeOK
  <2>2. /\ sending' \in [phase : {"none", "chat", "list"}, to : Chats \cup {NoChat},
                         of : Chats \cup {NoChat}]
        /\ sending'.phase = "list" /\ sending'.to = NoChat /\ sending'.of = c
        /\ sending' # NotSending /\ sending # NotSending
    BY <2>1, NotSendingType
  <2>3. ChatTypeOK'
    BY <1>0, <1>14, <2>2 DEF ChatCreated, ChatTypeOK
  <2>4. SendingInv'
    BY <1>0, <1>14, <2>2 DEF ChatCreated, SendingInv
  <2>5. ~moved' => SentFromHere' /\ TempIsHere' /\ AllOfCurrent'
    BY <1>14, <2>1, <2>2 DEF ChatCreated, ChatInv, SentFromHere, TempIsHere, AllOfCurrent
  <2> QED
    BY <1>14, <2>3, <2>4, <2>5 DEF ChatCreated, ChatInv
<1>15. CASE UNCHANGED chatVars
  <2>1. ChatTypeOK'
    BY <1>0, <1>15 DEF chatVars, ChatTypeOK
  <2> QED
    BY <1>15, <2>1, ScreenStays DEF chatVars
<1> QED
  BY <1>1, <1>2, <1>3, <1>4, <1>5, <1>6, <1>7, <1>8, <1>9, <1>10, <1>11, <1>12, <1>13, <1>14, <1>15
  DEF ChatNext

LEMMA ChatFromInv == ChatInv => ChatIsOfConversation
BY DEF ChatInv, ChatIsOfConversation, SendingInv, TempIsHere, AllOfCurrent, DisplayedMessages,
       DisplayedCalls

-----------------------------------------------------------------------------
(* RecoveryWizard, for any hosts: what is restored is of the node named.    *)

\* Until a list fails to come or is picked from too early, it is asked for of the
\* node of the page, and what is there and is picked from is of that node.
ListIsOfHost == asks \subseteq {host} /\ (asks = {} /\ host # NoHost => backups \in {host, NoHost})
PickIsOfHost == backup \in {host, NoHost}
RestoreIsOfHost == restoring # NoRestore => restoring.of = restoring.named

WizardInv == WizardTypeOK /\ (~hasty => ListIsOfHost /\ PickIsOfHost /\ RestoreIsOfHost)

LEMMA WizardInvInit == WizardInit => WizardInv
<1> SUFFICES ASSUME WizardInit PROVE WizardInv
  OBVIOUS
<1>1. NoRestore \in [of : Hosts \cup {NoHost}, named : Hosts \cup {NoHost}]
  BY DEF NoRestore
<1>2. restoring \in [of : Hosts \cup {NoHost}, named : Hosts \cup {NoHost}]
  BY <1>1 DEF WizardInit
<1>3. WizardTypeOK
  <2>1. stage \in 0 .. 4 /\ scenario \in {"none", "config-restore", "other"}
    BY DEF WizardInit
  <2>2. {host, backup, backups, result} \subseteq Hosts \cup {NoHost} /\ asks \subseteq Hosts
    BY DEF WizardInit
  <2>3. ticked \in BOOLEAN /\ hasty \in BOOLEAN
    BY DEF WizardInit
  <2> QED
    BY <1>2, <2>1, <2>2, <2>3 DEF WizardTypeOK
<1>4. ListIsOfHost /\ PickIsOfHost /\ RestoreIsOfHost
  BY DEF WizardInit, ListIsOfHost, PickIsOfHost, RestoreIsOfHost
<1> QED
  BY <1>3, <1>4 DEF WizardInv

LEMMA WizardInvNext == WizardInv /\ [WizardNext]_wizardVars => WizardInv'
<1> SUFFICES ASSUME WizardInv, [WizardNext]_wizardVars PROVE WizardInv'
  OBVIOUS
<1>0. WizardTypeOK
  BY DEF WizardInv
<1> DEFINE AsItWas == asks' = asks /\ host' = host /\ backups' = backups /\ backup' = backup
                   /\ restoring' = restoring /\ hasty' = hasty
<1>a. ASSUME WizardTypeOK', AsItWas PROVE WizardInv'
  BY <1>a DEF WizardInv, ListIsOfHost, PickIsOfHost, RestoreIsOfHost
<1>1. ASSUME NEW n \in 0 .. 4, SetStep(n) PROVE WizardInv'
  BY <1>0, <1>1, <1>a DEF SetStep, WizardTypeOK
<1>2. ASSUME NEW s \in {"config-restore", "other"}, PickScenario(s) PROVE WizardInv'
  BY <1>0, <1>2, <1>a DEF PickScenario, WizardTypeOK
<1>3. ASSUME NEW n \in Hosts, PickHost(n) PROVE WizardInv'
  <2>1. hasty' \in BOOLEAN /\ (~hasty' => ~hasty /\ asks = {})
    BY <1>0, <1>3, Zenon DEF PickHost, WizardTypeOK
  <2>2. WizardTypeOK'
    BY <1>0, <1>3, <2>1 DEF PickHost, WizardTypeOK
  <2>3. ASSUME ~hasty' PROVE ListIsOfHost' /\ PickIsOfHost' /\ RestoreIsOfHost'
    BY <1>3, <2>1, <2>3 DEF PickHost, WizardInv, ListIsOfHost, PickIsOfHost, RestoreIsOfHost
  <2> QED
    BY <2>2, <2>3 DEF WizardInv
<1>4. ASSUME NEW n \in Hosts, BackupsListed(n) PROVE WizardInv'
  <2>1. hasty' \in BOOLEAN
    BY <1>0, <1>4, Zenon DEF BackupsListed, WizardTypeOK
  <2>2. WizardTypeOK'
    BY <1>0, <1>4, <2>1 DEF BackupsListed, WizardTypeOK
  <2>3. ASSUME ~hasty' PROVE ListIsOfHost' /\ PickIsOfHost' /\ RestoreIsOfHost'
    <3>1. ~hasty /\ backups' \in {n, NoHost}
      BY <1>4, <2>3 DEF BackupsListed
    <3> QED
      BY <1>4, <3>1 DEF BackupsListed, WizardInv, ListIsOfHost, PickIsOfHost, RestoreIsOfHost
  <2> QED
    BY <2>2, <2>3 DEF WizardInv
<1>5. ASSUME PickBackup PROVE WizardInv'
  <2>1. hasty' \in BOOLEAN /\ (~hasty' => ~hasty /\ asks = {})
    BY <1>0, <1>5, Zenon DEF PickBackup, WizardTypeOK
  <2>2. WizardTypeOK'
    BY <1>0, <1>5, <2>1 DEF PickBackup, WizardTypeOK
  <2>3. ASSUME ~hasty' PROVE ListIsOfHost' /\ PickIsOfHost' /\ RestoreIsOfHost'
    BY <1>5, <2>1, <2>3 DEF PickBackup, WizardInv, ListIsOfHost, PickIsOfHost, RestoreIsOfHost
  <2> QED
    BY <2>2, <2>3 DEF WizardInv
<1>6. ASSUME StartRestore PROVE WizardInv'
  <2>1. restoring' = [of |-> backup, named |-> host]
    BY <1>6 DEF StartRestore
  <2>2. WizardTypeOK'
    BY <1>0, <1>6, <2>1 DEF StartRestore, WizardTypeOK
  <2> QED
    BY <1>6, <2>1, <2>2 DEF StartRestore, WizardInv, ListIsOfHost, PickIsOfHost, RestoreIsOfHost
<1>7. ASSUME Restored PROVE WizardInv'
  <2>1. WizardTypeOK'
    BY <1>0, <1>7 DEF Restored, WizardTypeOK, NoRestore
  <2> QED
    BY <1>7, <2>1 DEF Restored, WizardInv, ListIsOfHost, PickIsOfHost, RestoreIsOfHost
<1>8. ASSUME CheckItem PROVE WizardInv'
  <2>1. ticked' \in BOOLEAN
    BY <1>8, Zenon DEF CheckItem
  <2> QED
    BY <1>0, <1>8, <2>1, <1>a DEF CheckItem, WizardTypeOK
<1>9. CASE UNCHANGED wizardVars
  BY <1>0, <1>9, <1>a DEF wizardVars, WizardTypeOK
<1> QED
  BY <1>1, <1>2, <1>3, <1>4, <1>5, <1>6, <1>7, <1>8, <1>9 DEF WizardNext

LEMMA WizardFromInv == WizardInv => RestoreHitsNamedNode
BY DEF WizardInv, RestoreHitsNamedNode, RestoreIsOfHost

\* What the filter of the active ones makes of a list of none or one.
LEMMA RunningOfNone == Running(<<>>) = <<>>
<1> DEFINE q == <<>>
           body(g) == [i \in 0 .. Len(q) |->
                         IF i = 0 THEN <<>>
                         ELSE IF q[i] \in RunStates THEN Append(g[i - 1], q[i]) ELSE g[i - 1]]
           kept == CHOOSE g : g = body(g)
<1>1. [i \in {0} |-> <<>>] = body([i \in {0} |-> <<>>])
  OBVIOUS
<1>2. kept = body(kept)
  BY <1>1
<1>3. kept[0] = <<>>
  BY <1>2
<1>4. Running(<<>>) = kept[Len(q)]
  BY DEF Running
<1> QED
  BY <1>3, <1>4

LEMMA RunningOfOne == ASSUME NEW s PROVE Running(<<s>>) = IF s \in RunStates THEN <<s>> ELSE <<>>
<1> DEFINE q == <<s>>
           body(g) == [i \in 0 .. Len(q) |->
                         IF i = 0 THEN <<>>
                         ELSE IF q[i] \in RunStates THEN Append(g[i - 1], q[i]) ELSE g[i - 1]]
           kept == CHOOSE g : g = body(g)
           filtered == [i \in 0 .. 1 |-> IF i = 1 /\ s \in RunStates THEN <<s>> ELSE <<>>]
<1>1. filtered = body(filtered)
  OBVIOUS
<1>2. kept = body(kept)
  BY <1>1
<1>3. PICK k : k = kept
  OBVIOUS
<1>4. k = [i \in 0 .. 1 |-> IF i = 0 THEN <<>>
                            ELSE IF q[i] \in RunStates THEN Append(k[i - 1], q[i]) ELSE k[i - 1]]
  <2>1. Len(q) = 1
    OBVIOUS
  <2> QED
    BY <1>2, <1>3, <2>1
<1>5. k[0] = <<>> /\ k[1] = IF s \in RunStates THEN Append(k[0], s) ELSE k[0]
  <2>1. q[1] = s
    OBVIOUS
  <2> HIDE DEF q
  <2>2. k[0] = <<>>
    BY <1>4
  <2>3. k[1] = IF q[1] \in RunStates THEN Append(k[1 - 1], q[1]) ELSE k[1 - 1]
    BY <1>4
  <2>4. 1 - 1 = 0
    OBVIOUS
  <2> QED
    BY <2>1, <2>2, <2>3, <2>4
<1>6. Append(<<>>, s) = <<s>>
  OBVIOUS
<1>7. Running(<<s>>) = kept[Len(q)] /\ Len(q) = 1
  BY DEF Running
<1> QED
  BY <1>3, <1>5, <1>6, <1>7

-----------------------------------------------------------------------------
(* MigrationBoard, for any migrations, listings and messages: the lists of  *)
(* the store agree, and are the server's once nothing is on its way.        *)

Get == [phase : {"idle", "asked", "taken"}, snap : [Migrations -> RowStates \cup {"none", "gone"}],
        since : SUBSET Migrations]
Order == [kind : {"none", "start", "cancel", "delete", "retry"}, done : BOOLEAN, new : SUBSET Migrations]
Push == [id : Migrations, status : RowStates]

PerMigration(a) == a = [m \in Migrations |-> a[m]]

BoardShape ==
  /\ row \in [Migrations -> RowStates \cup {"none", "gone"}]
  /\ pushes \in Seq(Push) /\ (~up => pushes = <<>>)
  /\ rows \in [Migrations -> Seq(RowStates)] /\ PerMigration(active)
  /\ listing \in [ListSlots -> Get] /\ command \in [Migrations -> Order]

\* What the messages of q say last of a migration is how it is, unless it has been
\* deleted since; and nothing is said of one that has not begun to run.
LastTold(q, rw) ==
  \A i \in DOMAIN q : (\A j \in DOMAIN q : j > i => q[j].id # q[i].id)
                      => rw[q[i].id] \in {q[i].status, "gone"}
AllMoved(q, rw) == \A i \in DOMAIN q : rw[q[i].id] \notin {"none", "pending"}

\* A listing that is taken knows all but what has changed since.
TakenIsKnown ==
  \A k \in ListSlots : listing[k].phase = "taken" =>
    \A m \in Migrations \ listing[k].since : listing[k].snap[m] = row[m]

\* A row that a command is to make is there once it is carried out, and of no other
\* command; one that it has deleted is gone.
CommandInv ==
  /\ \A m \in Migrations :
       /\ ~command[m].done => \A n \in command[m].new : row[n] = "none"
       /\ command[m].kind = "start" => command[m].new = {m}
       /\ command[m].kind \notin {"start", "retry"} => command[m].new = {}
       /\ command[m].kind = "delete" /\ command[m].done => row[m] = "gone"
       /\ command[m].kind = "retry" => \A n1, n2 \in command[m].new : n1 = n2
  /\ \A k, m \in Migrations : k # m => command[k].new \cap command[m].new = {}

\* Migrations that a command of the page may have changed, which it is told by the answer.
Busy(m) == \/ command[m].kind \in {"delete", "retry"}
           \/ \E k \in Migrations : command[k].kind = "retry" /\ m \in command[k].new

\* How the list shows a row.
AsShown(s) == IF s \in RowStates THEN <<s>> ELSE <<>>

\* Where nothing is on its way, and nothing was missed, the list is right.
FreshInv ==
  \A m \in Migrations \ (stale \cup tangled) :
    ~Queued(m, pushes) /\ ~Busy(m) => rows[m] = AsShown(row[m])

BoardInv ==
  /\ BoardShape /\ LastTold(pushes, row) /\ AllMoved(pushes, row)
  /\ TakenIsKnown /\ CommandInv /\ ListsAgree /\ FreshInv

-----------------------------------------------------------------------------
(* The messages on their way.                                               *)

LEMMA Queues ==
  ASSUME NEW q \in Seq(Push)
  PROVE  /\ \A m : ~Queued(m, <<>>)
         /\ \A e \in Push : /\ Append(q, e) \in Seq(Push)
                            /\ \A m : Queued(m, Append(q, e)) <=> Queued(m, q) \/ e.id = m
         /\ q # <<>> => /\ Head(q) \in Push /\ Tail(q) \in Seq(Push)
                        /\ \A m : Queued(m, q) <=> Queued(m, Tail(q)) \/ Head(q).id = m
<1>1. \A m : ~Queued(m, <<>>)
  BY DEF Queued
<1>2. ASSUME NEW e \in Push
      PROVE  /\ Append(q, e) \in Seq(Push)
             /\ \A m : Queued(m, Append(q, e)) <=> Queued(m, q) \/ e.id = m
  <2>1. /\ Append(q, e) \in Seq(Push) /\ DOMAIN q = 1 .. Len(q) /\ Len(q) \in Nat
        /\ DOMAIN Append(q, e) = 1 .. Len(q) + 1 /\ Append(q, e)[Len(q) + 1] = e
        /\ \A i \in DOMAIN q : Append(q, e)[i] = q[i]
    OBVIOUS
  <2>2. DOMAIN Append(q, e) = DOMAIN q \cup {Len(q) + 1}
    BY <2>1
  <2> QED
    BY <2>1, <2>2, Zenon DEF Queued
<1>3. ASSUME q # <<>>
      PROVE  /\ Head(q) \in Push /\ Tail(q) \in Seq(Push)
             /\ \A m : Queued(m, q) <=> Queued(m, Tail(q)) \/ Head(q).id = m
  <2>1. /\ Head(q) \in Push /\ Tail(q) \in Seq(Push) /\ Len(q) \in Nat \ {0} /\ Head(q) = q[1]
        /\ DOMAIN q = 1 .. Len(q) /\ DOMAIN Tail(q) = 1 .. Len(q) - 1
        /\ \A i \in 1 .. Len(q) - 1 : Tail(q)[i] = q[i + 1]
    BY <1>3
  <2>2. ASSUME NEW m, Queued(m, q) PROVE Queued(m, Tail(q)) \/ Head(q).id = m
    <3>1. PICK i \in DOMAIN q : q[i].id = m
      BY <2>2 DEF Queued
    <3>2. CASE i = 1
      BY <2>1, <3>1, <3>2
    <3>3. CASE i # 1
      <4>1. i - 1 \in DOMAIN Tail(q) /\ Tail(q)[i - 1] = q[i]
        BY <2>1, <3>3
      <4> QED
        BY <3>1, <4>1 DEF Queued
    <3> QED
      BY <3>2, <3>3
  <2>3. ASSUME NEW m, Queued(m, Tail(q)) \/ Head(q).id = m PROVE Queued(m, q)
    <3>1. CASE Head(q).id = m
      BY <2>1, <3>1 DEF Queued
    <3>2. CASE Queued(m, Tail(q))
      <4>1. PICK i \in DOMAIN Tail(q) : Tail(q)[i].id = m
        BY <3>2 DEF Queued
      <4>2. i + 1 \in DOMAIN q /\ q[i + 1].id = m
        BY <2>1, <4>1
      <4> QED
        BY <4>2 DEF Queued
    <3> QED
      BY <2>3, <3>1, <3>2
  <2> QED
    BY <2>1, <2>2, <2>3
<1> QED
  BY <1>1, <1>2, <1>3

LEMMA PushesAre ==
  ASSUME NEW q \in Seq(Push)
  PROVE  /\ DOMAIN q = 1 .. Len(q) /\ Len(q) \in Nat
         /\ \A i \in DOMAIN q : q[i].id \in Migrations /\ q[i].status \in RowStates
<1>1. DOMAIN q = 1 .. Len(q) /\ Len(q) \in Nat /\ \A i \in DOMAIN q : q[i] \in Push
  OBVIOUS
<1> QED
  BY <1>1 DEF Push

LEMMA NothingTold == ASSUME NEW rw PROVE LastTold(<<>>, rw) /\ AllMoved(<<>>, rw)
BY DEF LastTold, AllMoved

\* The last message that is taken out tells how it is.
LEMMA ToldByHead ==
  ASSUME NEW q \in Seq(Push), NEW rw, q # <<>>, LastTold(q, rw), AllMoved(q, rw)
  PROVE  /\ LastTold(Tail(q), rw) /\ AllMoved(Tail(q), rw)
         /\ ~Queued(Head(q).id, Tail(q)) => rw[Head(q).id] \in {Head(q).status, "gone"}
<1>1. /\ Len(q) \in Nat \ {0} /\ Head(q) = q[1]
      /\ DOMAIN q = 1 .. Len(q) /\ DOMAIN Tail(q) = 1 .. Len(q) - 1
      /\ \A i \in 1 .. Len(q) - 1 : Tail(q)[i] = q[i + 1]
  OBVIOUS
<1>2. AllMoved(Tail(q), rw)
  <2> SUFFICES ASSUME NEW i \in DOMAIN Tail(q) PROVE rw[Tail(q)[i].id] \notin {"none", "pending"}
    BY DEF AllMoved
  <2>1. i + 1 \in DOMAIN q /\ Tail(q)[i] = q[i + 1]
    BY <1>1
  <2> QED
    BY <2>1 DEF AllMoved
<1>3. LastTold(Tail(q), rw)
  <2> SUFFICES ASSUME NEW i \in DOMAIN Tail(q),
                      \A j \in DOMAIN Tail(q) : j > i => Tail(q)[j].id # Tail(q)[i].id
               PROVE  rw[Tail(q)[i].id] \in {Tail(q)[i].status, "gone"}
    BY DEF LastTold
  <2>1. i + 1 \in DOMAIN q /\ Tail(q)[i] = q[i + 1]
    BY <1>1
  <2>2. ASSUME NEW j \in DOMAIN q, j > i + 1 PROVE q[j].id # q[i + 1].id
    <3>1. j - 1 \in DOMAIN Tail(q) /\ Tail(q)[j - 1] = q[j] /\ j - 1 > i
      BY <1>1, <2>2
    <3> QED
      BY <2>1, <3>1
  <2> QED
    BY <2>1, <2>2 DEF LastTold
<1>4. ASSUME ~Queued(Head(q).id, Tail(q)) PROVE rw[Head(q).id] \in {Head(q).status, "gone"}
  <2>1. ASSUME NEW j \in DOMAIN q, j > 1 PROVE q[j].id # q[1].id
    <3>1. j - 1 \in DOMAIN Tail(q) /\ Tail(q)[j - 1] = q[j]
      BY <1>1, <2>1
    <3> QED
      BY <1>1, <1>4, <3>1 DEF Queued
  <2>2. 1 \in DOMAIN q
    BY <1>1
  <2> QED
    BY <1>1, <2>1, <2>2 DEF LastTold
<1> QED
  BY <1>2, <1>3, <1>4

\* A row moves, and the message says how.
LEMMA ToldByLast ==
  ASSUME NEW q \in Seq(Push), NEW e \in Push, NEW rw \in [Migrations -> RowStates \cup {"none", "gone"}],
         LastTold(q, rw), AllMoved(q, rw), e.status # "pending", NEW r2, r2 = [rw EXCEPT ![e.id] = e.status]
  PROVE  LastTold(Append(q, e), r2) /\ AllMoved(Append(q, e), r2)
<1>1. /\ DOMAIN q = 1 .. Len(q) /\ Len(q) \in Nat
      /\ DOMAIN Append(q, e) = 1 .. Len(q) + 1 /\ Append(q, e)[Len(q) + 1] = e
      /\ \A i \in DOMAIN q : Append(q, e)[i] = q[i] /\ q[i].id \in Migrations
  BY PushesAre
<1>2. e.id \in Migrations /\ e.status \in RowStates /\ r2[e.id] = e.status
      /\ \A m \in Migrations \ {e.id} : r2[m] = rw[m]
  <2>1. e.id \in Migrations /\ e.status \in RowStates
    BY DEF Push
  <2> QED
    BY <2>1
<1>3. "none" \notin RowStates
  BY DEF RowStates, RunStates, EndStates
<1>4. ASSUME NEW i \in DOMAIN Append(q, e) PROVE r2[Append(q, e)[i].id] \notin {"none", "pending"}
  <2>1. CASE Append(q, e)[i].id = e.id
    BY <1>2, <1>3, <2>1
  <2>2. CASE Append(q, e)[i].id # e.id
    <3>1. i \in DOMAIN q
      BY <1>1, <2>2
    <3> QED
      BY <1>1, <1>2, <2>2, <3>1 DEF AllMoved
  <2> QED
    BY <2>1, <2>2
<1>5. ASSUME NEW i \in DOMAIN Append(q, e),
             \A j \in DOMAIN Append(q, e) : j > i => Append(q, e)[j].id # Append(q, e)[i].id
      PROVE  r2[Append(q, e)[i].id] \in {Append(q, e)[i].status, "gone"}
  <2>1. CASE i = Len(q) + 1
    BY <1>1, <1>2, <2>1
  <2>2. CASE i # Len(q) + 1
    <3>1. i \in DOMAIN q /\ Append(q, e)[i] = q[i]
      BY <1>1, <2>2
    <3>2. Len(q) + 1 \in DOMAIN Append(q, e) /\ Len(q) + 1 > i
      BY <1>1, <3>1
    <3>3. q[i].id # e.id
      BY <1>1, <1>5, <3>1, <3>2
    <3>4. \A j \in DOMAIN q : j > i => q[j].id # q[i].id
      <4> SUFFICES ASSUME NEW j \in DOMAIN q, j > i PROVE q[j].id # q[i].id
        OBVIOUS
      <4>1. j \in DOMAIN Append(q, e) /\ Append(q, e)[j] = q[j]
        BY <1>1
      <4> QED
        BY <1>5, <3>1, <4>1
    <3>5. rw[q[i].id] \in {q[i].status, "gone"}
      BY <3>1, <3>4 DEF LastTold
    <3> QED
      BY <1>1, <1>2, <3>1, <3>3, <3>5
  <2> QED
    BY <2>1, <2>2
<1> QED
  BY <1>4, <1>5 DEF LastTold, AllMoved

\* No message contradicts a row that is deleted, or one that is made.
LEMMA ToldOfOthers ==
  ASSUME NEW q \in Seq(Push), NEW rw \in [Migrations -> RowStates \cup {"none", "gone"}],
         LastTold(q, rw), AllMoved(q, rw), NEW m \in Migrations, NEW s, NEW r2, r2 = [rw EXCEPT ![m] = s],
         s = "gone" \/ rw[m] = "none"
  PROVE  LastTold(q, r2) /\ AllMoved(q, r2)
<1>1. \A i \in DOMAIN q : q[i].id \in Migrations
  BY PushesAre
<1>2. \A n \in Migrations : r2[n] = IF n = m THEN s ELSE rw[n]
  OBVIOUS
<1>3. CASE s = "gone"
  <2>1. AllMoved(q, r2)
    BY <1>1, <1>2, <1>3 DEF AllMoved
  <2>2. LastTold(q, r2)
    <3> SUFFICES ASSUME NEW i \in DOMAIN q, \A j \in DOMAIN q : j > i => q[j].id # q[i].id
                 PROVE  r2[q[i].id] \in {q[i].status, "gone"}
      BY DEF LastTold
    <3>1. rw[q[i].id] \in {q[i].status, "gone"}
      BY DEF LastTold
    <3> QED
      BY <1>1, <1>2, <1>3, <3>1
  <2> QED
    BY <2>1, <2>2
<1>4. CASE rw[m] = "none"
  <2>1. \A i \in DOMAIN q : q[i].id # m
    BY <1>4 DEF AllMoved
  <2>2. \A i \in DOMAIN q : r2[q[i].id] = rw[q[i].id]
    BY <1>1, <1>2, <2>1
  <2>3. AllMoved(q, r2)
    BY <2>2 DEF AllMoved
  <2>4. LastTold(q, r2)
    <3> SUFFICES ASSUME NEW i \in DOMAIN q, \A j \in DOMAIN q : j > i => q[j].id # q[i].id
                 PROVE  r2[q[i].id] \in {q[i].status, "gone"}
      BY DEF LastTold
    <3>1. rw[q[i].id] \in {q[i].status, "gone"}
      BY DEF LastTold
    <3> QED
      BY <2>2, <3>1
  <2> QED
    BY <2>3, <2>4
<1> QED
  BY <1>3, <1>4

-----------------------------------------------------------------------------
(* What the helpers of the model do to the parts of the invariant.          *)

Told == LastTold(pushes, row) /\ AllMoved(pushes, row)

\* A row changes.
LEMMA SetRowEffect ==
  ASSUME BoardShape, TakenIsKnown, NEW m \in Migrations, NEW s \in RowStates \cup {"gone"}, SetRow(m, s)
  PROVE  /\ row' \in [Migrations -> RowStates \cup {"none", "gone"}]
         /\ row' = [row EXCEPT ![m] = s] /\ row'[m] = s /\ \A n \in Migrations \ {m} : row'[n] = row[n]
         /\ listing' \in [ListSlots -> Get] /\ TakenIsKnown'
<1>1. row' = [row EXCEPT ![m] = s] /\ row \in [Migrations -> RowStates \cup {"none", "gone"}]
  BY DEF SetRow, BoardShape
<1>2. row' \in [Migrations -> RowStates \cup {"none", "gone"}] /\ row'[m] = s
      /\ \A n \in Migrations \ {m} : row'[n] = row[n]
  BY <1>1
<1>3. ASSUME NEW k \in ListSlots
      PROVE  /\ listing'[k] \in Get
             /\ listing'[k].phase = "taken" =>
                  \A n \in Migrations \ listing'[k].since : listing'[k].snap[n] = row'[n]
  <2>1. /\ listing[k] \in Get
        /\ listing'[k] = IF listing[k].phase = "taken"
                         THEN [listing[k] EXCEPT !.since = listing[k].since \cup {m}] ELSE listing[k]
    BY DEF SetRow, BoardShape
  <2>2. CASE listing[k].phase = "taken"
    <3>1. /\ listing'[k] = [listing[k] EXCEPT !.since = listing[k].since \cup {m}]
          /\ listing[k].since \cup {m} \in SUBSET Migrations
      BY <2>1, <2>2 DEF Get
    <3>2. /\ listing'[k] \in Get /\ listing'[k].since = listing[k].since \cup {m}
          /\ listing'[k].snap = listing[k].snap
      BY <2>1, <3>1 DEF Get
    <3> QED
      BY <1>2, <2>2, <3>2 DEF TakenIsKnown
  <2>3. CASE listing[k].phase # "taken"
    BY <2>1, <2>3
  <2> QED
    BY <2>2, <2>3
<1>4. listing' = [k \in ListSlots |-> listing'[k]]
  BY DEF SetRow
<1> QED
  BY <1>1, <1>2, <1>3, <1>4 DEF TakenIsKnown

\* The lists are replaced: what is lost of q is known to be missed.
LEMMA SetBoardEffect ==
  ASSUME NEW r, NEW a, NEW q \in Seq(Push), NEW st, SetBoard(r, a, q, st), ~up => q = <<>>,
         LastTold(q, row), AllMoved(q, row)
  PROVE  /\ rows' = r /\ active' = a
         /\ pushes' \in Seq(Push) /\ (~up' => pushes' = <<>>)
         /\ LastTold(pushes', row) /\ AllMoved(pushes', row)
         /\ \A m \in Migrations : m \notin stale' /\ ~Queued(m, pushes') => m \notin st /\ ~Queued(m, q)
<1>1. rows' = r /\ active' = a
  BY DEF SetBoard
<1>2. CASE \A m \in Migrations : a[m] = <<>>
  <2>1. pushes' = <<>> /\ stale' = st \cup {m \in Migrations : Queued(m, q)}
    BY <1>2 DEF SetBoard
  <2> QED
    BY <1>1, <2>1, NothingTold
<1>3. CASE ~ \A m \in Migrations : a[m] = <<>>
  <2>1. pushes' = q /\ stale' = st /\ up' = up
    BY <1>3 DEF SetBoard
  <2> QED
    BY <1>1, <2>1
<1> QED
  BY <1>2, <1>3

LEMMA FetchListEffect ==
  ASSUME BoardShape, TakenIsKnown, FetchList, row' = row
  PROVE  listing' \in [ListSlots -> Get] /\ TakenIsKnown'
<1>1. PICK k \in ListSlots : listing' = [listing EXCEPT ![k].phase = "asked"]
  BY DEF FetchList
<1>2. listing[k] \in Get /\ [listing[k] EXCEPT !.phase = "asked"] \in Get
  BY DEF BoardShape, Get
<1>3. /\ listing' \in [ListSlots -> Get] /\ listing'[k].phase = "asked"
      /\ \A j \in ListSlots \ {k} : listing'[j] = listing[j]
  <2>1. listing' = [listing EXCEPT ![k] = [listing[k] EXCEPT !.phase = "asked"]]
    BY <1>1
  <2>2. [listing[k] EXCEPT !.phase = "asked"].phase = "asked"
    BY <1>2 DEF Get
  <2> QED
    BY <1>2, <2>1, <2>2 DEF BoardShape
<1> QED
  BY <1>3 DEF TakenIsKnown

\* A command is answered.
LEMMA AnsweredEffect ==
  ASSUME BoardShape, CommandInv, NEW m \in Migrations, Answered(m), row' = row
  PROVE  /\ command' \in [Migrations -> Order] /\ CommandInv'
         /\ \A n \in Migrations : Busy(n) =>
              Busy(n)' \/ (command[m].kind \in {"delete", "retry"} /\ (n = m \/ n \in command[m].new))
<1>1. NoCommand \in Order /\ NoCommand.new = {} /\ NoCommand.kind = "none"
  BY DEF NoCommand, Order
<1>2. /\ command \in [Migrations -> Order] /\ command' = [command EXCEPT ![m] = NoCommand]
  BY DEF BoardShape, Answered
<1>3. /\ command' \in [Migrations -> Order] /\ command'[m] = NoCommand
      /\ \A n \in Migrations \ {m} : command'[n] = command[n]
  BY <1>1, <1>2
<1>4. CommandInv'
  BY <1>1, <1>3 DEF CommandInv
<1>5. ASSUME NEW n \in Migrations, Busy(n)
      PROVE  Busy(n)' \/ (command[m].kind \in {"delete", "retry"} /\ (n = m \/ n \in command[m].new))
  BY <1>3, <1>5 DEF Busy
<1> QED
  BY <1>3, <1>4, <1>5

\* It is carried out, and makes or deletes the row of n.
LEMMA PerformedEffect ==
  ASSUME BoardShape, CommandInv, NEW m \in Migrations, Performed(m), ~command[m].done,
         NEW n \in Migrations, NEW s, row' = [row EXCEPT ![n] = s],
         \/ n \in command[m].new
         \/ command[m].kind = "delete" /\ n = m /\ s = "gone" /\ row[m] # "none"
  PROVE  /\ command' \in [Migrations -> Order] /\ CommandInv'
         /\ \A k \in Migrations : Busy(k) => Busy(k)'
<1>1. command \in [Migrations -> Order] /\ command[m] \in Order
      /\ command' = [command EXCEPT ![m] = [command[m] EXCEPT !.done = TRUE]]
  BY DEF BoardShape, Performed
<1>2. PICK c : c = [command[m] EXCEPT !.done = TRUE]
  OBVIOUS
<1>3. c \in Order /\ c.done = TRUE /\ c.kind = command[m].kind /\ c.new = command[m].new
  BY <1>1, <1>2 DEF Order
<1>4. /\ command' \in [Migrations -> Order] /\ command'[m] = c
      /\ \A k \in Migrations \ {m} : command'[k] = command[k]
  BY <1>1, <1>2, <1>3
<1>5. \A k \in Migrations : row'[k] = IF k = n THEN s ELSE row[k]
  BY DEF BoardShape
<1>6. \A k \in Migrations : command'[k].kind = command[k].kind /\ command'[k].new = command[k].new
  BY <1>3, <1>4
<1>7. command[m].new \subseteq Migrations /\ \A k \in Migrations : command[k].new \subseteq Migrations
  BY <1>1 DEF Order
<1>8. ASSUME NEW k \in Migrations, ~command'[k].done, NEW l \in command'[k].new PROVE row'[l] = "none"
  <2>1. k # m /\ l \in command[k].new /\ row[l] = "none" /\ l \in Migrations
    BY <1>3, <1>4, <1>6, <1>7, <1>8 DEF CommandInv
  <2>2. l # n
    BY <2>1 DEF CommandInv
  <2> QED
    BY <1>5, <2>1, <2>2
<1>9. ASSUME NEW k \in Migrations, command'[k].kind = "delete", command'[k].done PROVE row'[k] = "gone"
  <2>1. CASE k = m
    <3>1. command[m].new = {}
      BY <1>6, <1>9, <2>1 DEF CommandInv
    <3> QED
      BY <1>5, <2>1, <3>1
  <2>2. CASE k # m
    <3>1. row[k] = "gone"
      BY <1>4, <1>9, <2>2 DEF CommandInv
    <3>2. k # n
      BY <2>2, <3>1 DEF CommandInv
    <3> QED
      BY <1>5, <3>1, <3>2
  <2> QED
    BY <2>1, <2>2
<1>10. CommandInv'
  BY <1>6, <1>8, <1>9 DEF CommandInv
<1>11. \A k \in Migrations : Busy(k) => Busy(k)'
  BY <1>6 DEF Busy
<1> QED
  BY <1>4, <1>10, <1>11

\* A row moves, is deleted, or is made by somebody else.
LEMMA CommandsUnaware ==
  ASSUME BoardShape, CommandInv, command' = command, NEW m \in Migrations, NEW s,
         row' = [row EXCEPT ![m] = s], row[m] # "gone", row[m] # "none" \/ \A k \in Migrations : m \notin command[k].new
  PROVE  CommandInv' /\ \A k \in Migrations : Busy(k) => Busy(k)'
<1>1. \A k \in Migrations : row'[k] = IF k = m THEN s ELSE row[k]
  BY DEF BoardShape
<1>2. \A k \in Migrations : command[k].new \subseteq Migrations
  BY DEF BoardShape, Order
<1>3. CommandInv'
  BY <1>1, <1>2 DEF CommandInv
<1> QED
  BY <1>3 DEF Busy

-----------------------------------------------------------------------------
(* The steps.                                                               *)

LEMMA BoardInvInit == BoardInit => BoardInv
<1> SUFFICES ASSUME BoardInit PROVE BoardInv
  OBVIOUS
<1>1. PICK l \in ListSlots : listing = [k \in ListSlots |-> IF k = l THEN [NoGet EXCEPT !.phase = "asked"]
                                                             ELSE NoGet]
  BY DEF BoardInit
<1>2. NoGet \in Get /\ [NoGet EXCEPT !.phase = "asked"] \in Get /\ NoCommand \in Order
      /\ NoGet.phase = "idle" /\ [NoGet EXCEPT !.phase = "asked"].phase = "asked"
  BY DEF NoGet, Get, NoCommand, Order
<1>3. listing \in [ListSlots -> Get] /\ TakenIsKnown
  BY <1>1, <1>2 DEF TakenIsKnown
<1>4. /\ row \in [Migrations -> {"none", "running"}] /\ pushes = <<>> /\ up = FALSE
      /\ rows = [m \in Migrations |-> <<>>] /\ active = [m \in Migrations |-> <<>>]
      /\ command = [m \in Migrations |-> NoCommand]
      /\ stale = {m \in Migrations : row[m] # "none"} /\ tangled = {}
  BY DEF BoardInit
<1>5. /\ row \in [Migrations -> RowStates \cup {"none", "gone"}]
      /\ rows \in [Migrations -> Seq(RowStates)] /\ command \in [Migrations -> Order]
      /\ PerMigration(active) /\ pushes \in Seq(Push)
  <2>1. row \in [Migrations -> RowStates \cup {"none", "gone"}]
    BY <1>4 DEF RowStates, RunStates
  <2>2. <<>> \in Seq(RowStates) /\ <<>> \in Seq(Push)
    OBVIOUS
  <2>3. rows \in [Migrations -> Seq(RowStates)] /\ command \in [Migrations -> Order]
    BY <1>2, <1>4, <2>2
  <2>4. PerMigration(active)
    BY <1>4 DEF PerMigration
  <2> QED
    BY <1>4, <2>1, <2>2, <2>3, <2>4
<1>6. BoardShape
  BY <1>3, <1>4, <1>5 DEF BoardShape
<1>7. CommandInv
  BY <1>4 DEF CommandInv, NoCommand
<1>8. ListsAgree
  <2>1. \A m \in Migrations : rows[m] = <<>> /\ active[m] = <<>>
    BY <1>4
  <2>2. Len(<<>>) <= 1
    OBVIOUS
  <2> QED
    BY <2>1, <2>2, RunningOfNone, Zenon DEF ListsAgree
<1>9. FreshInv
  BY <1>4 DEF FreshInv, AsShown, RowStates, RunStates, EndStates
<1> QED
  BY <1>3, <1>4, <1>6, <1>7, <1>8, <1>9, NothingTold DEF BoardInv

\* The lists stay as they are.
LEMMA ListsStay ==
  ASSUME BoardInv, UNCHANGED <<rows, active, tangled>>,
         \A k \in Migrations : k \notin stale' /\ ~Queued(k, pushes') /\ ~Busy(k)' =>
                                 k \notin stale /\ ~Queued(k, pushes) /\ ~Busy(k) /\ row'[k] = row[k],
         BoardShape', Told', TakenIsKnown', CommandInv'
  PROVE  BoardInv'
<1>1. ListsAgree'
  BY DEF BoardInv, ListsAgree
<1>2. FreshInv'
  <2> SUFFICES ASSUME NEW k \in Migrations, k \notin stale', k \notin tangled', ~Queued(k, pushes'), ~Busy(k)'
               PROVE  rows'[k] = AsShown(row'[k])
    BY DEF FreshInv
  <2>1. rows[k] = AsShown(row[k])
    BY DEF BoardInv, FreshInv
  <2>2. rows'[k] = rows[k] /\ row'[k] = row[k]
    OBVIOUS
  <2> QED
    BY <2>1, <2>2 DEF AsShown
<1> QED
  BY <1>1, <1>2 DEF BoardInv, Told

\* Nothing is said or shown anew.
LEMMA Unseen ==
  ASSUME BoardInv, UNCHANGED <<row, rows, active, tangled>>, stale \subseteq stale',
         \/ pushes' = pushes /\ up' \in {TRUE, up}
         \/ pushes' = <<>> /\ stale' = stale \cup {m \in Migrations : Queued(m, pushes)},
         listing' \in [ListSlots -> Get], TakenIsKnown', command' \in [Migrations -> Order], CommandInv',
         \A k \in Migrations : Busy(k) => Busy(k)' \/ k \in stale'
  PROVE  BoardInv'
<1>0. BoardShape /\ Told
  BY DEF BoardInv, Told
<1>1. pushes' \in Seq(Push) /\ Told' /\ (~up' => pushes' = <<>>)
  <2>1. CASE pushes' = pushes /\ up' \in {TRUE, up}
    BY <1>0, <2>1 DEF BoardShape, Told, LastTold, AllMoved
  <2>2. CASE pushes' = <<>>
    BY <2>2, NothingTold DEF Told
  <2> QED
    BY <2>1, <2>2
<1>2. BoardShape'
  BY <1>0, <1>1 DEF BoardShape
<1>3. \A k \in Migrations : k \notin stale' /\ ~Queued(k, pushes') => ~Queued(k, pushes)
  OBVIOUS
<1>4. \A k \in Migrations : k \notin stale' /\ ~Queued(k, pushes') /\ ~Busy(k)' =>
                              k \notin stale /\ ~Queued(k, pushes) /\ ~Busy(k) /\ row'[k] = row[k]
  BY <1>3
<1>5. UNCHANGED <<rows, active, tangled>> /\ TakenIsKnown' /\ CommandInv'
  OBVIOUS
<1> QED
  BY <1>1, <1>2, <1>4, <1>5, ListsStay

LEMMA SocketSteps == ASSUME BoardInv, SocketUp \/ SocketDown PROVE BoardInv'
<1>0. BoardShape /\ TakenIsKnown /\ CommandInv
  BY DEF BoardInv
<1>1. UNCHANGED <<row, rows, active, listing, command, tangled>>
  BY DEF SocketUp, SocketDown
<1>2. listing' \in [ListSlots -> Get] /\ command' \in [Migrations -> Order]
  BY <1>0, <1>1 DEF BoardShape
<1>3. TakenIsKnown' /\ CommandInv' /\ \A k \in Migrations : Busy(k) => Busy(k)'
  BY <1>0, <1>1 DEF TakenIsKnown, CommandInv, Busy
<1>4. /\ stale \subseteq stale'
      /\ \/ pushes' = pushes /\ up' \in {TRUE, up}
         \/ pushes' = <<>> /\ stale' = stale \cup {m \in Migrations : Queued(m, pushes)}
  BY DEF SocketUp, SocketDown
<1> QED
  BY <1>1, <1>2, <1>3, <1>4, Unseen

LEMMA ListingSteps ==
  ASSUME BoardInv, Revisit \/ \E k \in ListSlots : ListTaken(k) \/ ListLost(k) PROVE BoardInv'
<1>0. BoardShape /\ TakenIsKnown /\ CommandInv
  BY DEF BoardInv
<1>1. UNCHANGED <<row, pushes, up, rows, active, command, stale, tangled>>
  BY DEF Revisit, ListTaken, ListLost
<1>2. listing' \in [ListSlots -> Get] /\ TakenIsKnown'
  <2>1. CASE Revisit
    BY <1>0, <1>1, <2>1, FetchListEffect DEF Revisit
  <2>2. ASSUME NEW k \in ListSlots, ListTaken(k) PROVE listing' \in [ListSlots -> Get] /\ TakenIsKnown'
    <3>1. PICK g : g = [phase |-> "taken", snap |-> row, since |-> {}]
      OBVIOUS
    <3>2. g \in Get /\ g.snap = row
      BY <1>0, <3>1 DEF BoardShape, Get
    <3>3. listing' = [listing EXCEPT ![k] = g]
      BY <2>2, <3>1 DEF ListTaken
    <3>4. listing'[k] = g /\ \A j \in ListSlots \ {k} : listing'[j] = listing[j]
      BY <1>0, <3>3 DEF BoardShape
    <3>5. listing' \in [ListSlots -> Get]
      BY <1>0, <3>2, <3>3 DEF BoardShape
    <3> QED
      BY <1>0, <1>1, <3>2, <3>4, <3>5 DEF TakenIsKnown
  <2>3. ASSUME NEW k \in ListSlots, ListLost(k) PROVE listing' \in [ListSlots -> Get] /\ TakenIsKnown'
    <3>1. NoGet \in Get /\ NoGet.phase = "idle"
      BY DEF NoGet, Get
    <3>2. listing' = [listing EXCEPT ![k] = NoGet]
      BY <2>3 DEF ListLost
    <3>3. listing'[k] = NoGet /\ \A j \in ListSlots \ {k} : listing'[j] = listing[j]
      BY <1>0, <3>2 DEF BoardShape
    <3>4. listing' \in [ListSlots -> Get]
      BY <1>0, <3>1, <3>2 DEF BoardShape
    <3> QED
      BY <1>0, <1>1, <3>1, <3>3, <3>4 DEF TakenIsKnown
  <2> QED
    BY <2>1, <2>2, <2>3
<1>3. command' \in [Migrations -> Order] /\ CommandInv' /\ \A k \in Migrations : Busy(k) => Busy(k)'
  BY <1>0, <1>1 DEF BoardShape, CommandInv, Busy
<1>4. stale \subseteq stale' /\ pushes' = pushes /\ up' \in {TRUE, up}
  BY <1>1
<1> QED
  BY <1>1, <1>2, <1>3, <1>4, Unseen

LEMMA AskSteps ==
  ASSUME BoardInv, NEW m \in Migrations, AskStart(m) \/ AskCancel(m) \/ AskDelete(m) \/ AskRetry(m)
  PROVE  BoardInv'
<1>0. BoardShape /\ TakenIsKnown /\ CommandInv
  BY DEF BoardInv
<1>1. PICK kind \in {"start", "cancel", "delete", "retry"}, new \in SUBSET Migrations :
        /\ Asks(m, kind, new)
        /\ kind = "start" => new = {m}
        /\ kind \in {"cancel", "delete"} => new = {}
        /\ \A n \in new : row[n] = "none"
        /\ kind = "retry" => \A n1, n2 \in new : n1 = n2
  <2>1. CASE AskStart(m)
    BY <2>1 DEF AskStart
  <2>2. CASE AskCancel(m)
    BY <2>2 DEF AskCancel
  <2>3. CASE AskDelete(m)
    BY <2>3 DEF AskDelete
  <2>4. CASE AskRetry(m)
    BY <2>4 DEF AskRetry
  <2> QED
    BY <2>1, <2>2, <2>3, <2>4
<1>2. PICK c : c = [kind |-> kind, done |-> FALSE, new |-> new]
  OBVIOUS
<1>3. c \in Order /\ c.kind = kind /\ c.done = FALSE /\ c.new = new
  BY <1>2 DEF Order
<1>4. /\ command[m] = NoCommand /\ \A k \in Migrations : command[k].new \cap new = {}
      /\ command' = [command EXCEPT ![m] = c]
      /\ UNCHANGED <<row, pushes, up, rows, active, listing, stale, tangled>>
  BY <1>1, <1>2 DEF Asks
<1>5. /\ command' \in [Migrations -> Order] /\ command'[m] = c
      /\ \A k \in Migrations \ {m} : command'[k] = command[k]
  BY <1>0, <1>3, <1>4 DEF BoardShape
<1>6. CommandInv'
  <2>1. ASSUME NEW k \in Migrations
        PROVE  /\ ~command'[k].done => \A n \in command'[k].new : row'[n] = "none"
               /\ command'[k].kind = "start" => command'[k].new = {k}
               /\ command'[k].kind \notin {"start", "retry"} => command'[k].new = {}
               /\ command'[k].kind = "delete" /\ command'[k].done => row'[k] = "gone"
               /\ command'[k].kind = "retry" => \A n1, n2 \in command'[k].new : n1 = n2
    <3>1. CASE k = m
      BY <1>1, <1>3, <1>4, <1>5, <3>1
    <3>2. CASE k # m
      <4>1. command'[k] = command[k] /\ row' = row
        BY <1>4, <1>5, <3>2
      <4> QED
        BY <1>0, <4>1 DEF CommandInv
    <3> QED
      BY <3>1, <3>2
  <2>2. \A k, l \in Migrations : k # l => command'[k].new \cap command'[l].new = {}
    BY <1>0, <1>3, <1>4, <1>5 DEF CommandInv
  <2> QED
    BY <2>1, <2>2 DEF CommandInv
<1>7. \A k \in Migrations : Busy(k) => Busy(k)'
  BY <1>4, <1>5 DEF Busy, NoCommand
<1>8. TakenIsKnown' /\ listing' \in [ListSlots -> Get]
  BY <1>0, <1>4 DEF BoardShape, TakenIsKnown
<1>9. stale \subseteq stale' /\ pushes' = pushes /\ up' \in {TRUE, up}
  BY <1>4
<1> QED
  BY <1>4, <1>5, <1>6, <1>7, <1>8, <1>9, Unseen

LEMMA AnswerSteps ==
  ASSUME BoardInv, NEW m \in Migrations, StartAnswered(m) \/ CommandFails(m) PROVE BoardInv'
<1>0. BoardShape /\ TakenIsKnown /\ CommandInv
  BY DEF BoardInv
<1>1. UNCHANGED <<row, pushes, up, rows, active, tangled>> /\ Answered(m)
  BY DEF StartAnswered, CommandFails
<1>2. /\ command' \in [Migrations -> Order] /\ CommandInv'
      /\ \A n \in Migrations : Busy(n) =>
           Busy(n)' \/ (command[m].kind \in {"delete", "retry"} /\ (n = m \/ n \in command[m].new))
  BY <1>0, <1>1, AnsweredEffect
<1>3. CASE StartAnswered(m)
  <2>1. listing' \in [ListSlots -> Get] /\ TakenIsKnown'
    BY <1>0, <1>1, <1>3, FetchListEffect DEF StartAnswered
  <2>2. stale' = stale /\ \A n \in Migrations : Busy(n) => Busy(n)'
    BY <1>2, <1>3 DEF StartAnswered
  <2>3. stale \subseteq stale' /\ pushes' = pushes /\ up' \in {TRUE, up}
    BY <1>1, <2>2
  <2> QED
    BY <1>1, <1>2, <2>1, <2>2, <2>3, Unseen
<1>4. CASE CommandFails(m)
  <2>1. listing' = listing /\ stale' = stale \cup {m} \cup command[m].new
    BY <1>4 DEF CommandFails
  <2>2. listing' \in [ListSlots -> Get] /\ TakenIsKnown'
    BY <1>0, <1>1, <2>1 DEF BoardShape, TakenIsKnown
  <2>3. \A n \in Migrations : Busy(n) => Busy(n)' \/ n \in stale'
    BY <1>2, <2>1
  <2>4. stale \subseteq stale' /\ pushes' = pushes /\ up' \in {TRUE, up}
    BY <1>1, <2>1
  <2> QED
    BY <1>1, <1>2, <2>2, <2>3, <2>4, Unseen
<1> QED
  BY <1>3, <1>4

\* A row changes: its migration is on its way to the page, or is missed.
LEMMA RowChanges ==
  ASSUME BoardInv, NEW m \in Migrations, NEW s \in RowStates \cup {"gone"}, SetRow(m, s),
         UNCHANGED <<up, rows, active, tangled>>, stale \subseteq stale',
         pushes' \in Seq(Push), ~up => pushes' = <<>>, Told',
         \A k \in Migrations : Queued(k, pushes) => Queued(k, pushes'),
         command' \in [Migrations -> Order], CommandInv', \A k \in Migrations : Busy(k) => Busy(k)',
         m \in stale' \/ Queued(m, pushes') \/ Busy(m)'
  PROVE  BoardInv'
<1>0. BoardShape /\ TakenIsKnown
  BY DEF BoardInv
<1>1. /\ row' \in [Migrations -> RowStates \cup {"none", "gone"}]
      /\ \A n \in Migrations \ {m} : row'[n] = row[n]
      /\ listing' \in [ListSlots -> Get] /\ TakenIsKnown'
  BY <1>0, SetRowEffect
<1>2. BoardShape'
  BY <1>0, <1>1 DEF BoardShape
<1>3. \A k \in Migrations : k \notin stale' /\ ~Queued(k, pushes') /\ ~Busy(k)' =>
                              k \notin stale /\ ~Queued(k, pushes) /\ ~Busy(k) /\ row'[k] = row[k]
  BY <1>1
<1>4. UNCHANGED <<rows, active, tangled>>
  OBVIOUS
<1> QED
  BY <1>1, <1>2, <1>3, <1>4, ListsStay

LEMMA RowStep ==
  ASSUME BoardInv, NEW m \in Migrations, NEW s \in RowStates, RowMoves(m, s) \/ OtherStarts(m)
  PROVE  BoardInv'
<1>0. BoardShape /\ TakenIsKnown /\ CommandInv /\ Told
  BY DEF BoardInv, Told
<1>a. pushes \in Seq(Push) /\ row \in [Migrations -> RowStates \cup {"none", "gone"}]
  BY <1>0 DEF BoardShape
<1>b. command' = command /\ UNCHANGED <<up, rows, active, tangled>>
  BY DEF RowMoves, OtherStarts
<1>c. command' \in [Migrations -> Order]
  BY <1>0, <1>b DEF BoardShape
<1>1. CASE RowMoves(m, s)
  <2>1. SetRow(m, s) /\ row[m] \notin {"none", "gone"} /\ s # "pending"
    BY <1>1 DEF RowMoves, RunStates, EndStates
  <2>2. row' = [row EXCEPT ![m] = s]
    BY <2>1 DEF SetRow
  <2>3. CommandInv' /\ \A k \in Migrations : Busy(k) => Busy(k)'
    BY <1>0, <1>b, <2>1, <2>2, CommandsUnaware
  <2>4. CASE up
    <3>1. PICK e : e = [id |-> m, status |-> s]
      OBVIOUS
    <3>2. e \in Push /\ e.id = m /\ e.status = s
      BY <3>1 DEF Push
    <3>3. pushes' = Append(pushes, e) /\ stale' = stale
      BY <1>1, <2>4, <3>1 DEF RowMoves
    <3>4. pushes' \in Seq(Push) /\ \A k : Queued(k, pushes') <=> Queued(k, pushes) \/ k = m
      BY <1>a, <3>2, <3>3, Queues
    <3>5. Told'
      <4>1. PICK r2 : r2 = row'
        OBVIOUS
      <4>2. PICK q : q = pushes
        OBVIOUS
      <4>3. LastTold(Append(q, e), r2) /\ AllMoved(Append(q, e), r2)
        BY <1>0, <1>a, <2>1, <2>2, <3>2, <4>1, <4>2, ToldByLast DEF Told
      <4> QED
        BY <3>3, <4>1, <4>2, <4>3 DEF Told
    <3>6. stale \subseteq stale' /\ (~up => pushes' = <<>>) /\ s \in RowStates \cup {"gone"}
      BY <2>4, <3>3
    <3>7. (\A k \in Migrations : Queued(k, pushes) => Queued(k, pushes')) /\ Queued(m, pushes')
      BY <3>4
    <3> QED
      BY <1>b, <1>c, <2>1, <2>3, <3>4, <3>5, <3>6, <3>7, RowChanges
  <2>5. CASE ~up
    <3>1. pushes' = pushes /\ stale' = stale \cup {m} /\ pushes = <<>>
      BY <1>0, <1>1, <2>5 DEF RowMoves, BoardShape
    <3>2. Told'
      BY <3>1, NothingTold DEF Told
    <3>3. /\ stale \subseteq stale' /\ (~up => pushes' = <<>>) /\ s \in RowStates \cup {"gone"}
          /\ pushes' \in Seq(Push) /\ m \in stale'
          /\ \A k \in Migrations : Queued(k, pushes) => Queued(k, pushes')
      BY <1>a, <3>1
    <3> QED
      BY <1>b, <1>c, <2>1, <2>3, <3>2, <3>3, RowChanges
  <2> QED
    BY <2>4, <2>5
<1>2. CASE OtherStarts(m)
  <2>1. /\ SetRow(m, "pending") /\ row[m] = "none" /\ \A k \in Migrations : m \notin command[k].new
        /\ pushes' = pushes /\ stale' = stale \cup {m}
    BY <1>2 DEF OtherStarts
  <2>2. row' = [row EXCEPT ![m] = "pending"]
    BY <2>1 DEF SetRow
  <2>3. CommandInv' /\ \A k \in Migrations : Busy(k) => Busy(k)'
    <3>1. row[m] # "gone"
      BY <2>1
    <3> QED
      BY <1>0, <1>b, <2>1, <2>2, <3>1, CommandsUnaware
  <2>4. Told'
    <3>1. PICK r2 : r2 = row'
      OBVIOUS
    <3>2. LastTold(pushes, r2) /\ AllMoved(pushes, r2)
      BY <1>0, <1>a, <2>1, <2>2, <3>1, ToldOfOthers DEF Told
    <3> QED
      BY <2>1, <3>1, <3>2 DEF Told
  <2>5. /\ stale \subseteq stale' /\ (~up => pushes' = <<>>) /\ "pending" \in RowStates \cup {"gone"}
        /\ pushes' \in Seq(Push) /\ m \in stale'
        /\ \A k \in Migrations : Queued(k, pushes) => Queued(k, pushes')
    BY <1>0, <1>a, <2>1 DEF BoardShape, RowStates, RunStates
  <2> QED
    BY <1>b, <1>c, <2>1, <2>3, <2>4, <2>5, RowChanges
<1> QED
  BY <1>1, <1>2

\* A command makes or deletes a row.
LEMMA CommandStep ==
  ASSUME BoardInv, NEW m \in Migrations,
         StartPerformed(m) \/ DeletePerformed(m) \/ RetryDeletes(m) \/ RetryStarts(m)
  PROVE  BoardInv'
<1>0. BoardShape /\ TakenIsKnown /\ CommandInv /\ Told
  BY DEF BoardInv, Told
<1>a. pushes \in Seq(Push) /\ row \in [Migrations -> RowStates \cup {"none", "gone"}]
      /\ command[m] \in Order
  BY <1>0 DEF BoardShape
<1>b. UNCHANGED <<pushes, up, rows, active, tangled>> /\ ~command[m].done
      /\ stale \subseteq stale'
  BY DEF StartPerformed, DeletePerformed, RetryDeletes, RetryStarts
<1>c. PICK n \in Migrations, s \in {"pending", "gone"} :
        /\ SetRow(n, s) /\ (s = "gone" \/ row[n] = "none")
        /\ n \in stale' \/ command[m].kind \in {"delete", "retry"}
        /\ n = m \/ (command[m].kind = "retry" /\ n \in command[m].new)
        /\ \/ /\ Performed(m)
              /\ \/ n \in command[m].new
                 \/ command[m].kind = "delete" /\ n = m /\ s = "gone" /\ row[m] # "none"
           \/ command' = command /\ row[n] # "gone" /\ row[n] # "none"
  <2>1. CASE StartPerformed(m)
    <3>1. /\ Performed(m) /\ SetRow(m, "pending") /\ m \in stale' /\ m \in command[m].new
          /\ row[m] = "none"
      BY <1>0, <2>1 DEF StartPerformed, CommandInv
    <3> QED
      BY <3>1
  <2>2. CASE DeletePerformed(m)
    <3>1. Performed(m) /\ SetRow(m, "gone") /\ command[m].kind = "delete" /\ row[m] # "none"
      BY <2>2 DEF DeletePerformed, EndStates
    <3> QED
      BY <3>1
  <2>3. CASE RetryDeletes(m)
    <3>1. /\ command' = command /\ SetRow(m, "gone") /\ command[m].kind = "retry"
          /\ row[m] # "none" /\ row[m] # "gone"
      BY <2>3 DEF RetryDeletes, EndStates
    <3> QED
      BY <3>1
  <2>4. CASE RetryStarts(m)
    <3>1. PICK n \in command[m].new : SetRow(n, "pending")
      BY <2>4 DEF RetryStarts
    <3>2. n \in Migrations /\ row[n] = "none" /\ command[m].kind = "retry" /\ Performed(m)
      BY <1>0, <1>a, <1>b, <2>4 DEF RetryStarts, CommandInv, Order
    <3> QED
      BY <3>1, <3>2
  <2> QED
    BY <2>1, <2>2, <2>3, <2>4
<1>1. row' = [row EXCEPT ![n] = s]
  BY <1>c DEF SetRow
<1>2. command' \in [Migrations -> Order] /\ CommandInv' /\ \A k \in Migrations : Busy(k) => Busy(k)'
  <2>1. CASE Performed(m) /\ \/ n \in command[m].new
                             \/ command[m].kind = "delete" /\ n = m /\ s = "gone" /\ row[m] # "none"
    BY <1>0, <1>1, <1>b, <2>1, PerformedEffect
  <2>2. CASE command' = command /\ row[n] # "gone" /\ row[n] # "none"
    <3>1. CommandInv' /\ \A k \in Migrations : Busy(k) => Busy(k)'
      BY <1>0, <1>1, <2>2, CommandsUnaware
    <3> QED
      BY <1>0, <2>2, <3>1 DEF BoardShape
  <2> QED
    BY <1>c, <2>1, <2>2
<1>3. Told'
  <2>1. PICK r2 : r2 = row'
    OBVIOUS
  <2>2. LastTold(pushes, r2) /\ AllMoved(pushes, r2)
    BY <1>0, <1>1, <1>a, <1>c, <2>1, ToldOfOthers DEF Told
  <2> QED
    BY <1>b, <2>1, <2>2 DEF Told
<1>4. n \in stale' \/ Busy(n)'
  <2>1. command[m].kind \in {"delete", "retry"} => Busy(n)
    BY <1>c DEF Busy
  <2> QED
    BY <1>2, <1>c, <2>1
<1>5. /\ (~up => pushes' = <<>>) /\ s \in RowStates \cup {"gone"} /\ pushes' \in Seq(Push)
      /\ \A k \in Migrations : Queued(k, pushes) => Queued(k, pushes')
  BY <1>0, <1>a, <1>b, <1>c DEF BoardShape, RowStates, RunStates
<1> QED
  BY <1>2, <1>3, <1>4, <1>5, <1>b, <1>c, RowChanges

\* The lists are replaced by r and a, which agree and show what is known.
Fits(r, a, q) ==
  /\ r \in [Migrations -> Seq(RowStates)] /\ PerMigration(a)
  /\ q \in Seq(Push) /\ (~up => q = <<>>) /\ LastTold(q, row) /\ AllMoved(q, row)

Shows(r, a, q, st) ==
  \A m \in Migrations \ tangled' :
    /\ a[m] = Running(r[m]) /\ Len(r[m]) <= 1
    /\ m \notin st /\ ~Queued(m, q) /\ ~Busy(m)' => r[m] = AsShown(row[m])

Unmoved ==
  /\ row' = row /\ listing' \in [ListSlots -> Get] /\ TakenIsKnown'
  /\ command' \in [Migrations -> Order] /\ CommandInv'

LEMMA BoardChanges ==
  ASSUME BoardInv, NEW r, NEW a, NEW q, NEW st, SetBoard(r, a, q, st),
         Fits(r, a, q), Shows(r, a, q, st), Unmoved
  PROVE  BoardInv'
<1>0. BoardShape /\ row' = row /\ PerMigration(a) /\ r \in [Migrations -> Seq(RowStates)]
      /\ q \in Seq(Push) /\ (~up => q = <<>>) /\ LastTold(q, row) /\ AllMoved(q, row)
  BY DEF BoardInv, Fits, Unmoved
<1>1. /\ rows' = r /\ active' = a
      /\ pushes' \in Seq(Push) /\ (~up' => pushes' = <<>>)
      /\ LastTold(pushes', row) /\ AllMoved(pushes', row)
      /\ \A m \in Migrations : m \notin stale' /\ ~Queued(m, pushes') => m \notin st /\ ~Queued(m, q)
  BY <1>0, SetBoardEffect
<1>2. BoardShape'
  BY <1>0, <1>1 DEF BoardShape, Unmoved
<1>3. Told'
  <2>1. PICK q2 : q2 = pushes'
    OBVIOUS
  <2>2. LastTold(q2, row) /\ AllMoved(q2, row)
    BY <1>1, <2>1
  <2>3. LastTold(q2, row') /\ AllMoved(q2, row')
    BY <1>0, <2>2 DEF LastTold, AllMoved
  <2> QED
    BY <2>1, <2>3 DEF Told
<1>4. ListsAgree'
  BY <1>1 DEF ListsAgree, Shows
<1>5. FreshInv'
  <2> SUFFICES ASSUME NEW m \in Migrations, m \notin stale', m \notin tangled', ~Queued(m, pushes'), ~Busy(m)'
               PROVE  rows'[m] = AsShown(row'[m])
    BY DEF FreshInv
  <2>1. r[m] = AsShown(row[m])
    BY <1>1 DEF Shows
  <2> QED
    BY <1>0, <1>1, <2>1 DEF AsShown
<1> QED
  BY <1>2, <1>3, <1>4, <1>5 DEF BoardInv, Told, Unmoved

\* Two lists that agree have one row or none of a migration.
LEMMA NoneOrOne ==
  ASSUME NEW q \in Seq(RowStates), Len(q) <= 1
  PROVE  q = <<>> \/ \E s \in RowStates : q = <<s>>
<1>1. Len(q) = 0 \/ Len(q) = 1
  <2>1. PICK n \in Nat : n = Len(q)
    OBVIOUS
  <2>2. n = 0 \/ n = 1
    BY <2>1
  <2> QED
    BY <2>1, <2>2
<1>2. CASE Len(q) = 0
  BY <1>2
<1>3. CASE Len(q) = 1
  <2>1. q[1] \in RowStates /\ q = <<q[1]>>
    BY <1>3
  <2> QED
    BY <2>1
<1> QED
  BY <1>1, <1>2, <1>3

\* A message puts its status in the place of the row, or in front of none.
LEMMA PushedShape ==
  ASSUME NEW q \in Seq(RowStates), NEW s \in RowStates
  PROVE  /\ Pushed(q, s) \in Seq(RowStates)
         /\ Len(q) <= 1 => Pushed(q, s) = <<s>>
<1>1. CASE q = <<>>
  BY <1>1 DEF Pushed
<1>2. CASE q # <<>>
  <2>1. Pushed(q, s) = [i \in 1 .. Len(q) |-> s] /\ Len(q) \in Nat
    BY <1>2 DEF Pushed
  <2>2. Pushed(q, s) \in Seq(RowStates) /\ Len(Pushed(q, s)) = Len(q)
    BY <2>1
  <2>3. ASSUME Len(q) <= 1 PROVE Pushed(q, s) = <<s>>
    <3>1. Len(q) = 1
      BY <1>2, <2>3, NoneOrOne
    <3> QED
      BY <2>1, <3>1
  <2> QED
    BY <2>2, <2>3
<1> QED
  BY <1>1, <1>2

LEMMA PushStep == ASSUME BoardInv, PushArrives PROVE BoardInv'
<1>0. BoardShape /\ TakenIsKnown /\ CommandInv /\ Told /\ ListsAgree /\ FreshInv
  BY DEF BoardInv, Told
<1>a. /\ pushes \in Seq(Push) /\ pushes # <<>> /\ rows \in [Migrations -> Seq(RowStates)]
      /\ up /\ listing \in [ListSlots -> Get] /\ command \in [Migrations -> Order]
      /\ UNCHANGED <<row, listing, command, tangled>>
  BY <1>0 DEF PushArrives, BoardShape
<1> DEFINE r0 == [rows EXCEPT ![Head(pushes).id] = Pushed(rows[Head(pushes).id], Head(pushes).status)]
           st0 == IF row[Head(pushes).id] = "gone" THEN stale \cup {Head(pushes).id}
                  ELSE stale \ {Head(pushes).id}
<1>1. SetBoard(r0, [k \in Migrations |-> Running(r0[k])], Tail(pushes), st0)
  BY DEF PushArrives
<1>2. PICK m, s, q, r, st, a :
        /\ m = Head(pushes).id /\ s = Head(pushes).status /\ q = Tail(pushes) /\ r = r0 /\ st = st0
        /\ a = [k \in Migrations |-> Running(r[k])]
  OBVIOUS
<1>3. SetBoard(r, a, q, st)
  BY <1>1, <1>2 DEF SetBoard
<1>4. /\ r = [rows EXCEPT ![m] = Pushed(rows[m], s)]
      /\ st = IF row[m] = "gone" THEN stale \cup {m} ELSE stale \ {m}
  BY <1>2
<1> HIDE DEF r0, st0
<1>5. m \in Migrations /\ s \in RowStates /\ q \in Seq(Push)
      /\ \A k : Queued(k, pushes) <=> Queued(k, q) \/ m = k
  <2>1. Head(pushes) \in Push /\ Tail(pushes) \in Seq(Push)
        /\ \A k : Queued(k, pushes) <=> Queued(k, Tail(pushes)) \/ Head(pushes).id = k
    BY <1>a, Queues
  <2> QED
    BY <1>2, <2>1 DEF Push
<1>6. LastTold(q, row) /\ AllMoved(q, row) /\ (~Queued(m, q) => row[m] \in {s, "gone"})
  <2>1. /\ LastTold(Tail(pushes), row) /\ AllMoved(Tail(pushes), row)
        /\ ~Queued(Head(pushes).id, Tail(pushes)) => row[Head(pushes).id] \in {Head(pushes).status, "gone"}
    BY <1>0, <1>a, ToldByHead DEF Told
  <2> QED
    BY <1>2, <2>1
<1>7. Pushed(rows[m], s) \in Seq(RowStates) /\ (Len(rows[m]) <= 1 => Pushed(rows[m], s) = <<s>>)
  BY <1>5, <1>a, PushedShape
<1>8. r \in [Migrations -> Seq(RowStates)] /\ r[m] = Pushed(rows[m], s)
      /\ \A k \in Migrations \ {m} : r[k] = rows[k]
  BY <1>4, <1>5, <1>7, <1>a
<1>9. PerMigration(a) /\ \A k \in Migrations : a[k] = Running(r[k])
  BY <1>2 DEF PerMigration
<1>10. TakenIsKnown' /\ CommandInv' /\ \A k \in Migrations : Busy(k) => Busy(k)'
  BY <1>0, <1>a DEF TakenIsKnown, CommandInv, Busy
<1>11. ASSUME NEW k \in Migrations \ tangled'
       PROVE  /\ a[k] = Running(r[k]) /\ Len(r[k]) <= 1
              /\ k \notin st /\ ~Queued(k, q) /\ ~Busy(k)' => r[k] = AsShown(row[k])
  <2>1. k \notin tangled /\ Len(rows[k]) <= 1
    BY <1>0, <1>a DEF ListsAgree
  <2>2. CASE k = m
    <3>1. r[k] = <<s>>
      BY <1>7, <1>8, <2>1, <2>2
    <3>2. Len(<<s>>) <= 1
      OBVIOUS
    <3>3. ASSUME k \notin st, ~Queued(k, q) PROVE row[k] = s
      BY <1>4, <1>6, <2>2, <3>3
    <3> QED
      BY <1>5, <1>9, <3>1, <3>2, <3>3 DEF AsShown
  <2>3. CASE k # m
    <3>1. r[k] = rows[k]
      BY <1>8, <2>3
    <3>2. ASSUME k \notin st, ~Queued(k, q), ~Busy(k)' PROVE rows[k] = AsShown(row[k])
      BY <1>0, <1>4, <1>5, <1>10, <2>1, <2>3, <3>2 DEF FreshInv
    <3> QED
      BY <1>9, <2>1, <3>1, <3>2
  <2> QED
    BY <2>2, <2>3
<1>12. Fits(r, a, q)
  BY <1>5, <1>6, <1>8, <1>9, <1>a DEF Fits
<1>13. Shows(r, a, q, st)
  BY <1>11 DEF Shows
<1>14. Unmoved
  BY <1>10, <1>a DEF Unmoved
<1> QED
  BY <1>3, <1>12, <1>13, <1>14, BoardChanges

LEMMA ListStep == ASSUME BoardInv, NEW k \in ListSlots, ListArrives(k) PROVE BoardInv'
<1>0. BoardShape /\ TakenIsKnown /\ CommandInv /\ Told
  BY DEF BoardInv, Told
<1>a. /\ pushes \in Seq(Push) /\ listing \in [ListSlots -> Get] /\ command \in [Migrations -> Order]
      /\ listing[k] \in Get /\ listing[k].phase = "taken" /\ listing' = [listing EXCEPT ![k] = NoGet]
      /\ tangled' = {} /\ UNCHANGED <<row, command>>
  BY <1>0 DEF ListArrives, BoardShape
<1> DEFINE r0 == [m \in Migrations |-> IF listing[k].snap[m] \in RowStates
                                       THEN <<listing[k].snap[m]>> ELSE <<>>]
           st0 == {m \in listing[k].since : ~Queued(m, pushes)}
<1>1. SetBoard(r0, [m \in Migrations |-> Running(r0[m])], pushes, st0)
  BY DEF ListArrives
<1>2. PICK q, r, st, a : /\ q = pushes /\ r = r0 /\ st = st0
                         /\ a = [m \in Migrations |-> Running(r[m])]
  OBVIOUS
<1>3. SetBoard(r, a, q, st)
  BY <1>1, <1>2 DEF SetBoard
<1>4. \A m \in Migrations : r[m] = AsShown(listing[k].snap[m]) /\ a[m] = Running(r[m])
  BY <1>2 DEF AsShown
<1>5. \A m \in Migrations : m \notin st /\ ~Queued(m, q) => m \notin listing[k].since
  BY <1>2
<1>6. r = [m \in Migrations |-> r[m]] /\ PerMigration(a)
  BY <1>2 DEF PerMigration
<1> HIDE DEF r0, st0
<1>7. ASSUME NEW m \in Migrations
      PROVE  /\ r[m] \in Seq(RowStates) /\ Len(r[m]) <= 1
             /\ m \notin st /\ ~Queued(m, q) => r[m] = AsShown(row[m])
  <2>1. PICK s : s = listing[k].snap[m]
    OBVIOUS
  <2>2. r[m] = AsShown(s)
    BY <1>4, <2>1
  <2>3. AsShown(s) \in Seq(RowStates) /\ Len(AsShown(s)) <= 1
    BY DEF AsShown
  <2>4. m \notin st /\ ~Queued(m, q) => s = row[m]
    BY <1>0, <1>5, <1>a, <2>1 DEF TakenIsKnown
  <2> QED
    BY <2>2, <2>3, <2>4
<1>8. r \in [Migrations -> Seq(RowStates)]
  BY <1>6, <1>7
<1>9. listing' \in [ListSlots -> Get] /\ TakenIsKnown'
  <2>1. NoGet \in Get /\ NoGet.phase = "idle"
    BY DEF NoGet, Get
  <2>2. listing'[k] = NoGet /\ \A j \in ListSlots \ {k} : listing'[j] = listing[j]
    BY <1>a
  <2>3. listing' \in [ListSlots -> Get]
    BY <1>a, <2>1
  <2> QED
    BY <1>0, <1>a, <2>1, <2>2, <2>3 DEF TakenIsKnown
<1>10. CommandInv' /\ command' \in [Migrations -> Order] /\ row' = row
  BY <1>0, <1>a DEF CommandInv
<1>11. q \in Seq(Push) /\ (~up => q = <<>>) /\ LastTold(q, row) /\ AllMoved(q, row)
  BY <1>0, <1>2 DEF BoardShape, Told
<1>12. Fits(r, a, q)
  BY <1>6, <1>8, <1>11 DEF Fits
<1>13. Shows(r, a, q, st)
  BY <1>4, <1>7 DEF Shows
<1>14. Unmoved
  BY <1>9, <1>10 DEF Unmoved
<1> QED
  BY <1>3, <1>12, <1>13, <1>14, BoardChanges

\* The answer of a command on m: what the other commands are about stays as it is.
LEMMA AnswerOn ==
  ASSUME BoardInv, NEW m \in Migrations, Answered(m), UNCHANGED row
  PROVE  /\ command' \in [Migrations -> Order] /\ CommandInv'
         /\ \A n \in Migrations : Busy(n) =>
              Busy(n)' \/ (command[m].kind \in {"delete", "retry"} /\ (n = m \/ n \in command[m].new))
  BY AnsweredEffect DEF BoardInv

LEMMA CancelStep == ASSUME BoardInv, NEW m \in Migrations, CancelAnswered(m) PROVE BoardInv'
<1>0. BoardShape /\ TakenIsKnown /\ Told /\ ListsAgree /\ FreshInv
  BY DEF BoardInv, Told
<1>a. /\ rows \in [Migrations -> Seq(RowStates)] /\ pushes \in Seq(Push) /\ PerMigration(active)
      /\ command[m].kind = "cancel" /\ Answered(m) /\ UNCHANGED <<row, listing, tangled>>
  BY <1>0 DEF CancelAnswered, BoardShape
<1>b. /\ command' \in [Migrations -> Order] /\ CommandInv' /\ \A n \in Migrations : Busy(n) => Busy(n)'
  BY <1>a, AnswerOn
<1> DEFINE r0 == [rows EXCEPT ![m] = [i \in DOMAIN rows[m] |-> "cancelled"]]
           st0 == IF row[m] = "cancelled" /\ ~Queued(m, pushes) THEN stale ELSE stale \cup {m}
<1>1. SetBoard(r0, [active EXCEPT ![m] = <<>>], pushes, st0)
  BY DEF CancelAnswered
<1>2. PICK q, r, st, a : q = pushes /\ r = r0 /\ st = st0 /\ a = [active EXCEPT ![m] = <<>>]
  OBVIOUS
<1>3. SetBoard(r, a, q, st)
  BY <1>1, <1>2 DEF SetBoard
<1>4. /\ [i \in DOMAIN rows[m] |-> "cancelled"] \in Seq(RowStates)
      /\ rows[m] = <<>> => [i \in DOMAIN rows[m] |-> "cancelled"] = <<>>
      /\ \A s \in RowStates : rows[m] = <<s>> => [i \in DOMAIN rows[m] |-> "cancelled"] = <<"cancelled">>
  <2>1. PICK p \in Seq(RowStates) : p = rows[m]
    BY <1>a
  <2>2. "cancelled" \in RowStates /\ DOMAIN p = 1 .. Len(p) /\ Len(p) \in Nat
    BY DEF RowStates, EndStates
  <2>3. [i \in DOMAIN p |-> "cancelled"] \in Seq(RowStates)
    BY <2>2
  <2>4. p = <<>> => [i \in DOMAIN p |-> "cancelled"] = <<>>
    BY <2>2
  <2>5. ASSUME NEW s, p = <<s>> PROVE [i \in DOMAIN p |-> "cancelled"] = <<"cancelled">>
    BY <2>5
  <2> QED
    BY <2>1, <2>3, <2>4, <2>5
<1>5. r \in [Migrations -> Seq(RowStates)] /\ r[m] = [i \in DOMAIN rows[m] |-> "cancelled"]
      /\ \A k \in Migrations \ {m} : r[k] = rows[k]
  BY <1>2, <1>4, <1>a
<1>6. PerMigration(a) /\ a[m] = <<>> /\ \A k \in Migrations \ {m} : a[k] = active[k]
  BY <1>2, <1>a DEF PerMigration
<1>7. st = IF row[m] = "cancelled" /\ ~Queued(m, q) THEN stale ELSE stale \cup {m}
  BY <1>2
<1> HIDE DEF r0, st0
<1>8. ASSUME NEW k \in Migrations \ tangled'
      PROVE  /\ a[k] = Running(r[k]) /\ Len(r[k]) <= 1
             /\ k \notin st /\ ~Queued(k, q) /\ ~Busy(k)' => r[k] = AsShown(row[k])
  <2>1. active[k] = Running(rows[k]) /\ Len(rows[k]) <= 1 /\ rows[k] \in Seq(RowStates)
    BY <1>0, <1>a DEF ListsAgree
  <2>2. k \notin st /\ ~Queued(k, q) /\ ~Busy(k)' => rows[k] = AsShown(row[k])
    BY <1>0, <1>2, <1>7, <1>a, <1>b DEF FreshInv
  <2>3. CASE k = m
    <3>1. rows[k] = <<>> \/ \E s \in RowStates : rows[k] = <<s>>
      BY <2>1, NoneOrOne
    <3>2. r[k] \in {<<>>, <<"cancelled">>}
      BY <1>4, <1>5, <2>3, <3>1
    <3>3. Running(r[k]) = <<>>
      BY <3>2, RunningOfNone, RunningOfOne DEF RunStates
    <3>4. Len(<<>>) <= 1 /\ Len(<<"cancelled">>) <= 1
      OBVIOUS
    <3>5. ASSUME k \notin st, ~Queued(k, q), ~Busy(k)' PROVE r[k] = AsShown(row[k])
      <4>1. row[m] = "cancelled"
        BY <1>7, <2>3, <3>5
      <4>2. rows[m] = <<"cancelled">> /\ "cancelled" \in RowStates
        BY <2>2, <2>3, <3>5, <4>1 DEF AsShown, RowStates, EndStates
      <4> QED
        BY <1>4, <1>5, <2>3, <4>1, <4>2 DEF AsShown
    <3> QED
      BY <1>6, <2>3, <3>2, <3>3, <3>4, <3>5
  <2>4. CASE k # m
    BY <1>5, <1>6, <2>1, <2>2, <2>4
  <2> QED
    BY <2>3, <2>4
<1>9. /\ listing' \in [ListSlots -> Get] /\ TakenIsKnown' /\ row' = row
      /\ q \in Seq(Push) /\ (~up => q = <<>>) /\ LastTold(q, row) /\ AllMoved(q, row)
  BY <1>0, <1>2, <1>a DEF BoardShape, Told, TakenIsKnown
<1>10. r \in [Migrations -> Seq(RowStates)] /\ PerMigration(a) /\ command' \in [Migrations -> Order] /\ CommandInv'
  BY <1>5, <1>6, <1>b
<1>11. Fits(r, a, q)
  BY <1>9, <1>10 DEF Fits
<1>12. Shows(r, a, q, st)
  BY <1>8 DEF Shows
<1>13. Unmoved
  BY <1>9, <1>10 DEF Unmoved
<1> QED
  BY <1>3, <1>11, <1>12, <1>13, BoardChanges

LEMMA DeleteStep == ASSUME BoardInv, NEW m \in Migrations, DeleteAnswered(m) PROVE BoardInv'
<1>0. BoardShape /\ TakenIsKnown /\ Told /\ ListsAgree /\ FreshInv /\ CommandInv
  BY DEF BoardInv, Told
<1>a. /\ rows \in [Migrations -> Seq(RowStates)] /\ pushes \in Seq(Push) /\ PerMigration(active)
      /\ command[m].kind = "delete" /\ Answered(m) /\ UNCHANGED <<row, listing, tangled>>
      /\ row[m] = "gone" /\ command[m].new = {}
  BY <1>0 DEF DeleteAnswered, BoardShape, CommandInv
<1>b. /\ command' \in [Migrations -> Order] /\ CommandInv'
      /\ \A n \in Migrations \ {m} : Busy(n) => Busy(n)'
  BY <1>a, AnswerOn
<1> DEFINE r0 == [rows EXCEPT ![m] = <<>>]
<1>1. SetBoard(r0, [active EXCEPT ![m] = <<>>], pushes, stale \ {m})
  BY DEF DeleteAnswered
<1>2. PICK q, r, st, a : q = pushes /\ r = r0 /\ st = stale \ {m} /\ a = [active EXCEPT ![m] = <<>>]
  OBVIOUS
<1>3. SetBoard(r, a, q, st)
  BY <1>1, <1>2 DEF SetBoard
<1>4. r \in [Migrations -> Seq(RowStates)] /\ r[m] = <<>> /\ \A k \in Migrations \ {m} : r[k] = rows[k]
  <2>1. <<>> \in Seq(RowStates)
    OBVIOUS
  <2> QED
    BY <1>2, <1>a, <2>1
<1>5. PerMigration(a) /\ a[m] = <<>> /\ \A k \in Migrations \ {m} : a[k] = active[k]
  BY <1>2, <1>a DEF PerMigration
<1> HIDE DEF r0
<1>6. ASSUME NEW k \in Migrations \ tangled'
      PROVE  /\ a[k] = Running(r[k]) /\ Len(r[k]) <= 1
             /\ k \notin st /\ ~Queued(k, q) /\ ~Busy(k)' => r[k] = AsShown(row[k])
  <2>1. CASE k = m
    <3>1. AsShown(row[k]) = <<>>
      BY <1>a, <2>1 DEF AsShown, RowStates, RunStates, EndStates
    <3>2. Len(<<>>) <= 1
      OBVIOUS
    <3> QED
      BY <1>4, <1>5, <2>1, <3>1, <3>2, RunningOfNone
  <2>2. CASE k # m
    <3>1. active[k] = Running(rows[k]) /\ Len(rows[k]) <= 1
      BY <1>0, <1>a DEF ListsAgree
    <3>2. k \notin st /\ ~Queued(k, q) /\ ~Busy(k)' => rows[k] = AsShown(row[k])
      BY <1>0, <1>2, <1>a, <1>b, <2>2 DEF FreshInv
    <3> QED
      BY <1>4, <1>5, <2>2, <3>1, <3>2
  <2> QED
    BY <2>1, <2>2
<1>7. /\ listing' \in [ListSlots -> Get] /\ TakenIsKnown' /\ row' = row
      /\ q \in Seq(Push) /\ (~up => q = <<>>) /\ LastTold(q, row) /\ AllMoved(q, row)
  BY <1>0, <1>2, <1>a DEF BoardShape, Told, TakenIsKnown
<1>8. r \in [Migrations -> Seq(RowStates)] /\ PerMigration(a) /\ command' \in [Migrations -> Order] /\ CommandInv'
  BY <1>4, <1>5, <1>b
<1>9. Fits(r, a, q)
  BY <1>7, <1>8 DEF Fits
<1>10. Shows(r, a, q, st)
  BY <1>6 DEF Shows
<1>11. Unmoved
  BY <1>7, <1>8 DEF Unmoved
<1> QED
  BY <1>3, <1>9, <1>10, <1>11, BoardChanges

LEMMA RetryStep == ASSUME BoardInv, NEW m \in Migrations, RetryAnswered(m) PROVE BoardInv'
<1>0. BoardShape /\ TakenIsKnown /\ Told /\ ListsAgree /\ FreshInv /\ CommandInv
  BY DEF BoardInv, Told
<1>a. /\ rows \in [Migrations -> Seq(RowStates)] /\ pushes \in Seq(Push) /\ PerMigration(active)
      /\ command[m].kind = "retry" /\ Answered(m) /\ UNCHANGED <<row, listing>>
      /\ command[m].new \subseteq Migrations
  BY <1>0 DEF RetryAnswered, BoardShape, Order
<1>c. PICK n \in command[m].new :
       /\ SetBoard([[rows EXCEPT ![m] = <<>>] EXCEPT ![n] = <<"pending">> \o @],
                   [active EXCEPT ![n] = <<"pending">> \o @], pushes,
                   (stale \ {m}) \cup (IF row[m] = "gone" THEN {} ELSE {m})
                                 \cup (IF row[n] = "pending" THEN {} ELSE {n}))
       /\ tangled' = tangled \cup {k \in {n} : rows[k] # <<>>} \cup {k \in {m} : active[k] # <<>>}
  BY DEF RetryAnswered
<1>d. n \in Migrations
  BY <1>a
<1>b. /\ command' \in [Migrations -> Order] /\ CommandInv'
  BY <1>a, AnswerOn
<1>e. \A k \in Migrations \ {m, n} : Busy(k) => Busy(k)'
  <2> SUFFICES ASSUME NEW k \in Migrations \ {m, n}, Busy(k) PROVE Busy(k)'
    OBVIOUS
  <2>1. command' = [command EXCEPT ![m] = NoCommand] /\ command \in [Migrations -> Order]
    BY <1>0, <1>a DEF Answered, BoardShape
  <2>2. k \notin command[m].new
    BY <1>0, <1>a, <1>c DEF CommandInv
  <2>3. \A j \in Migrations \ {m} : command'[j] = command[j]
    BY <2>1
  <2> QED
    BY <2>2, <2>3 DEF Busy
<1> DEFINE r0 == [[rows EXCEPT ![m] = <<>>] EXCEPT ![n] = <<"pending">> \o @]
           a0 == [active EXCEPT ![n] = <<"pending">> \o @]
           st0 == (stale \ {m}) \cup (IF row[m] = "gone" THEN {} ELSE {m})
                                \cup (IF row[n] = "pending" THEN {} ELSE {n})
<1>1. SetBoard(r0, a0, pushes, st0)
  BY <1>c
<1>2. PICK q, r, st, a : q = pushes /\ r = r0 /\ st = st0 /\ a = a0
  OBVIOUS
<1>3. SetBoard(r, a, q, st)
  BY <1>1, <1>2 DEF SetBoard
<1>4. PICK old \in Seq(RowStates) : old = [rows EXCEPT ![m] = <<>>][n]
  <2>1. [rows EXCEPT ![m] = <<>>][n] \in Seq(RowStates)
    BY <1>a, <1>d
  <2> QED
    BY <2>1
<1>5. <<"pending">> \o old \in Seq(RowStates) /\ (old = <<>> => <<"pending">> \o old = <<"pending">>)
      /\ (rows[n] = <<>> => old = <<>>)
  <2>1. <<"pending">> \in Seq(RowStates)
    BY DEF RowStates, RunStates
  <2>2. <<"pending">> \o old \in Seq(RowStates)
    BY <2>1
  <2>3. <<"pending">> \o <<>> = <<"pending">>
    OBVIOUS
  <2>4. rows[n] = <<>> => old = <<>>
    BY <1>4, <1>a, <1>d
  <2> QED
    BY <2>2, <2>3, <2>4
<1>6. /\ r \in [Migrations -> Seq(RowStates)] /\ r[n] = <<"pending">> \o old
      /\ m # n => r[m] = <<>>
      /\ \A k \in Migrations \ {m, n} : r[k] = rows[k]
  <2>1. PICK mid : mid = [rows EXCEPT ![m] = <<>>]
    OBVIOUS
  <2>2. mid \in [Migrations -> Seq(RowStates)] /\ mid[m] = <<>> /\ \A k \in Migrations \ {m} : mid[k] = rows[k]
    <3>1. <<>> \in Seq(RowStates)
      OBVIOUS
    <3> QED
      BY <1>a, <2>1, <3>1
  <2>3. r = [mid EXCEPT ![n] = <<"pending">> \o mid[n]] /\ old = mid[n]
    BY <1>2, <1>4, <2>1
  <2> HIDE DEF r0
  <2>4. PICK new \in Seq(RowStates) : new = <<"pending">> \o old
    BY <1>5
  <2>5. r = [mid EXCEPT ![n] = new]
    BY <2>3, <2>4
  <2> QED
    BY <2>2, <2>4, <2>5, <1>d
<1>7. /\ PerMigration(a) /\ a[n] = <<"pending">> \o active[n]
      /\ \A k \in Migrations \ {n} : a[k] = active[k]
  BY <1>2, <1>a, <1>d DEF PerMigration
<1>8. /\ m \notin st => row[m] = "gone"
      /\ n \notin st => row[n] = "pending"
      /\ \A k \in Migrations \ {m, n} : k \notin st => k \notin stale
  BY <1>2
<1> HIDE DEF r0, a0, st0
<1>9. ASSUME NEW k \in Migrations \ tangled'
      PROVE  /\ a[k] = Running(r[k]) /\ Len(r[k]) <= 1
             /\ k \notin st /\ ~Queued(k, q) /\ ~Busy(k)' => r[k] = AsShown(row[k])
  <2>1. k \notin tangled /\ active[k] = Running(rows[k]) /\ Len(rows[k]) <= 1
    BY <1>0, <1>c DEF ListsAgree
  <2>2. CASE k = n
    <3>1. rows[n] = <<>>
      BY <1>c, <2>2
    <3>2. r[n] = <<"pending">>
      BY <1>5, <1>6, <3>1
    <3>3. active[n] = <<>>
      BY <2>1, <2>2, <3>1, RunningOfNone
    <3>4. a[n] = <<"pending">>
      BY <1>7, <3>3
    <3>5. Running(<<"pending">>) = <<"pending">> /\ Len(<<"pending">>) <= 1
      BY RunningOfOne DEF RunStates
    <3>6. AsShown("pending") = <<"pending">>
      BY DEF AsShown, RowStates, RunStates
    <3> QED
      BY <1>8, <2>2, <3>2, <3>4, <3>5, <3>6
  <2>3. CASE k = m /\ m # n
    <3>1. r[m] = <<>> /\ a[m] = active[m]
      BY <1>6, <1>7, <2>3
    <3>2. active[m] = <<>>
      BY <1>c, <2>3
    <3>3. AsShown("gone") = <<>>
      BY DEF AsShown, RowStates, RunStates, EndStates
    <3>4. Len(<<>>) <= 1
      OBVIOUS
    <3> QED
      BY <1>8, <2>3, <3>1, <3>2, <3>3, <3>4, RunningOfNone
  <2>4. CASE k \notin {m, n}
    <3>1. r[k] = rows[k] /\ a[k] = active[k]
      BY <1>6, <1>7, <2>4
    <3>2. k \notin st /\ ~Queued(k, q) /\ ~Busy(k)' => rows[k] = AsShown(row[k])
      BY <1>0, <1>2, <1>8, <1>e, <2>1, <2>4 DEF FreshInv
    <3> QED
      BY <2>1, <3>1, <3>2
  <2> QED
    BY <2>2, <2>3, <2>4
<1>10. /\ listing' \in [ListSlots -> Get] /\ TakenIsKnown' /\ row' = row
       /\ q \in Seq(Push) /\ (~up => q = <<>>) /\ LastTold(q, row) /\ AllMoved(q, row)
  BY <1>0, <1>2, <1>a DEF BoardShape, Told, TakenIsKnown
<1>11. Fits(r, a, q)
  BY <1>6, <1>7, <1>10 DEF Fits
<1>12. Shows(r, a, q, st)
  BY <1>9 DEF Shows
<1>13. Unmoved
  BY <1>10, <1>b DEF Unmoved
<1> QED
  BY <1>3, <1>11, <1>12, <1>13, BoardChanges

LEMMA BoardInvNext == ASSUME BoardInv, [BoardNext]_boardVars PROVE BoardInv'
<1>1. CASE UNCHANGED boardVars
  BY <1>1 DEF BoardInv, boardVars, BoardShape, TakenIsKnown, CommandInv, ListsAgree, FreshInv, Busy, Queued,
              LastTold, AllMoved
<1>2. CASE BoardNext
  <2>1. CASE SocketUp \/ SocketDown
    BY <2>1, SocketSteps
  <2>2. CASE PushArrives
    BY <2>2, PushStep
  <2>3. CASE Revisit \/ \E k \in ListSlots : ListTaken(k) \/ ListLost(k)
    BY <2>3, ListingSteps
  <2>4. ASSUME NEW k \in ListSlots, ListArrives(k) PROVE BoardInv'
    BY <2>4, ListStep
  <2>5. ASSUME NEW m \in Migrations, \/ \E s \in RowStates : RowMoves(m, s)
                                     \/ OtherStarts(m)
        PROVE  BoardInv'
    <3>1. "pending" \in RowStates
      BY DEF RowStates, RunStates
    <3>2. PICK s \in RowStates : RowMoves(m, s) \/ OtherStarts(m)
      BY <2>5, <3>1
    <3> QED
      BY <3>2, RowStep
  <2>6. ASSUME NEW m \in Migrations, AskStart(m) \/ AskCancel(m) \/ AskDelete(m) \/ AskRetry(m)
        PROVE  BoardInv'
    BY <2>6, AskSteps
  <2>7. ASSUME NEW m \in Migrations, StartAnswered(m) \/ CommandFails(m) PROVE BoardInv'
    BY <2>7, AnswerSteps
  <2>8. ASSUME NEW m \in Migrations,
               StartPerformed(m) \/ DeletePerformed(m) \/ RetryDeletes(m) \/ RetryStarts(m)
        PROVE  BoardInv'
    BY <2>8, CommandStep
  <2>9. ASSUME NEW m \in Migrations, CancelAnswered(m) \/ DeleteAnswered(m) \/ RetryAnswered(m)
        PROVE  BoardInv'
    BY <2>9, CancelStep, DeleteStep, RetryStep
  <2> QED
    BY <1>2, <2>1, <2>2, <2>3, <2>4, <2>5, <2>6, <2>7, <2>8, <2>9 DEF BoardNext
<1> QED
  BY <1>1, <1>2

LEMMA BoardInvMeans == BoardInv => QuietBoardIsServer
<1> SUFFICES ASSUME BoardInv PROVE QuietBoardIsServer
  OBVIOUS
<1>1. ListsAgree
  BY DEF BoardInv
<1>2. ASSUME pushes = <<>>, \A m \in Migrations : command[m] = NoCommand,
             NEW m \in Migrations \ (stale \cup tangled)
      PROVE  rows[m] = AsShown(row[m])
  <2>1. ~Queued(m, pushes)
    BY <1>2 DEF Queued
  <2>2. ~Busy(m)
    BY <1>2 DEF Busy, NoCommand
  <2> QED
    BY <2>1, <2>2 DEF BoardInv, FreshInv
<1> QED
  BY <1>1, <1>2 DEF QuietBoardIsServer, AsShown

\* The two lists of the store agree, each migration is listed once, and when nothing
\* is on its way the list is the server's, but for the ids the page was not told of
\* and those that a retry entangled (migration-store.ts), for any number of
\* migrations, listings and messages.
THEOREM BoardIsServer == BoardSpec => []QuietBoardIsServer
<1>1. BoardInit => BoardInv
  BY BoardInvInit
<1>2. BoardInv /\ [BoardNext]_boardVars => BoardInv'
  BY BoardInvNext
<1>3. BoardInv => QuietBoardIsServer
  BY BoardInvMeans
<1> QED
  BY <1>1, <1>2, <1>3, PTL DEF BoardSpec

-----------------------------------------------------------------------------
(* The pages together.                                                      *)

ScreenInv == QuietInv /\ ListingInv /\ DialogInv /\ ChatInv /\ WizardInv

LEMMA ScreenInvInit == ConsoleInit => ScreenInv
BY QuietInvInit, ListingInvInit, DialogInvInit, ChatInvInit, WizardInvInit DEF ConsoleInit, ScreenInv

LEMMA ScreenInvNext == ScreenInv /\ [ConsoleNext]_consoleVars => ScreenInv'
<1> SUFFICES ASSUME ScreenInv, [ConsoleNext]_consoleVars PROVE ScreenInv'
  OBVIOUS
<1>1. /\ [NetNext]_netVars /\ [ListingNext]_listingVars /\ [DialogNext]_dialogVars
      /\ [ChatNext]_chatVars /\ [WizardNext]_wizardVars
  BY Zenon DEF ConsoleNext, consoleVars
<1> QED
  BY <1>1, QuietInvNext, ListingInvNext, DialogInvNext, ChatInvNext, WizardInvNext DEF ScreenInv

\* Whichever page is used, and for any nodes, VMs, directories and conversations:
\* what a page shows, and what its orders name, is of the object that it is about,
\* however late the answers for the one before it come.
THEOREM ScreensAreTrue == ConsoleSpec => []ScreenIsOfItsObject
<1>1. ScreenInv => ScreenIsOfItsObject
  BY QuietFromInv, ListingFromInv, DialogFromInv, ChatFromInv, WizardFromInv
  DEF ScreenInv, ScreenIsOfItsObject
<1> QED
  BY <1>1, ScreenInvInit, ScreenInvNext, PTL DEF ConsoleSpec

\* A behaviour of the console is one of each of its pages, so that what is proved of a page
\* holds there: of the session, the editor, the live socket, the board and the panels.
THEOREM PagesKeepTheirPromises ==
  ConsoleSpec => /\ [](TokensMatchSession /\ WaiterHasRefresh /\ SessionLostHasReason)
                 /\ [](EditorKeepsToItsFile /\ OneSocket /\ NeverStranded /\ QuietBoardIsServer)
                 /\ ShowsLatestOnly
<1>1. ConsoleInit => SessionInit /\ FilesInit /\ SocketInit /\ BoardInit /\ NetInit
  BY DEF ConsoleInit
<1>2. [ConsoleNext]_consoleVars => /\ [SessionNext]_sessionVars /\ [FilesNext]_filesVars
                                  /\ [SocketNext]_socketVars /\ [BoardNext]_boardVars /\ [NetNext]_netVars
  BY Zenon DEF ConsoleNext, consoleVars
<1>3. ConsoleSpec => SessionSpec /\ FilesSpec /\ SocketSpec /\ BoardSpec /\ NetSpec
  BY <1>1, <1>2, PTL DEF ConsoleSpec, SessionSpec, FilesSpec, SocketSpec, BoardSpec, NetSpec
<1> QED
  BY <1>3, TokensAreTheUsers, NobodyWaitsInVain, SessionsEndForAReason, NoForeignText, OnlyOneSocket,
     WillConnect, BoardIsServer, PanelsShowLatest, PTL

=============================================================================
