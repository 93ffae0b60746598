---------------------------- MODULE WebSession ----------------------------
(***************************************************************************)
(* The session of the web console: the tokens that each browser tab keeps  *)
(* (src/frontend/src/stores/auth-store.ts), the interceptors that attach   *)
(* the access token and refresh it after a 401 (lib/api.ts), and the       *)
(* rotation of refresh tokens on the server (auth_service.go).             *)
(* The tabs of a browser share localStorage: every change of a tab's store *)
(* writes it, and it is read only when a page is loaded.                   *)
(*                                                                         *)
(* A token pair is a number; the pair of a login is also the name of that  *)
(* login's user.  0 is null.                                               *)
(***************************************************************************)
EXTENDS Naturals, FiniteSets

CONSTANTS Tabs,
          Requests,   \* bound: per tab, the requests it has out at a time
          MaxAsked,   \* bound: requests that are out in all tabs
          MaxIssued   \* bound: token pairs the server issues

ASSUME MaxIssuedAssumption == MaxIssued \in Nat

VARIABLES store,    \* per tab: access and refresh token, user, isAuthenticated
          disk,     \* localStorage["prometheus-auth"]
          open,     \* tabs that are open
          request,  \* per tab and slot: a request of the tab, or "idle"
          refresh,  \* per tab: refreshPromise and what has become of its POST
          issued,   \* server: token pairs issued so far
          issuedTo, \* server: the login that a pair belongs to
          live,     \* server: refresh tokens neither revoked nor expired
          mishap,   \* history: see SessionLostHasReason
          crossed,  \* history: a logout met an answer that was still out
          ended     \* history: the interceptor has ended a tab's session

sessionVars == <<store, disk, open, request, refresh, issued, issuedTo, live,
                 mishap, crossed, ended>>

Pairs == 0 .. MaxIssued
Stores == [access : Pairs, refresh : Pairs, user : Pairs, auth : BOOLEAN]
RequestStates == [phase : {"idle", "sent", "waits", "resent"},
                  kind : {"page", "me", "login", "badlogin"}, token : Pairs]
NoRefresh == [phase |-> "none", token |-> 0, new |-> 0]

SessionTypeOK ==
  /\ store \in [Tabs -> Stores]
  /\ disk \in Stores
  /\ open \subseteq Tabs
  /\ DOMAIN request = Tabs
  /\ \A t \in Tabs : request[t] \in [Requests[t] -> RequestStates]
  /\ refresh \in [Tabs -> [phase : {"none", "asked", "granted", "failed"},
                           token : Pairs, new : Pairs]]
  /\ issued \in Pairs
  /\ issuedTo \in [Pairs -> Pairs]
  /\ live \subseteq 1 .. issued
  /\ mishap \in BOOLEAN /\ crossed \in BOOLEAN /\ ended \in BOOLEAN

SignedOut == [access |-> 0, refresh |-> 0, user |-> 0, auth |-> FALSE]
Idle == [phase |-> "idle", kind |-> "page", token |-> 0]

SessionInit ==
  /\ store = [t \in Tabs |-> SignedOut] /\ disk = SignedOut
  /\ open = {}
  /\ request = [t \in Tabs |-> [r \in Requests[t] |-> Idle]]
  /\ refresh = [t \in Tabs |-> NoRefresh]
  /\ issued = 0 /\ issuedTo = [n \in Pairs |-> 0] /\ live = {}
  /\ mishap = FALSE /\ crossed = FALSE /\ ended = FALSE

-----------------------------------------------------------------------------
(* Steps of the store.                                                      *)

\* A set() of the store: persist() writes the whole record of this tab.
SetStore(t, s) == store' = [store EXCEPT ![t] = s] /\ disk' = s

\* The requests of tab t in the phases of P.
InPhase(t, P) == {r \in Requests[t] : request[t][r].phase \in P}

\* The slots of S are free again, or send their request again with token n.
Free(t, S) ==
  request' = [request EXCEPT ![t] = [r \in Requests[t] |-> IF r \in S THEN Idle ELSE request[t][r]]]
Resend(t, S, n) ==
  request' = [request EXCEPT ![t] = [r \in Requests[t] |->
                IF r \in S THEN [request[t][r] EXCEPT !.phase = "resent", !.token = n]
                ELSE request[t][r]]]

\* An answer of tab t is out that writes the store when it arrives.
Pending(t) == \/ refresh[t].phase # "none"
              \/ \E r \in InPhase(t, {"sent", "waits", "resent"}) : request[t][r].kind # "page"

Logout_KeepsRefreshToken(t) ==
  /\ live' \in {live, live \ {store[t].refresh}}
  /\ SetStore(t, [SignedOut EXCEPT !.refresh = store[t].refresh])
  /\ crossed' = (crossed \/ Pending(t)')

\* logout(): the POST to /auth/logout may be lost, the store is cleared anyway.
Logout(t) == /\ \/ live' = live \ {store[t].refresh}
                \/ UNCHANGED live
             /\ SetStore(t, SignedOut)
             /\ crossed' = (crossed \/ Pending(t)')

\* The interceptor calls logout().
ForcedLogout(t) == Logout(t) /\ ended' = (ended \/ store[t].auth)

\* The server answers with a pair of user u, or of the login itself if u is 0.
Issue(u) == /\ issued < MaxIssued
            /\ issued' = issued + 1
            /\ issuedTo' = [issuedTo EXCEPT ![issued + 1] = IF u = 0 THEN issued + 1 ELSE u]

-----------------------------------------------------------------------------
(* The pages.                                                               *)

\* A page is opened or loaded again: its memory is what localStorage holds.
\* A refresh that was out has been dropped by the browser, but may have been
\* carried out.
LoadPage(t) ==
  /\ open' = open \cup {t}
  /\ store' = [store EXCEPT ![t] = disk]
  /\ request' = [request EXCEPT ![t] = [r \in Requests[t] |-> Idle]]
  /\ refresh' = [refresh EXCEPT ![t] = NoRefresh]
  /\ \/ UNCHANGED live
     \/ refresh[t].phase = "asked" /\ live' = live \ {refresh[t].token}
  /\ mishap' = (mishap \/ open \ {t} # {} \/ refresh[t].phase # "none")
  /\ UNCHANGED <<disk, issued, issuedTo, crossed, ended>>

\* The request interceptor attaches the token of the store.
Send(t, r, kind) ==
  request' = [request EXCEPT ![t][r] = [phase |-> "sent", kind |-> kind,
                                        token |-> store[t].access]]

LoggingIn(t) == \E r \in InPhase(t, {"sent", "waits", "resent"}) :
                   request[t][r].kind \in {"login", "badlogin"}

Room == Cardinality(UNION {{t} \X InPhase(t, {"sent", "waits", "resent"}) : t \in Tabs})
          < MaxAsked

\* A page asks for data, or the change of a password has it call fetchUser.
Ask(t, r) ==
  /\ t \in open /\ store[t].auth /\ request[t][r].phase = "idle" /\ ~LoggingIn(t) /\ Room
  /\ \E kind \in {"page", "me"} : Send(t, r, kind)
  /\ UNCHANGED <<store, disk, open, refresh, issued, issuedTo, live, mishap, crossed, ended>>

\* The form of the login page is submitted.
Login(t, r) ==
  /\ t \in open /\ request[t][r].phase = "idle"
  /\ ~store[t].auth \/ InPhase(t, {"idle"}) = Requests[t]
  /\ ~LoggingIn(t) /\ Room
  /\ \E kind \in {"login", "badlogin"} : Send(t, r, kind)
  /\ UNCHANGED <<store, disk, open, refresh, issued, issuedTo, live, mishap, crossed, ended>>

\* The user signs out, in the header or the sidebar.
SignOut(t) ==
  /\ t \in open /\ store[t].auth
  /\ UNCHANGED <<open, request, refresh, issued, issuedTo, mishap, ended>>
  /\ Logout(t)

-----------------------------------------------------------------------------
(* Answers.                                                                 *)

\* The middleware refuses a data request without an access token or with one
\* whose minutes are over; the login route refuses a wrong password.
MayRefuse(q) == q.kind # "login"
MayAccept(q) == CASE q.kind = "badlogin" -> FALSE
                  [] q.kind = "login" -> TRUE
                  [] OTHER -> q.token # 0

Settle(t, r) == request' = [request EXCEPT ![t][r] = Idle]

\* The answer is passed on; a login and fetchUser write the store.
Succeed(t, r) ==
  LET q == request[t][r] IN
  /\ q.phase \in {"sent", "resent"} /\ MayAccept(q)
  /\ Settle(t, r)
  /\ CASE q.kind = "login" ->
            /\ Issue(0)
            /\ live' = live \cup {issued + 1}
            /\ SetStore(t, [access |-> issued + 1, refresh |-> issued + 1,
                            user |-> issued + 1, auth |-> TRUE])
       [] q.kind = "me" ->
            /\ SetStore(t, [store[t] EXCEPT !.user = issuedTo[q.token], !.auth = TRUE])
            /\ UNCHANGED <<issued, issuedTo, live>>
       [] OTHER -> UNCHANGED <<store, disk, issued, issuedTo, live>>
  /\ UNCHANGED <<open, refresh, mishap, crossed, ended>>

\* fetchUser calls logout() after a 401, or if the token is gone.
GivesUp(t, r, unauthorized) ==
  request[t][r].kind = "me" /\ (unauthorized \/ store[t].access = 0)

\* Any other error than a first 401 is passed on: of the transport, of the
\* server, or the 401 of a request that has been sent again.
Fail(t, r) ==
  LET q == request[t][r]
      refused == MayRefuse(q) /\ q.phase = "resent"
  IN /\ q.phase \in {"sent", "resent"}
     /\ Settle(t, r)
     /\ UNCHANGED <<open, refresh, issued, issuedTo>>
     /\ \E unauthorized \in {refused, FALSE} :
          IF GivesUp(t, r, unauthorized)
          THEN ForcedLogout(t) /\ mishap' = (mishap \/ store[t].auth)
          ELSE UNCHANGED <<store, disk, live, crossed, ended, mishap>>

Refreshing_NotShared(t) ==
  refresh' = [refresh EXCEPT ![t] = [phase |-> "asked", token |-> store[t].refresh, new |-> 0]]

\* refreshPromise is created unless there is one already.
Refreshing(t) ==
  IF refresh[t].phase = "none"
  THEN refresh' = [refresh EXCEPT ![t] = [phase |-> "asked", token |-> store[t].refresh, new |-> 0]]
  ELSE UNCHANGED refresh

\* The response interceptor meets the first 401 of a request.
Refuse(t, r) ==
  LET q == request[t][r] IN
  /\ q.phase = "sent" /\ MayRefuse(q)
  /\ IF store[t].refresh = 0
     THEN Settle(t, r) /\ UNCHANGED refresh /\ ForcedLogout(t)
     ELSE /\ request' = [request EXCEPT ![t][r].phase = "waits"]
          /\ Refreshing(t)
          /\ UNCHANGED <<store, disk, live, crossed, ended>>
  /\ UNCHANGED <<open, issued, issuedTo, mishap>>

\* Service.Refresh: the old token is revoked and a new one is stored, or the
\* token is not good, or something fails before or after the revocation.
ServeRefresh(t) ==
  LET old == refresh[t].token IN
  /\ refresh[t].phase = "asked"
  /\ \/ /\ old \in live /\ Issue(issuedTo[old])
        /\ live' = (live \ {old}) \cup {issued + 1}
        /\ refresh' = [refresh EXCEPT ![t].phase = "granted", ![t].new = issued + 1]
        /\ UNCHANGED mishap
     \/ /\ old \notin live
        /\ refresh' = [refresh EXCEPT ![t].phase = "failed"]
        /\ UNCHANGED <<issued, issuedTo, live, mishap>>
     \/ /\ refresh' = [refresh EXCEPT ![t].phase = "failed"]
        /\ live' \in {live, live \ {old}}
        /\ mishap' = TRUE
        /\ UNCHANGED <<issued, issuedTo>>
  /\ UNCHANGED <<store, disk, open, request, crossed, ended>>

RefreshDone_ForgetsWaiters(t) ==
  /\ refresh[t].phase = "granted"
  /\ SetStore(t, [store[t] EXCEPT !.access = refresh[t].new, !.refresh = refresh[t].new])
  /\ refresh' = [refresh EXCEPT ![t] = NoRefresh]
  /\ Resend(t, {CHOOSE r \in InPhase(t, {"waits"}) : TRUE}, refresh[t].new)
  /\ UNCHANGED <<open, issued, issuedTo, live, mishap, crossed, ended>>

\* refreshPromise resolves: the pair is stored, and all that waited is sent again
\* (with the token of the store: the request interceptor sees it once more).
RefreshDone(t) ==
  /\ refresh[t].phase = "granted"
  /\ SetStore(t, [store[t] EXCEPT !.access = refresh[t].new, !.refresh = refresh[t].new])
  /\ refresh' = [refresh EXCEPT ![t] = NoRefresh]
  /\ Resend(t, InPhase(t, {"waits"}), refresh[t].new)
  /\ UNCHANGED <<open, issued, issuedTo, live, mishap, crossed, ended>>

\* refreshPromise rejects: whoever waited logs out and gets its 401.
RefreshFailed(t) ==
  /\ refresh[t].phase = "failed"
  /\ refresh' = [refresh EXCEPT ![t] = NoRefresh]
  /\ Free(t, InPhase(t, {"waits"}))
  /\ ForcedLogout(t)
  /\ UNCHANGED <<open, issued, issuedTo, mishap>>

-----------------------------------------------------------------------------
(* A refresh token is good for days.                                        *)

ExpireRefresh(n) ==
  /\ live' = live \ {n} /\ n \in live
  /\ mishap' = TRUE
  /\ UNCHANGED <<store, disk, open, request, refresh, issued, issuedTo, crossed, ended>>

SessionNext ==
  \/ \E t \in Tabs :
       \/ LoadPage(t) \/ SignOut(t)
       \/ ServeRefresh(t) \/ RefreshDone(t) \/ RefreshFailed(t)
       \/ \E r \in Requests[t] : \/ Ask(t, r) \/ Login(t, r)
                              \/ Succeed(t, r) \/ Fail(t, r) \/ Refuse(t, r)
  \/ \E n \in 1 .. issued : ExpireRefresh(n)

SessionSpec == SessionInit /\ [][SessionNext]_sessionVars

-----------------------------------------------------------------------------
(* Properties.                                                              *)

\* A tab keeps both tokens of one pair, of the user it shows, or nothing at all,
\* unless a logout has met an answer that was still out (api.ts:70 and
\* auth-store.ts:84 write the store whatever has happened since the request).
TokensMatchSession ==
  ~crossed => \A t \in open :
                /\ store[t].access = store[t].refresh
                /\ store[t].auth <=> store[t].refresh # 0
                /\ store[t].user = issuedTo[store[t].refresh]

\* One tab whose refreshes are answered never loses its session: many requests
\* may find the access token expired at once, and all share one rotation.  A
\* mishap is a second tab (it keeps a token that is rotated away), a reload
\* during a refresh, a refresh that fails on the way or in the server, or the
\* end of the refresh token's life.
SessionLostHasReason == ended => mishap \/ crossed

\* A request waits only while a refresh is out whose end will send it again or
\* reject it: no caller hangs on a promise that nobody settles, whatever is
\* asked, refused, signed out or loaded again meanwhile.
WaiterHasRefresh ==
  \A t \in Tabs : InPhase(t, {"waits"}) # {} <=> refresh[t].phase # "none"
=============================================================================
