------------------------------- MODULE LogTail -------------------------------
(***************************************************************************)
(* The log page of a node (nodes/[id]/logs/page.tsx) with its live tail    *)
(* (hooks/use-log-stream.ts): the page reads the log again and again, or   *)
(* follows it through a websocket.  What the reads show is NodeLogsPage of *)
(* ListScreens.                                                            *)
(*                                                                         *)
(* The page passes a new array of node ids in every render, so that every  *)
(* render makes a new connect and runs the effect of the hook again: it    *)
(* closes the socket and opens another.                                    *)
(***************************************************************************)
EXTENDS FiniteSets

CONSTANTS Tails, NoTail   \* sockets

ASSUME NoTailAssumption == NoTail \notin Tails

VARIABLES logPage,        \* the page is open
          liveMode, autoRefresh,
          reading,        \* isLoading
          token,          \* accessToken is there
          tail,           \* per socket: its state
          tailRef,        \* wsRef
          following,      \* isConnected
          wanted,         \* enabled and accessToken of the render whose effect ran last
          renewed,        \* the page has rendered: connect is another one, its effect has yet to run
          reconnecting    \* reconnectTimeoutRef

logTailVars == <<logPage, liveMode, autoRefresh, reading, token, tail, tailRef, following, wanted,
                 renewed, reconnecting>>

LogTailTypeOK ==
  /\ {logPage, liveMode, autoRefresh, reading, token, following, wanted, renewed,
      reconnecting} \subseteq BOOLEAN
  /\ tail \in [Tails -> {"none", "connecting", "open"}] /\ tailRef \in Tails \cup {NoTail}

LogTailInit ==
  /\ logPage = FALSE /\ liveMode = FALSE /\ autoRefresh = FALSE /\ reading = FALSE /\ token = TRUE
  /\ tail = [k \in Tails |-> "none"] /\ tailRef = NoTail
  /\ following = FALSE /\ wanted = FALSE /\ renewed = FALSE /\ reconnecting = FALSE

-----------------------------------------------------------------------------
(* The hook.                                                                *)

\* The cleanup: the socket's onclose is taken away, so its end starts no timer.
Dropped == [k \in Tails |-> IF k = tailRef THEN "none" ELSE tail[k]]

\* connect: not while a socket is there, and never when it is not enabled.
ConnectTail(base, wants) ==
  IF wants
  THEN \E k \in Tails : base[k] = "none" /\ tail' = [base EXCEPT ![k] = "connecting"] /\ tailRef' = k
  ELSE tail' = base /\ tailRef' = NoTail

\* The effect of connect: the cleanup of the last one first.  That it takes isConnected
\* back makes the page render once more.
RunEffect ==
  /\ logPage /\ renewed
  /\ wanted' = (liveMode /\ token) /\ ConnectTail(Dropped, wanted')
  /\ following' = FALSE /\ renewed' = following /\ reconnecting' = FALSE
  /\ UNCHANGED <<logPage, liveMode, autoRefresh, reading, token>>

\* onopen: the nodes are subscribed to, and the page renders.
TailOpens(k) ==
  /\ tail[k] = "connecting" /\ tail' = [tail EXCEPT ![k] = "open"]
  /\ following' = TRUE /\ renewed' = (renewed \/ ~following)
  /\ UNCHANGED <<logPage, liveMode, autoRefresh, reading, token, tailRef, wanted, reconnecting>>

\* onclose and onerror, of the server's making.
TailEnds(k) ==
  /\ tail[k] # "none" /\ tail' = [tail EXCEPT ![k] = "none"]
  /\ following' = FALSE /\ renewed' = (renewed \/ following)
  /\ tailRef' = NoTail /\ reconnecting' = wanted
  /\ UNCHANGED <<logPage, liveMode, autoRefresh, reading, token, wanted>>

ReconnectTail ==
  /\ reconnecting /\ reconnecting' = FALSE
  /\ IF tailRef # NoTail THEN UNCHANGED <<tail, tailRef>> ELSE ConnectTail(tail, wanted)
  /\ UNCHANGED <<logPage, liveMode, autoRefresh, reading, token, following, wanted, renewed>>

-----------------------------------------------------------------------------
(* The page.                                                                *)

OpenLogs ==
  /\ ~logPage /\ logPage' = TRUE
  /\ liveMode' = FALSE /\ autoRefresh' = FALSE /\ reading' = TRUE /\ renewed' = TRUE
  /\ UNCHANGED <<token, tail, tailRef, following, wanted, reconnecting>>

LeaveLogs ==
  /\ logPage /\ logPage' = FALSE
  /\ tail' = Dropped /\ tailRef' = NoTail /\ reconnecting' = FALSE
  /\ following' = FALSE /\ renewed' = FALSE /\ reading' = FALSE
  /\ liveMode' = FALSE /\ autoRefresh' = FALSE
  /\ UNCHANGED <<token, wanted>>

\* fetchLogs: at once for another file, by its button, or every five seconds.
ReadLogs(byButton) ==
  /\ logPage
  /\ byButton => ~reading /\ ~liveMode
  /\ reading' = TRUE /\ renewed' = TRUE
  /\ UNCHANGED <<logPage, liveMode, autoRefresh, token, tail, tailRef, following, wanted, reconnecting>>

LogsRead ==
  /\ reading /\ reading' = FALSE /\ renewed' = TRUE
  /\ UNCHANGED <<logPage, liveMode, autoRefresh, token, tail, tailRef, following, wanted, reconnecting>>

\* The switch of the live stream ends the automatic reading.
SetLive(v) ==
  /\ logPage /\ v # liveMode /\ liveMode' = v
  /\ autoRefresh' = (autoRefresh /\ ~v) /\ renewed' = TRUE
  /\ UNCHANGED <<logPage, reading, token, tail, tailRef, following, wanted, reconnecting>>

SetAutoRefresh(v) ==
  /\ logPage /\ ~liveMode /\ v # autoRefresh /\ autoRefresh' = v /\ renewed' = TRUE
  /\ UNCHANGED <<logPage, liveMode, reading, token, tail, tailRef, following, wanted, reconnecting>>

\* The session ends or begins.
SetToken(v) ==
  /\ v # token /\ token' = v /\ renewed' = logPage
  /\ UNCHANGED <<logPage, liveMode, autoRefresh, reading, tail, tailRef, following, wanted, reconnecting>>

LogTailNext ==
  \/ OpenLogs \/ LeaveLogs \/ RunEffect \/ LogsRead \/ ReconnectTail
  \/ \E v \in BOOLEAN : ReadLogs(v) \/ SetLive(v) \/ SetAutoRefresh(v) \/ SetToken(v)
  \/ \E k \in Tails : TailOpens(k) \/ TailEnds(k)

LogTailSpec == LogTailInit /\ [][LogTailNext]_logTailVars

-----------------------------------------------------------------------------

\* One socket at most follows the log, the one that the page can close, and none once the
\* page has settled without the live stream.
OneTail ==
  /\ \A k \in Tails : tail[k] # "none" => k = tailRef
  /\ tailRef # NoTail /\ ~renewed => logPage /\ liveMode /\ token

\* A live stream that has no socket will get one: by the effect or by the timer.
TailComesBack == logPage /\ liveMode /\ token /\ tailRef = NoTail => renewed \/ reconnecting

\* What the array of page.tsx:76 makes of it: the stream is never connected in a page that
\* has settled, each connection is closed by the render that shows it.
TailIsFleeting == following => renewed

\* One live tail at most, which comes back when it is lost, for all the good it does.
LogTailIsTrue == OneTail /\ TailComesBack /\ TailIsFleeting
=============================================================================
