------------------------------- MODULE VMShell -------------------------------
(***************************************************************************)
(* The terminals of the cockpit of a guest (vm-cockpit/shell-tab.tsx,      *)
(* hooks/use-vm-shell.ts).  Up to four tabs share one websocket: what is   *)
(* typed in any of them goes to the one shell, and what the shell prints   *)
(* is written to the tab that is shown when it arrives.                    *)
(*                                                                         *)
(* The events of a socket that was replaced still arrive, and act like     *)
(* those of the current one.                                               *)
(***************************************************************************)
EXTENDS SequencesExt

CONSTANTS Sockets, NoSocket,
          MaxSessions,   \* MAX_SESSIONS
          MaxOpened      \* bound: tabs opened in all

ASSUME ShellAssumption == NoSocket \notin Sockets /\ MaxSessions \in Nat \ {0}

VARIABLES shellShown,      \* ShellTab is rendered
          sock,         \* per socket: its state
          wsRef,
          isConnected, shellError,
          sessions,     \* the tabs, by their numbers
          activeSessionId,
          nextIdRef,
          unanswered,      \* the tab whose input the shell has not answered, or 0
          overtaken,    \* history: a replaced socket ended while the current one was open
          switched,     \* history: the tab was changed while it had no answer
          astray,       \* history: an answer was written to another tab
          quietEnd      \* history: why there is no shell, if no error says so

shellVars == <<shellShown, sock, wsRef, isConnected, shellError, sessions, activeSessionId, nextIdRef,
               unanswered, overtaken, switched, astray, quietEnd>>

\* "closing" and "dropping": closed by the page, the latter before it was open, for which
\* the browser reports the code of an abnormal closure.
SocketStates == {"none", "connecting", "open", "closing", "dropping"}

ShellTypeOK ==
  /\ sock \in [Sockets -> SocketStates] /\ wsRef \in Sockets \cup {NoSocket}
  /\ shellError \in {"none", "denied", "failed"}
  /\ sessions \in Seq(1..MaxOpened) /\ activeSessionId \in 0..MaxOpened
  /\ nextIdRef \in 1..(MaxOpened + 1) /\ unanswered \in 0..MaxOpened
  /\ {shellShown, isConnected, overtaken, switched, astray, quietEnd} \subseteq BOOLEAN

ShellInit ==
  /\ shellShown = FALSE
  /\ sock = [k \in Sockets |-> "none"] /\ wsRef = NoSocket
  /\ isConnected = FALSE /\ shellError = "none"
  /\ sessions = <<>> /\ activeSessionId = 0 /\ nextIdRef = 1
  /\ unanswered = 0 /\ overtaken = FALSE /\ switched = FALSE /\ astray = FALSE /\ quietEnd = FALSE

Tabs == {sessions[i] : i \in DOMAIN sessions}

-----------------------------------------------------------------------------
(* useVMShell.                                                              *)

\* close() of the socket of the ref.
Closed == [k \in Sockets |-> IF k # wsRef THEN sock[k]
                             ELSE CASE sock[k] = "connecting" -> "dropping"
                                    [] sock[k] = "open" -> "closing"
                                    [] OTHER -> sock[k]]

\* connect: without a token nothing happens.
Connect(k) ==
  /\ sock[k] = "none"
  /\ sock' = [Closed EXCEPT ![k] = "connecting"] /\ wsRef' = k
  /\ overtaken' = FALSE /\ quietEnd' = FALSE

ConnectWithoutToken == UNCHANGED <<sock, wsRef, overtaken>> /\ quietEnd' = TRUE

\* disconnect, when the tab is left: events of sockets that it closed reach nobody.
Disconnect ==
  /\ sock' = [k \in Sockets |-> IF Closed[k] \in {"closing", "dropping"} THEN "none" ELSE Closed[k]]
  /\ wsRef' = NoSocket /\ isConnected' = FALSE

SocketOpens(k) ==
  /\ sock[k] = "connecting" /\ sock' = [sock EXCEPT ![k] = "open"]
  /\ isConnected' = TRUE
  /\ UNCHANGED <<shellShown, wsRef, shellError, sessions, activeSessionId, nextIdRef, unanswered,
                 overtaken, switched, astray, quietEnd>>

\* onclose, of whichever socket: the codes are 1008, 1011 or 1006, and any other.
SocketCloses(k, code) ==
  /\ sock[k] # "none" /\ sock' = [sock EXCEPT ![k] = "none"]
  /\ sock[k] = "dropping" => code = "failed"
  /\ sock[k] = "closing" => code # "denied"
  /\ sock[k] = "connecting" => code # "none"
  /\ isConnected' = FALSE
  /\ shellError' = IF code = "none" THEN shellError ELSE code
  /\ overtaken' = (overtaken \/ (k # wsRef /\ sock[wsRef] = "open"))
  /\ quietEnd' = (quietEnd \/ (k = wsRef /\ code = "none"))
  /\ unanswered' = IF k = wsRef THEN 0 ELSE unanswered
  /\ UNCHANGED <<shellShown, wsRef, sessions, activeSessionId, nextIdRef, switched, astray>>

-----------------------------------------------------------------------------
(* ShellTab.                                                                *)

\* The shell is rendered only while its tab is selected and the guest runs.
OpenShell ==
  /\ ~shellShown /\ shellShown' = TRUE
  /\ ConnectWithoutToken \/ \E k \in Sockets : Connect(k)
  /\ UNCHANGED <<isConnected, shellError, sessions, activeSessionId, nextIdRef, unanswered, switched, astray>>

LeaveShell ==
  /\ shellShown /\ shellShown' = FALSE /\ Disconnect
  /\ shellError' = "none" /\ sessions' = <<>> /\ activeSessionId' = 0 /\ nextIdRef' = 1
  /\ unanswered' = 0 /\ overtaken' = FALSE /\ switched' = FALSE /\ quietEnd' = FALSE
  /\ UNCHANGED astray

\* The error is shown unless the shell is connected.
Retry ==
  /\ shellShown /\ shellError # "none" /\ ~isConnected
  /\ shellError' = "none"
  /\ ConnectWithoutToken \/ \E k \in Sockets : Connect(k)
  /\ UNCHANGED <<shellShown, isConnected, sessions, activeSessionId, nextIdRef, unanswered, switched, astray>>

\* createSession: by its button, or by the effect of isConnected when there is no tab.
CreateSession ==
  /\ shellShown /\ Len(sessions) < MaxSessions /\ nextIdRef <= MaxOpened
  /\ sessions' = Append(sessions, nextIdRef) /\ activeSessionId' = nextIdRef
  /\ nextIdRef' = nextIdRef + 1
  /\ switched' = (switched \/ unanswered # 0)
  /\ UNCHANGED <<shellShown, sock, wsRef, isConnected, shellError, unanswered, overtaken, astray, quietEnd>>

\* closeSession: the last one takes over.  A single tab has no button for it.  The filter
\* takes away the one tab that has the number (TabsAreTrue).
CloseSession(id) ==
  /\ shellShown /\ Len(sessions) > 1
  /\ \E i \in DOMAIN sessions : sessions[i] = id /\ sessions' = RemoveAt(sessions, i)
  /\ activeSessionId' = IF activeSessionId = id THEN Last(sessions') ELSE activeSessionId
  /\ switched' = (switched \/ (unanswered = id))
  /\ UNCHANGED <<shellShown, sock, wsRef, isConnected, shellError, nextIdRef, unanswered, overtaken,
                 astray, quietEnd>>

ShowSession(id) ==
  /\ shellShown /\ id \in Tabs \ {activeSessionId} /\ activeSessionId' = id
  /\ switched' = (switched \/ unanswered # 0)
  /\ UNCHANGED <<shellShown, sock, wsRef, isConnected, shellError, sessions, nextIdRef, unanswered, overtaken,
                 astray, quietEnd>>

\* onData of the terminal that is shown: the text is dropped unless the socket is open.
TypeIn ==
  /\ shellShown /\ activeSessionId # 0
  /\ wsRef # NoSocket /\ sock[wsRef] = "open"
  /\ unanswered' = activeSessionId /\ switched' = FALSE
  /\ UNCHANGED <<shellShown, sock, wsRef, isConnected, shellError, sessions, activeSessionId, nextIdRef,
                 overtaken, astray, quietEnd>>

\* onmessage: the handler of the current render writes to the tab that is shown.
Output ==
  /\ shellShown /\ wsRef # NoSocket /\ sock[wsRef] = "open" /\ unanswered # 0
  /\ astray' = (astray \/ (unanswered # activeSessionId /\ ~switched))
  /\ unanswered' = 0 /\ switched' = FALSE
  /\ UNCHANGED <<shellShown, sock, wsRef, isConnected, shellError, sessions, activeSessionId, nextIdRef,
                 overtaken, quietEnd>>

ShellNext ==
  \/ OpenShell \/ LeaveShell \/ Retry \/ CreateSession \/ TypeIn \/ Output
  \/ \E k \in Sockets : SocketOpens(k) \/ \E code \in {"none", "denied", "failed"} : SocketCloses(k, code)
  \/ \E id \in Tabs : CloseSession(id) \/ ShowSession(id)

ShellSpec == ShellInit /\ [][ShellNext]_shellVars

-----------------------------------------------------------------------------

\* One shell at most is held, that of the tab on screen: no socket stays behind one that
\* replaced it or behind the page.
OneShell == \A k \in Sockets : sock[k] \in {"connecting", "open"} => shellShown /\ k = wsRef

\* The badge is that of the socket, unless the end of an older one came in while it was open; and
\* a shell that is gone can be asked for again, unless it ended without an error or there
\* was no token.
BadgeIsTrue ==
  shellShown =>
    /\ overtaken \/ (isConnected <=> wsRef # NoSocket /\ sock[wsRef] = "open")
    /\ ~isConnected /\ (\A k \in Sockets : sock[k] = "none") => shellError # "none" \/ quietEnd

\* The tab on screen is one of those listed, and an answer appears in the tab that it was
\* typed in unless another one was shown in the meantime.
TabsAreTrue ==
  /\ shellShown => (activeSessionId \in Tabs <=> sessions # <<>>) /\ Len(sessions) = Cardinality(Tabs)
  /\ ~astray

\* One shell at most, whose state the badge tells, under tabs that show what was asked in them.
ShellIsTrue == OneShell /\ BadgeIsTrue /\ TabsAreTrue
=============================================================================
