----------------------------- MODULE LiveSocket -----------------------------
(***************************************************************************)
(* The hook that keeps a WebSocket to the hub (hooks/use-websocket.ts):    *)
(* one instance of it, from the mount of its component on.  The sockets'   *)
(* events, the timers and the effects of React interleave; an effect's     *)
(* cleanup and its next run are one step.                                  *)
(*                                                                         *)
(* Every render with another token or other callbacks makes a new connect  *)
(* closure; sockets and timers keep the closure that made them.            *)
(***************************************************************************)
EXTENDS Naturals

CONSTANTS Sockets, NoSocket,  \* bound: sockets that exist at a time
          Timers, NoTimer,    \* bound: timeouts that are pending at a time
          MaxClosure          \* bound: closures, that is renders with changed dependencies

ASSUME NoSocketAssumption == NoSocket \notin Sockets
ASSUME NoTimerAssumption == NoTimer \notin Timers
ASSUME MaxClosureAssumption == MaxClosure \in Nat \ {0}

VARIABLES mounted, enabled,   \* enabledRef.current; unmounting leaves it as it is
          token, visible,     \* an access token in the store; visibilityState
          closure,            \* the number of the current connect
          wsRef, connecting,  \* wsRef.current, isConnectingRef.current
          socket,             \* per socket: its readyState and its closure
          timer, timerRef,    \* per timeout: its closure, 0 if not pending; the last one set
          connected,          \* isConnected
          displaced           \* history: a socket was made while another was closing

socketVars == <<mounted, enabled, token, visible, closure, wsRef, connecting, socket,
                timer, timerRef, connected, displaced>>

SocketTypeOK ==
  /\ mounted \in BOOLEAN /\ enabled \in BOOLEAN /\ token \in BOOLEAN /\ visible \in BOOLEAN
  /\ closure \in 1 .. MaxClosure
  /\ wsRef \in Sockets \cup {NoSocket} /\ connecting \in BOOLEAN
  /\ socket \in [Sockets -> [state : {"closed", "connecting", "open", "closing"},
                             closure : 0 .. MaxClosure]]
  /\ timer \in [Timers -> 0 .. MaxClosure] /\ timerRef \in Timers \cup {NoTimer}
  /\ connected \in BOOLEAN /\ displaced \in BOOLEAN

SocketInit ==
  /\ mounted = TRUE /\ enabled = FALSE /\ token \in BOOLEAN /\ visible \in BOOLEAN
  /\ closure = 1
  /\ wsRef = NoSocket /\ connecting = FALSE
  /\ socket = [s \in Sockets |-> [state |-> "closed", closure |-> 0]]
  /\ timer = [t \in Timers |-> 0] /\ timerRef = NoTimer
  /\ connected = FALSE /\ displaced = FALSE

-----------------------------------------------------------------------------
(* connect and the cleanup of its effect.                                   *)

Live(sk, s) == s # NoSocket /\ sk[s].state \in {"connecting", "open"}

MayConnect_OnlyRef(ref, going, sk) == /\ enabled' /\ token' /\ visible'
                                     /\ ~going /\ (ref = NoSocket \/ sk[ref].state # "open")

\* The guards of connect, when the reference, isConnectingRef and the sockets
\* are these.
MayConnect(ref, going, sk) == /\ enabled' /\ token' /\ visible'
                             /\ ~going /\ ~Live(sk, ref)

\* connect of closure c: new WebSocket, or nothing.
Connect(c, ref, going, sk) ==
  IF MayConnect(ref, going, sk)
  THEN \E s \in Sockets :
         /\ sk[s].state = "closed"
         /\ wsRef' = s /\ connecting' = TRUE
         /\ socket' = [sk EXCEPT ![s] = [state |-> "connecting", closure |-> c]]
         /\ displaced' = (displaced \/ \E q \in Sockets : sk[q].state = "closing")
  ELSE wsRef' = ref /\ connecting' = going /\ socket' = sk /\ UNCHANGED displaced

\* wsRef.current.close(): the close event comes later.
Closing(s) == IF Live(socket, s) THEN [socket EXCEPT ![s].state = "closing"] ELSE socket

\* clearTimeout(reconnectTimerRef.current)
Cleared == IF timerRef = NoTimer THEN timer ELSE [timer EXCEPT ![timerRef] = 0]

\* The cleanup, and connect again if the hook is enabled now.
RunEffect ==
  /\ timer' = IF enabled THEN Cleared ELSE timer
  /\ IF enabled
     THEN IF enabled' THEN Connect(closure', NoSocket, FALSE, Closing(wsRef))
          ELSE wsRef' = NoSocket /\ connecting' = FALSE /\ socket' = Closing(wsRef)
               /\ UNCHANGED displaced
     ELSE Connect(closure', wsRef, connecting, socket)
  /\ UNCHANGED <<timerRef, connected>>

-----------------------------------------------------------------------------
(* The component.                                                           *)

\* Another access token (a refresh, a login, a logout) or other callbacks.
Rerender ==
  /\ mounted /\ closure < MaxClosure
  /\ closure' = closure + 1 /\ token' \in BOOLEAN
  /\ UNCHANGED <<mounted, enabled, visible>>
  /\ RunEffect

\* The component sets or clears enabled.
SetEnabled ==
  /\ mounted /\ enabled' = ~enabled
  /\ UNCHANGED <<mounted, token, visible, closure>>
  /\ RunEffect

Unmount ==
  /\ mounted /\ mounted' = FALSE
  /\ IF enabled
     THEN timer' = Cleared /\ wsRef' = NoSocket /\ connecting' = FALSE /\ socket' = Closing(wsRef)
     ELSE UNCHANGED <<timer, wsRef, connecting, socket>>
  /\ UNCHANGED <<enabled, token, visible, closure, timerRef, connected, displaced>>

Hide ==
  /\ visible /\ visible' = FALSE
  /\ UNCHANGED <<mounted, enabled, token, closure, wsRef, connecting, socket,
                 timer, timerRef, connected, displaced>>

\* handleVisibilityChange, while the effect is on.
Show ==
  /\ ~visible /\ visible' = TRUE
  /\ UNCHANGED <<mounted, enabled, token, closure, connected>>
  /\ IF mounted /\ enabled
     THEN /\ timer' = Cleared /\ timerRef' = NoTimer
          /\ IF Live(socket, wsRef)
             THEN UNCHANGED <<wsRef, connecting, socket, displaced>>
             ELSE Connect(closure, wsRef, connecting, socket)
     ELSE UNCHANGED <<timer, timerRef, wsRef, connecting, socket, displaced>>

-----------------------------------------------------------------------------
(* Events of the sockets and the timers.                                    *)

Opened(s) ==
  /\ socket[s].state = "connecting"
  /\ socket' = [socket EXCEPT ![s].state = "open"]
  /\ connecting' = FALSE /\ connected' = TRUE
  /\ UNCHANGED <<mounted, enabled, token, visible, closure, wsRef, timer, timerRef, displaced>>

\* The server or the network ends the connection, or it is not made at all.
Dropped(s) ==
  /\ Live(socket, s)
  /\ socket' = [socket EXCEPT ![s].state = "closing"]
  /\ UNCHANGED <<mounted, enabled, token, visible, closure, wsRef, connecting,
                 timer, timerRef, connected, displaced>>

Closed_WhenNotConnected(s) ==
  /\ socket[s].state = "closing"
  /\ socket' = [socket EXCEPT ![s].state = "closed"]
  /\ connecting' = FALSE /\ connected' = FALSE
  /\ IF enabled /\ connected
     THEN \E t \in Timers : /\ timer[t] = 0
                            /\ timer' = [timer EXCEPT ![t] = socket[s].closure]
                            /\ timerRef' = t
     ELSE UNCHANGED <<timer, timerRef>>
  /\ UNCHANGED <<mounted, enabled, token, visible, closure, wsRef, displaced>>

\* onclose, of whichever socket: a reconnect is scheduled if enabledRef says so.
Closed(s) ==
  /\ socket[s].state = "closing"
  /\ socket' = [socket EXCEPT ![s].state = "closed"]
  /\ connecting' = FALSE /\ connected' = FALSE
  /\ IF enabled
     THEN \E t \in Timers : /\ timer[t] = 0
                            /\ timer' = [timer EXCEPT ![t] = socket[s].closure]
                            /\ timerRef' = t
     ELSE UNCHANGED <<timer, timerRef>>
  /\ UNCHANGED <<mounted, enabled, token, visible, closure, wsRef, displaced>>

\* The backoff is over.
Fires(t) ==
  /\ timer[t] # 0
  /\ timer' = [timer EXCEPT ![t] = 0]
  /\ UNCHANGED <<mounted, enabled, token, visible, closure, timerRef, connected>>
  /\ Connect(timer[t], wsRef, connecting, socket)

SocketNext ==
  \/ Rerender \/ SetEnabled \/ Unmount \/ Hide \/ Show
  \/ \E s \in Sockets : Opened(s) \/ Dropped(s) \/ Closed(s)
  \/ \E t \in Timers : Fires(t)

SocketSpec == SocketInit /\ [][SocketNext]_socketVars

-----------------------------------------------------------------------------
(* Properties.                                                              *)

\* However renders, timers and late close events interleave, the hook has at most
\* one socket that is connecting or open, and it is the one that send() uses.
\* It is shown as connected, and its messages go to the current callbacks, unless
\* a socket was made while another was closing, whose onclose resets the state
\* and schedules an old closure (use-websocket.ts:105).
OneSocket ==
  /\ \A s \in Sockets : Live(socket, s) => s = wsRef
  /\ ~displaced /\ mounted => \A s \in Sockets : socket[s].state = "open" =>
                                connected /\ socket[s].closure = closure

\* A mounted, enabled hook with a token in a visible page is never stranded: its
\* socket is on its way or open, or a close event or a timer will connect again.
NeverStranded ==
  mounted /\ enabled /\ token /\ visible =>
    \/ Live(socket, wsRef)
    \/ \E s \in Sockets : socket[s].state = "closing"
    \/ \E t \in Timers : timer[t] # 0
=============================================================================
