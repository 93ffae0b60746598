--------------------------- MODULE AgentApprovals ---------------------------
(***************************************************************************)
(* Tool calls of the AI agent and their approval: executeTool of           *)
(* service/agent, the rows of agent_pending_approvals, and the deciders of *)
(* an approval, who are requests to the web handlers Approve and Reject or *)
(* taps on a button in Telegram.  Everybody here is the user on whose      *)
(* behalf the agent acts; the handlers turn others away before they change *)
(* anything.  An administrator changes that user's rights at any time, a   *)
(* conversation is deleted together with its approvals, and the backend    *)
(* may crash and come back.                                                *)
(***************************************************************************)
EXTENDS Naturals

CONSTANTS Calls,      \* tool calls of the model; an approval's id is its call
          Deciders    \* requests and taps

\* Low-risk tools that only read, tools that write, and tools with a dry run
\* that are called for real.  (No tool that writes is of low risk.)
Kinds == {"read", "write", "destructive"}

\* AutonomyReadOnly, AutonomyConfirm, AutonomyFullAuto.
Levels == 0..2

VARIABLES kind,       \* per call
          user,       \* the user's permission and autonomy level
          call,       \* per call: executeTool, and the level that it has loaded
          row,        \* per call: its row, if it was ever made
          decider,    \* per decider: where it is, its call, what it wants
          runs,       \* per call: how often Execute was called
          verdict,    \* per call: what an UPDATE has made of its row
          entitled    \* calls that the user was allowed to make at some time
                      \* since they were approved

history == <<verdict, entitled>>
vars == <<kind, user, call, row, decider, runs, history>>

Working == {"read", "approved", "validated"}

TypeOK ==
  /\ kind \in [Calls -> Kinds]
  /\ user \in [permission : BOOLEAN, level : Levels]
  /\ call \in [Calls -> [pc : {"new", "checked", "direct", "asked", "unasked", "over"},
                         level : Levels]]
  /\ row \in [Calls -> {"none", "pending", "approved", "rejected", "deleted"}]
  /\ decider \in [Deciders -> [pc : {"idle", "refused", "accepted"} \cup Working,
                               call : Calls, approve : BOOLEAN]]
  /\ runs \in [Calls -> Nat]
  /\ verdict \in [Calls -> {"none", "approved", "rejected"}]
  /\ entitled \subseteq Calls

Init ==
  /\ kind \in [Calls -> Kinds]
  /\ user \in [permission : BOOLEAN, level : Levels]
  /\ call = [c \in Calls |-> [pc |-> "new", level |-> 0]]
  /\ row = [c \in Calls |-> "none"]
  /\ decider \in [Deciders -> [pc : {"idle"}, call : Calls, approve : BOOLEAN]]
  /\ runs = [c \in Calls |-> 0]
  /\ verdict = [c \in Calls |-> "none"]
  /\ entitled = {}

\* userAllowsTool, and the check of the autonomy level that goes with it.
Allowed(u, c) == u.permission /\ (kind[c] # "read" => u.level # 0)

-----------------------------------------------------------------------------
(* executeTool.  It loads the user once.                                    *)

Check(c) ==
  /\ call[c].pc = "new"
  /\ \/ call' = [call EXCEPT ![c] = [pc |-> "over", level |-> 0]]
     \/ /\ Allowed(user, c)
        /\ call' = [call EXCEPT ![c] = [pc |-> "checked", level |-> user.level]]
  /\ UNCHANGED <<kind, user, row, decider, runs, verdict>>

\* toolRequiresApproval with argsAreRealRun.  For a tool that reads a setting
\* decides; read-only users need no approval for a tool that writes: they do
\* not get as far as this.
RequiresApproval(c, level, lowRisk) ==
  CASE kind[c] = "destructive" -> TRUE
    [] kind[c] = "read"        -> lowRisk
    [] kind[c] = "write"       -> level # 0

Decide_ReloadsUser(c) ==
  /\ call[c].pc = "checked"
  /\ \E lowRisk, created \in BOOLEAN :
       IF RequiresApproval(c, user.level, lowRisk)
       THEN /\ call' = [call EXCEPT ![c].pc = IF created THEN "asked" ELSE "unasked"]
            /\ row' = IF created THEN [row EXCEPT ![c] = "pending"] ELSE row
       ELSE call' = [call EXCEPT ![c].pc = "direct"] /\ UNCHANGED row
  /\ UNCHANGED <<kind, user, decider, runs, verdict>>

\* A row that could not be written is only logged: the conversation tells of a
\* pending approval all the same.
Decide(c) ==
  /\ call[c].pc = "checked"
  /\ \E lowRisk, created \in BOOLEAN :
       IF RequiresApproval(c, call[c].level, lowRisk)
       THEN /\ call' = [call EXCEPT ![c].pc = IF created THEN "asked" ELSE "unasked"]
            /\ row' = IF created THEN [row EXCEPT ![c] = "pending"] ELSE row
       ELSE call' = [call EXCEPT ![c].pc = "direct"] /\ UNCHANGED row
  /\ UNCHANGED <<kind, user, decider, runs, verdict>>

Direct(c) ==
  /\ call[c].pc = "direct"
  /\ call' = [call EXCEPT ![c].pc = "over"]
  /\ runs' = [runs EXCEPT ![c] = @ + 1]
  /\ UNCHANGED <<kind, user, row, decider, verdict>>

-----------------------------------------------------------------------------
(* Deciders.                                                                *)

Goto(d, pc) == decider' = [decider EXCEPT ![d].pc = pc]

\* GetByID.  Telegram's handler looks at the status as well.
Load(d) ==
  /\ decider[d].pc = "idle"
  /\ LET status == row[decider[d].call]
     IN  /\ status # "none"
         /\ \/ status # "deleted" /\ Goto(d, "read")
            \/ status # "pending" /\ Goto(d, "refused")
  /\ UNCHANGED <<kind, user, call, row, runs, verdict>>

Resolved(d) == IF decider[d].approve THEN "approved" ELSE "rejected"

\* A successful UPDATE; its reply may be lost, and then nobody runs the tool.
Accept(d) ==
  LET c == decider[d].call
  IN  /\ row' = [row EXCEPT ![c] = Resolved(d)]
      /\ verdict' = [verdict EXCEPT ![c] = Resolved(d)]
      /\ \/ Goto(d, "refused")
         \/ Goto(d, IF decider[d].approve THEN "approved" ELSE "accepted")

Resolve_TrustsTheRead(d) ==
  /\ decider[d].pc = "read"
  /\ \/ row[decider[d].call] # "deleted" /\ Accept(d)
     \/ Goto(d, "refused") /\ UNCHANGED <<row, verdict>>
  /\ UNCHANGED <<kind, user, call, runs>>

\* UPDATE ... WHERE status = 'pending'.
Resolve(d) ==
  /\ decider[d].pc = "read"
  /\ \/ row[decider[d].call] = "pending" /\ Accept(d)
     \/ Goto(d, "refused") /\ UNCHANGED <<row, verdict>>
  /\ UNCHANGED <<kind, user, call, runs>>

Validate_TrustsTheRequest(d) ==
  /\ decider[d].pc = "approved"
  /\ Goto(d, "accepted") \/ Goto(d, "validated")
  /\ UNCHANGED <<kind, user, call, row, runs, verdict>>

\* ExecuteApprovedTool loads the user again.
Validate(d) ==
  /\ decider[d].pc = "approved"
  /\ \/ Goto(d, "accepted")
     \/ Allowed(user, decider[d].call) /\ Goto(d, "validated")
  /\ UNCHANGED <<kind, user, call, row, runs, verdict>>

Execute(d) ==
  /\ decider[d].pc = "validated"
  /\ Goto(d, "accepted")
  /\ runs' = [runs EXCEPT ![decider[d].call] = @ + 1]
  /\ UNCHANGED <<kind, user, call, row, verdict>>

-----------------------------------------------------------------------------
(* Everybody else.                                                          *)

ChangeUser ==
  /\ user' \in [permission : BOOLEAN, level : Levels]
  /\ UNCHANGED <<kind, call, row, decider, runs, verdict>>

DeleteConversation(c) ==
  /\ row[c] \in {"pending", "approved", "rejected"}
  /\ row' = [row EXCEPT ![c] = "deleted"]
  /\ UNCHANGED <<kind, user, call, decider, runs, verdict>>

\* Whoever was at work is gone; nobody looks after the rows at startup.
Crash ==
  /\ call' = [c \in Calls |-> IF call[c].pc \in {"checked", "direct"}
                              THEN [call[c] EXCEPT !.pc = "over"] ELSE call[c]]
  /\ decider' = [d \in Deciders |-> IF decider[d].pc \in Working
                                    THEN [decider[d] EXCEPT !.pc = "refused"]
                                    ELSE decider[d]]
  /\ UNCHANGED <<kind, user, row, runs, verdict>>

-----------------------------------------------------------------------------

Step == \/ \E c \in Calls : Check(c) \/ Decide(c) \/ Direct(c) \/ DeleteConversation(c)
        \/ \E d \in Deciders : Load(d) \/ Resolve(d) \/ Validate(d) \/ Execute(d)
        \/ ChangeUser
        \/ Crash

Next == /\ Step
        /\ entitled' = entitled \cup {c \in Calls : verdict'[c] = "approved" /\ Allowed(user', c)}

Spec == Init /\ [][Next]_vars

-----------------------------------------------------------------------------
(* Properties.                                                              *)

Decided(d) == decider[d].pc \in {"approved", "validated", "accepted"}

OneDecision ==
  \A d, e \in Deciders :
    decider[d].call = decider[e].call /\ Decided(d) /\ Decided(e) => d = e

\* However many browsers and phones decide on an approval, a tool is run at most
\* once for it, and only one of them is told that it was done ("WHERE
\* status='pending' prevents double-approve").
AtMostOnce == OneDecision /\ \A c \in Calls : runs[c] <= 1

\* A tool that writes runs only after it was approved, at every autonomy level
\* and whenever that changes; a tool whose call was rejected does not run.
RunsAreApproved ==
  \A c \in Calls : runs[c] > 0 => \/ verdict[c] = "approved"
                                  \/ kind[c] = "read" /\ verdict[c] = "none"

\* A user whose rights were taken away before the approval, and not given back,
\* does not get the tool run ("re-validate permission and autonomy AT THE MOMENT
\* OF EXECUTION").
DowngradeIsHonoured ==
  \A c \in Calls : runs[c] > 0 /\ verdict[c] = "approved" => c \in entitled

\* A decision is final, for the row and for whoever reads it later.
DecisionIsFinal ==
  [][\A c \in Calls : verdict[c] # "none" =>
       verdict'[c] = verdict[c] /\ row'[c] \in {verdict[c], "deleted"}]_vars
=============================================================================
