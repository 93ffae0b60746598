------------------------ MODULE AgentApprovalsProofs ------------------------
(***************************************************************************)
(* Proofs about AgentApprovals, for any tool calls and any deciders.       *)
(***************************************************************************)
EXTENDS AgentApprovals, TLAPS

-----------------------------------------------------------------------------
(* The inductive invariant.                                                 *)

\* What the row of a call and the place of executeTool say of each other, of
\* the decision and of the runs.
CallInv ==
  \A c \in Calls :
    /\ row[c] # "none" <=> call[c].pc = "asked"
    /\ row[c] \in {"none", "pending"} => verdict[c] = "none"
    /\ row[c] \in {"approved", "rejected"} => verdict[c] = row[c]
    /\ call[c].pc # "over" /\ verdict[c] = "none" => runs[c] = 0
    /\ call[c].pc = "checked" /\ kind[c] = "write" => call[c].level # 0
    /\ call[c].pc = "direct" => kind[c] = "read"

\* What a decider knows.
DeciderInv ==
  \A d \in Deciders :
    LET c == decider[d].call
    IN  /\ decider[d].pc \in Working => row[c] # "none"
        /\ Decided(d) => verdict[c] # "none"
        /\ decider[d].pc \in {"approved", "validated"} =>
             verdict[c] = "approved" /\ runs[c] = 0
        /\ decider[d].pc = "validated" => c \in entitled

IInv == /\ TypeOK
        /\ CallInv
        /\ DeciderInv
        /\ OneDecision
        /\ AtMostOnce
        /\ RunsAreApproved
        /\ DowngradeIsHonoured

LEMMA InvInit == Init => IInv
BY DEF Init, IInv, TypeOK, CallInv, DeciderInv, OneDecision, AtMostOnce,
       RunsAreApproved, DowngradeIsHonoured, Decided, Working, Levels

-----------------------------------------------------------------------------
(* What changes, point by point.                                            *)

Places == {"idle", "refused", "accepted"} \cup Working

LEMMA GotoEffect ==
  ASSUME TypeOK, NEW d \in Deciders, NEW pc \in Places, Goto(d, pc)
  PROVE  /\ decider' \in [Deciders -> [pc : Places, call : Calls, approve : BOOLEAN]]
         /\ \A e \in Deciders : /\ decider'[e].call = decider[e].call
                                /\ decider'[e].pc = IF e = d THEN pc ELSE decider[e].pc
BY DEF TypeOK, Goto, Places

\* What Next says of the history variable.
Entitles ==
  entitled' = entitled \cup {c \in Calls : verdict'[c] = "approved" /\ Allowed(user', c)}

LEMMA EntitlesEffect ==
  ASSUME TypeOK, Entitles
  PROVE  /\ entitled \subseteq entitled' /\ entitled' \subseteq Calls
         /\ \A c \in Calls : verdict'[c] = "approved" /\ Allowed(user', c) => c \in entitled'
BY DEF TypeOK, Entitles

-----------------------------------------------------------------------------
(* Each step preserves the invariant.                                       *)

LEMMA InvCheck ==
  ASSUME IInv, NEW c \in Calls, Check(c), Entitles
  PROVE  IInv'
<1>0. TypeOK /\ CallInv /\ DeciderInv /\ OneDecision /\ AtMostOnce
      /\ RunsAreApproved /\ DowngradeIsHonoured
  BY DEF IInv
<1>1. entitled \subseteq entitled' /\ entitled' \subseteq Calls
  BY <1>0, EntitlesEffect
<1>2. /\ call' \in [Calls -> [pc : {"new", "checked", "direct", "asked", "unasked", "over"},
                              level : Levels]]
      /\ call[c].pc = "new" /\ call'[c].pc \in {"checked", "over"}
      /\ call'[c].pc = "checked" /\ kind[c] = "write" => call'[c].level # 0
      /\ \A x \in Calls \ {c} : call'[x] = call[x]
      /\ UNCHANGED <<kind, user, row, decider, runs, verdict>>
  BY <1>0 DEF Check, TypeOK, Levels, Allowed
<1>3. TypeOK'
  BY <1>0, <1>1, <1>2 DEF TypeOK
<1>4. CallInv'
  BY <1>0, <1>2 DEF CallInv
<1>5. DeciderInv'
  BY <1>0, <1>1, <1>2 DEF DeciderInv, Decided, TypeOK
<1>6. OneDecision'
  BY <1>0, <1>2 DEF OneDecision, Decided
<1>7. AtMostOnce'
  BY <1>0, <1>2, <1>6 DEF AtMostOnce
<1>8. RunsAreApproved'
  BY <1>0, <1>2 DEF RunsAreApproved
<1>9. DowngradeIsHonoured'
  BY <1>0, <1>1, <1>2 DEF DowngradeIsHonoured
<1> QED BY <1>3, <1>4, <1>5, <1>6, <1>7, <1>8, <1>9 DEF IInv

LEMMA InvDecide ==
  ASSUME IInv, NEW c \in Calls, Decide(c), Entitles
  PROVE  IInv'
<1>0. TypeOK /\ CallInv /\ DeciderInv /\ OneDecision /\ AtMostOnce
      /\ RunsAreApproved /\ DowngradeIsHonoured
  BY DEF IInv
<1>1. entitled \subseteq entitled' /\ entitled' \subseteq Calls
  BY <1>0, EntitlesEffect
<1>2. /\ call[c].pc = "checked" /\ row[c] = "none" /\ verdict[c] = "none" /\ runs[c] = 0
      /\ \/ call'[c].pc = "asked" /\ row' = [row EXCEPT ![c] = "pending"]
         \/ call'[c].pc = "unasked" /\ row' = row
         \/ call'[c].pc = "direct" /\ row' = row /\ kind[c] = "read"
      /\ call' \in [Calls -> [pc : {"new", "checked", "direct", "asked", "unasked", "over"},
                              level : Levels]]
      /\ \A x \in Calls \ {c} : call'[x] = call[x]
      /\ UNCHANGED <<kind, user, decider, runs, verdict>>
  <2>1. call[c].pc = "checked" /\ row[c] = "none" /\ verdict[c] = "none" /\ runs[c] = 0
    BY <1>0 DEF Decide, CallInv, TypeOK
  <2>2. kind[c] = "write" => call[c].level # 0
    BY <1>0, <2>1 DEF CallInv
  <2>3. \A lowRisk \in BOOLEAN :
          ~RequiresApproval(c, call[c].level, lowRisk) => kind[c] = "read"
    BY <1>0, <2>2 DEF RequiresApproval, TypeOK, Kinds
  <2> QED BY <1>0, <2>1, <2>3 DEF Decide, TypeOK
<1>3. TypeOK'
  BY <1>0, <1>1, <1>2 DEF TypeOK
<1>4. CallInv'
  BY <1>0, <1>2 DEF CallInv, TypeOK
<1>5. DeciderInv'
  BY <1>0, <1>1, <1>2 DEF DeciderInv, Decided, TypeOK
<1>6. OneDecision'
  BY <1>0, <1>2 DEF OneDecision, Decided
<1>7. AtMostOnce'
  BY <1>0, <1>2, <1>6 DEF AtMostOnce
<1>8. RunsAreApproved'
  BY <1>0, <1>2 DEF RunsAreApproved
<1>9. DowngradeIsHonoured'
  BY <1>0, <1>1, <1>2 DEF DowngradeIsHonoured
<1> QED BY <1>3, <1>4, <1>5, <1>6, <1>7, <1>8, <1>9 DEF IInv

LEMMA InvDirect ==
  ASSUME IInv, NEW c \in Calls, Direct(c), Entitles
  PROVE  IInv'
<1>0. TypeOK /\ CallInv /\ DeciderInv /\ OneDecision /\ AtMostOnce
      /\ RunsAreApproved /\ DowngradeIsHonoured
  BY DEF IInv
<1>1. entitled \subseteq entitled' /\ entitled' \subseteq Calls
  BY <1>0, EntitlesEffect
<1>2. /\ kind[c] = "read" /\ row[c] = "none" /\ verdict[c] = "none" /\ runs[c] = 0
      /\ call[c].pc = "direct" /\ call'[c].pc = "over" /\ call'[c].level = call[c].level
      /\ call' \in [Calls -> [pc : {"new", "checked", "direct", "asked", "unasked", "over"},
                              level : Levels]]
      /\ \A x \in Calls \ {c} : call'[x] = call[x]
      /\ runs' \in [Calls -> Nat] /\ runs'[c] = 1
      /\ \A x \in Calls \ {c} : runs'[x] = runs[x]
      /\ UNCHANGED <<kind, user, row, decider, verdict>>
  BY <1>0 DEF Direct, TypeOK, CallInv
<1>3. TypeOK'
  BY <1>0, <1>1, <1>2 DEF TypeOK
<1>4. CallInv'
  BY <1>0, <1>2 DEF CallInv
<1>5. DeciderInv'
  BY <1>0, <1>1, <1>2 DEF DeciderInv, Decided, TypeOK, Working
<1>6. OneDecision'
  BY <1>0, <1>2 DEF OneDecision, Decided
<1>7. AtMostOnce'
  BY <1>0, <1>2, <1>6 DEF AtMostOnce
<1>8. RunsAreApproved'
  BY <1>0, <1>2 DEF RunsAreApproved
<1>9. DowngradeIsHonoured'
  BY <1>0, <1>1, <1>2 DEF DowngradeIsHonoured
<1> QED BY <1>3, <1>4, <1>5, <1>6, <1>7, <1>8, <1>9 DEF IInv

LEMMA InvDelete ==
  ASSUME IInv, NEW c \in Calls, DeleteConversation(c), Entitles
  PROVE  IInv'
<1>0. TypeOK /\ CallInv /\ DeciderInv /\ OneDecision /\ AtMostOnce
      /\ RunsAreApproved /\ DowngradeIsHonoured
  BY DEF IInv
<1>1. entitled \subseteq entitled' /\ entitled' \subseteq Calls
  BY <1>0, EntitlesEffect
<1>2. /\ row[c] \in {"pending", "approved", "rejected"} /\ row'[c] = "deleted"
      /\ row' \in [Calls -> {"none", "pending", "approved", "rejected", "deleted"}]
      /\ \A x \in Calls \ {c} : row'[x] = row[x]
      /\ UNCHANGED <<kind, user, call, decider, runs, verdict>>
  BY <1>0 DEF DeleteConversation, TypeOK
<1>3. TypeOK'
  BY <1>0, <1>1, <1>2 DEF TypeOK
<1>4. CallInv'
  BY <1>0, <1>2 DEF CallInv
<1>5. DeciderInv'
  BY <1>0, <1>1, <1>2 DEF DeciderInv, Decided, TypeOK, Working
<1>6. OneDecision'
  BY <1>0, <1>2 DEF OneDecision, Decided
<1>7. AtMostOnce'
  BY <1>0, <1>2, <1>6 DEF AtMostOnce
<1>8. RunsAreApproved'
  BY <1>0, <1>2 DEF RunsAreApproved
<1>9. DowngradeIsHonoured'
  BY <1>0, <1>1, <1>2 DEF DowngradeIsHonoured
<1> QED BY <1>3, <1>4, <1>5, <1>6, <1>7, <1>8, <1>9 DEF IInv

LEMMA InvLoad ==
  ASSUME IInv, NEW d \in Deciders, Load(d), Entitles
  PROVE  IInv'
<1>0. TypeOK /\ CallInv /\ DeciderInv /\ OneDecision /\ AtMostOnce
      /\ RunsAreApproved /\ DowngradeIsHonoured
  BY DEF IInv
<1>1. entitled \subseteq entitled' /\ entitled' \subseteq Calls
  BY <1>0, EntitlesEffect
<1>2. /\ decider' \in [Deciders -> [pc : Places, call : Calls, approve : BOOLEAN]]
      /\ \A e \in Deciders : decider'[e].call = decider[e].call
      /\ \A e \in Deciders \ {d} : decider'[e].pc = decider[e].pc
      /\ decider'[d].pc \in {"read", "refused"}
      /\ row[decider[d].call] # "none"
      /\ UNCHANGED <<kind, user, call, row, runs, verdict>>
  <2>1. {"read", "refused"} \subseteq Places
    BY DEF Places, Working
  <2> QED BY <1>0, <2>1, GotoEffect DEF Load
<1>3. TypeOK'
  BY <1>0, <1>1, <1>2 DEF TypeOK, Places
<1>4. CallInv'
  BY <1>0, <1>2 DEF CallInv
<1>5. DeciderInv'
  BY <1>0, <1>1, <1>2 DEF DeciderInv, Decided, TypeOK, Working
<1>6. OneDecision'
  BY <1>0, <1>2 DEF OneDecision, Decided
<1>7. AtMostOnce'
  BY <1>0, <1>2, <1>6 DEF AtMostOnce
<1>8. RunsAreApproved'
  BY <1>0, <1>2 DEF RunsAreApproved
<1>9. DowngradeIsHonoured'
  BY <1>0, <1>1, <1>2 DEF DowngradeIsHonoured
<1> QED BY <1>3, <1>4, <1>5, <1>6, <1>7, <1>8, <1>9 DEF IInv

LEMMA InvResolve ==
  ASSUME IInv, NEW d \in Deciders, Resolve(d), Entitles
  PROVE  IInv'
<1>0. TypeOK /\ CallInv /\ DeciderInv /\ OneDecision /\ AtMostOnce
      /\ RunsAreApproved /\ DowngradeIsHonoured
  BY DEF IInv
<1>1. entitled \subseteq entitled' /\ entitled' \subseteq Calls
  BY <1>0, EntitlesEffect
<1> DEFINE c == decider[d].call
<1>2. /\ decider' \in [Deciders -> [pc : Places, call : Calls, approve : BOOLEAN]]
      /\ \A e \in Deciders : decider'[e].call = decider[e].call
      /\ \A e \in Deciders \ {d} : decider'[e].pc = decider[e].pc
      /\ decider[d].pc = "read" /\ c \in Calls
      /\ UNCHANGED <<kind, user, call, runs>>
      /\ \/ /\ decider'[d].pc = "refused"
            /\ UNCHANGED <<row, verdict>>
         \/ /\ row[c] = "pending" /\ verdict[c] = "none" /\ runs[c] = 0
            /\ \E v \in {"approved", "rejected"} :
                 /\ row' = [row EXCEPT ![c] = v]
                 /\ verdict' = [verdict EXCEPT ![c] = v]
                 /\ decider'[d].pc \in IF v = "approved" THEN {"refused", "approved"}
                                                        ELSE {"refused", "accepted"}
  <2>1. {"refused", "approved", "accepted"} \subseteq Places
    BY DEF Places, Working
  <2>2. decider[d].pc = "read" /\ c \in Calls /\ decider[d].approve \in BOOLEAN
    BY <1>0 DEF Resolve, TypeOK
  <2>3. CASE Goto(d, "refused") /\ UNCHANGED <<row, verdict>>
    BY <1>0, <2>1, <2>2, <2>3, GotoEffect DEF Resolve
  <2>4. CASE row[c] = "pending" /\ Accept(d)
    <3>1. verdict[c] = "none" /\ runs[c] = 0
      BY <1>0, <2>2, <2>4 DEF CallInv, TypeOK
    <3>2. \E pc \in {"refused", IF decider[d].approve THEN "approved" ELSE "accepted"} :
            Goto(d, pc)
      BY <2>4 DEF Accept
    <3>3. PICK pc \in {"refused", IF decider[d].approve THEN "approved" ELSE "accepted"} :
            Goto(d, pc)
      BY <3>2
    <3>4. /\ decider' \in [Deciders -> [pc : Places, call : Calls, approve : BOOLEAN]]
          /\ \A e \in Deciders : /\ decider'[e].call = decider[e].call
                                 /\ decider'[e].pc = IF e = d THEN pc ELSE decider[e].pc
      BY <1>0, <2>1, <3>3, GotoEffect
    <3>5. row' = [row EXCEPT ![c] = Resolved(d)] /\ verdict' = [verdict EXCEPT ![c] = Resolved(d)]
      BY <2>4 DEF Accept
    <3> QED BY <2>2, <2>4, <3>1, <3>3, <3>4, <3>5 DEF Resolve, Resolved
  <2> QED BY <2>3, <2>4 DEF Resolve
<1>3. TypeOK'
  <2>1. /\ row' \in [Calls -> {"none", "pending", "approved", "rejected", "deleted"}]
        /\ verdict' \in [Calls -> {"none", "approved", "rejected"}]
    <3>1. /\ row \in [Calls -> {"none", "pending", "approved", "rejected", "deleted"}]
          /\ verdict \in [Calls -> {"none", "approved", "rejected"}]
      BY <1>0 DEF TypeOK
    <3>2. CASE UNCHANGED <<row, verdict>>
      BY <3>1, <3>2
    <3>3. ASSUME NEW v \in {"approved", "rejected"},
                 row' = [row EXCEPT ![c] = v], verdict' = [verdict EXCEPT ![c] = v]
          PROVE  /\ row' \in [Calls -> {"none", "pending", "approved", "rejected", "deleted"}]
                 /\ verdict' \in [Calls -> {"none", "approved", "rejected"}]
      BY <3>1, <3>3
    <3> QED BY <1>2, <3>2, <3>3
  <2> QED BY <1>0, <1>1, <1>2, <2>1 DEF TypeOK, Places
<1>4. CallInv'
  BY <1>0, <1>2 DEF CallInv, TypeOK
<1>5. DeciderInv'
  BY <1>0, <1>1, <1>2 DEF DeciderInv, Decided, TypeOK, Working
<1>6. OneDecision'
  BY <1>0, <1>2 DEF OneDecision, DeciderInv, Decided
<1>7. AtMostOnce'
  BY <1>0, <1>2, <1>6 DEF AtMostOnce
<1>8. RunsAreApproved'
  BY <1>0, <1>2 DEF RunsAreApproved, TypeOK
<1>9. DowngradeIsHonoured'
  BY <1>0, <1>1, <1>2 DEF DowngradeIsHonoured, TypeOK
<1> QED BY <1>3, <1>4, <1>5, <1>6, <1>7, <1>8, <1>9 DEF IInv

LEMMA InvValidate ==
  ASSUME IInv, NEW d \in Deciders, Validate(d), Entitles
  PROVE  IInv'
<1>0. TypeOK /\ CallInv /\ DeciderInv /\ OneDecision /\ AtMostOnce
      /\ RunsAreApproved /\ DowngradeIsHonoured
  BY DEF IInv
<1>1. entitled \subseteq entitled' /\ entitled' \subseteq Calls
  BY <1>0, EntitlesEffect
<1>2. /\ decider' \in [Deciders -> [pc : Places, call : Calls, approve : BOOLEAN]]
      /\ \A e \in Deciders : decider'[e].call = decider[e].call
      /\ \A e \in Deciders \ {d} : decider'[e].pc = decider[e].pc
      /\ decider[d].pc = "approved" /\ decider'[d].pc \in {"accepted", "validated"}
      /\ decider'[d].pc = "validated" => decider[d].call \in entitled'
      /\ UNCHANGED <<kind, user, call, row, runs, verdict>>
  <2>1. {"accepted", "validated"} \subseteq Places
    BY DEF Places, Working
  <2>2. decider[d].pc = "approved" /\ decider[d].call \in Calls
        /\ UNCHANGED <<kind, user, call, row, runs, verdict>>
    BY <1>0 DEF Validate, TypeOK
  <2>3. verdict'[decider[d].call] = "approved"
    BY <1>0, <2>2 DEF DeciderInv
  <2>4. CASE Goto(d, "accepted")
    BY <1>0, <2>1, <2>2, <2>4, GotoEffect
  <2>5. CASE Allowed(user, decider[d].call) /\ Goto(d, "validated")
    <3>1. Allowed(user', decider[d].call)
      BY <2>2, <2>5
    <3>2. decider[d].call \in entitled'
      BY <1>0, <2>2, <2>3, <3>1, EntitlesEffect
    <3> QED BY <1>0, <2>1, <2>2, <2>5, <3>2, GotoEffect
  <2> QED BY <2>4, <2>5 DEF Validate
<1>3. TypeOK'
  BY <1>0, <1>1, <1>2 DEF TypeOK, Places
<1>4. CallInv'
  BY <1>0, <1>2 DEF CallInv
<1>5. DeciderInv'
  BY <1>0, <1>1, <1>2 DEF DeciderInv, Decided, TypeOK, Working
<1>6. OneDecision'
  BY <1>0, <1>2 DEF OneDecision, Decided
<1>7. AtMostOnce'
  BY <1>0, <1>2, <1>6 DEF AtMostOnce
<1>8. RunsAreApproved'
  BY <1>0, <1>2 DEF RunsAreApproved
<1>9. DowngradeIsHonoured'
  BY <1>0, <1>1, <1>2 DEF DowngradeIsHonoured
<1> QED BY <1>3, <1>4, <1>5, <1>6, <1>7, <1>8, <1>9 DEF IInv

LEMMA InvExecute ==
  ASSUME IInv, NEW d \in Deciders, Execute(d), Entitles
  PROVE  IInv'
<1>0. TypeOK /\ CallInv /\ DeciderInv /\ OneDecision /\ AtMostOnce
      /\ RunsAreApproved /\ DowngradeIsHonoured
  BY DEF IInv
<1>1. entitled \subseteq entitled' /\ entitled' \subseteq Calls
  BY <1>0, EntitlesEffect
<1> DEFINE c == decider[d].call
<1>2. /\ decider' \in [Deciders -> [pc : Places, call : Calls, approve : BOOLEAN]]
      /\ \A e \in Deciders : decider'[e].call = decider[e].call
      /\ \A e \in Deciders \ {d} : decider'[e].pc = decider[e].pc
      /\ decider[d].pc = "validated" /\ decider'[d].pc = "accepted"
      /\ c \in Calls /\ verdict[c] = "approved" /\ c \in entitled
      /\ runs' \in [Calls -> Nat] /\ runs'[c] = 1
      /\ \A x \in Calls \ {c} : runs'[x] = runs[x]
      /\ UNCHANGED <<kind, user, call, row, verdict>>
  <2>1. "accepted" \in Places
    BY DEF Places
  <2>2. /\ decider[d].pc = "validated" /\ c \in Calls /\ Goto(d, "accepted")
        /\ runs' = [runs EXCEPT ![c] = @ + 1] /\ runs \in [Calls -> Nat]
        /\ UNCHANGED <<kind, user, call, row, verdict>>
    BY <1>0 DEF Execute, TypeOK
  <2>3. verdict[c] = "approved" /\ runs[c] = 0 /\ c \in entitled
    BY <1>0, <2>2 DEF DeciderInv
  <2> QED BY <1>0, <2>1, <2>2, <2>3, GotoEffect
<1>3. TypeOK'
  BY <1>0, <1>1, <1>2 DEF TypeOK, Places
<1>4. CallInv'
  BY <1>0, <1>2 DEF CallInv
<1>5. DeciderInv'
  <2>1. ASSUME NEW e \in Deciders, decider[e].call = c, decider[e].pc \in {"approved", "validated"}
        PROVE  e = d
    BY <1>0, <1>2, <2>1 DEF OneDecision, Decided
  <2>2. ASSUME NEW e \in Deciders \ {d}
        PROVE  \/ decider[e].pc \notin {"approved", "validated"}
               \/ decider[e].call \in Calls \ {c}
    BY <1>0, <2>1, <2>2 DEF TypeOK
  <2> QED BY <1>0, <1>1, <1>2, <2>2 DEF DeciderInv, Decided, Working
<1>6. OneDecision'
  BY <1>0, <1>2 DEF OneDecision, Decided
<1>7. AtMostOnce'
  BY <1>0, <1>2, <1>6 DEF AtMostOnce
<1>8. RunsAreApproved'
  BY <1>0, <1>2 DEF RunsAreApproved
<1>9. DowngradeIsHonoured'
  BY <1>0, <1>1, <1>2 DEF DowngradeIsHonoured
<1> QED BY <1>3, <1>4, <1>5, <1>6, <1>7, <1>8, <1>9 DEF IInv

LEMMA InvChangeUser ==
  ASSUME IInv, ChangeUser, Entitles
  PROVE  IInv'
<1>0. TypeOK /\ CallInv /\ DeciderInv /\ OneDecision /\ AtMostOnce
      /\ RunsAreApproved /\ DowngradeIsHonoured
  BY DEF IInv
<1>1. entitled \subseteq entitled' /\ entitled' \subseteq Calls
  BY <1>0, EntitlesEffect
<1>2. /\ user' \in [permission : BOOLEAN, level : Levels]
      /\ UNCHANGED <<kind, call, row, decider, runs, verdict>>
  BY DEF ChangeUser
<1>3. TypeOK'
  BY <1>0, <1>1, <1>2 DEF TypeOK
<1>4. CallInv'
  BY <1>0, <1>2 DEF CallInv
<1>5. DeciderInv'
  BY <1>0, <1>1, <1>2 DEF DeciderInv, Decided, TypeOK
<1>6. OneDecision'
  BY <1>0, <1>2 DEF OneDecision, Decided
<1>7. AtMostOnce'
  BY <1>0, <1>2, <1>6 DEF AtMostOnce
<1>8. RunsAreApproved'
  BY <1>0, <1>2 DEF RunsAreApproved
<1>9. DowngradeIsHonoured'
  BY <1>0, <1>1, <1>2 DEF DowngradeIsHonoured
<1> QED BY <1>3, <1>4, <1>5, <1>6, <1>7, <1>8, <1>9 DEF IInv

LEMMA InvCrash ==
  ASSUME IInv, Crash, Entitles
  PROVE  IInv'
<1>0. TypeOK /\ CallInv /\ DeciderInv /\ OneDecision /\ AtMostOnce
      /\ RunsAreApproved /\ DowngradeIsHonoured
  BY DEF IInv
<1>1. entitled \subseteq entitled' /\ entitled' \subseteq Calls
  BY <1>0, EntitlesEffect
<1>2. /\ decider' \in [Deciders -> [pc : Places, call : Calls, approve : BOOLEAN]]
      /\ \A e \in Deciders : /\ decider'[e].call = decider[e].call
                             /\ decider'[e].pc \in {decider[e].pc, "refused"}
                             /\ decider'[e].pc \notin Working
      /\ call' \in [Calls -> [pc : {"new", "checked", "direct", "asked", "unasked", "over"},
                              level : Levels]]
      /\ \A x \in Calls : /\ call'[x].level = call[x].level
                          /\ \/ call'[x].pc = call[x].pc
                             \/ call[x].pc \in {"checked", "direct"} /\ call'[x].pc = "over"
      /\ UNCHANGED <<kind, user, row, runs, verdict>>
  <2>1. ASSUME NEW e \in Deciders
        PROVE  /\ decider'[e].call = decider[e].call
               /\ decider'[e].pc \in {decider[e].pc, "refused"}
               /\ decider'[e].pc \notin Working
               /\ decider'[e] \in [pc : Places, call : Calls, approve : BOOLEAN]
    <3>1. decider[e] \in [pc : Places, call : Calls, approve : BOOLEAN]
      BY <1>0 DEF TypeOK, Places
    <3>2. decider'[e] = IF decider[e].pc \in Working
                        THEN [decider[e] EXCEPT !.pc = "refused"] ELSE decider[e]
      BY DEF Crash
    <3> QED BY <3>1, <3>2 DEF Places, Working
  <2>2. ASSUME NEW x \in Calls
        PROVE  /\ call'[x].level = call[x].level
               /\ \/ call'[x].pc = call[x].pc
                  \/ call[x].pc \in {"checked", "direct"} /\ call'[x].pc = "over"
               /\ call'[x] \in [pc : {"new", "checked", "direct", "asked", "unasked", "over"},
                               level : Levels]
    <3>1. call[x] \in [pc : {"new", "checked", "direct", "asked", "unasked", "over"},
                       level : Levels]
      BY <1>0 DEF TypeOK
    <3>2. call'[x] = IF call[x].pc \in {"checked", "direct"}
                     THEN [call[x] EXCEPT !.pc = "over"] ELSE call[x]
      BY DEF Crash
    <3> QED BY <3>1, <3>2
  <2>3. DOMAIN decider' = Deciders /\ DOMAIN call' = Calls
        /\ decider' = [e \in Deciders |-> decider'[e]] /\ call' = [x \in Calls |-> call'[x]]
    BY DEF Crash
  <2> QED BY <2>1, <2>2, <2>3 DEF Crash
<1>3. TypeOK'
  BY <1>0, <1>1, <1>2 DEF TypeOK, Places
<1>4. CallInv'
  BY <1>0, <1>2 DEF CallInv
<1>5. DeciderInv'
  BY <1>0, <1>1, <1>2 DEF DeciderInv, Decided, TypeOK, Working
<1>6. OneDecision'
  BY <1>0, <1>2 DEF OneDecision, Decided
<1>7. AtMostOnce'
  BY <1>0, <1>2, <1>6 DEF AtMostOnce
<1>8. RunsAreApproved'
  BY <1>0, <1>2 DEF RunsAreApproved
<1>9. DowngradeIsHonoured'
  BY <1>0, <1>1, <1>2 DEF DowngradeIsHonoured
<1> QED BY <1>3, <1>4, <1>5, <1>6, <1>7, <1>8, <1>9 DEF IInv

LEMMA InvStutter == IInv /\ UNCHANGED vars => IInv'
BY DEF vars, history, IInv, TypeOK, CallInv, DeciderInv, OneDecision, AtMostOnce,
       RunsAreApproved, DowngradeIsHonoured, Decided

LEMMA InvNext == IInv /\ [Next]_vars => IInv'
<1> SUFFICES ASSUME IInv, Next PROVE IInv'
  BY InvStutter
<1>1. Step /\ Entitles
  BY DEF Next, Entitles
<1> QED BY <1>1, InvCheck, InvDecide, InvDirect, InvDelete, InvLoad, InvResolve,
           InvValidate, InvExecute, InvChangeUser, InvCrash DEF Step

LEMMA Invariance == Spec => []IInv
BY InvInit, InvNext, PTL DEF Spec

-----------------------------------------------------------------------------
(* The theorems.                                                            *)

\* Rows, calls and deciders are only ever in the states the code knows.
THEOREM TypeCorrect == Spec => []TypeOK
BY Invariance, PTL DEF IInv

\* Any number of deciders, in the browser or in Telegram, run a tool at most once.
THEOREM NoDoubleRun == Spec => []AtMostOnce
BY Invariance, PTL DEF IInv

\* Of all who decide on an approval at most one is told that it was done.
THEOREM SingleDecision == Spec => []OneDecision
BY Invariance, PTL DEF IInv

\* No tool that writes runs without an approval, and none that was rejected.
THEOREM ApprovalGate == Spec => []RunsAreApproved
BY Invariance, PTL DEF IInv

\* Rights are checked again between the approval and the run.
THEOREM RightsAreChecked == Spec => []DowngradeIsHonoured
BY Invariance, PTL DEF IInv

\* A row that was decided keeps its decision until it is deleted.
LEMMA FinalStep ==
  ASSUME IInv, [Next]_vars, NEW c \in Calls, verdict[c] # "none"
  PROVE  verdict'[c] = verdict[c] /\ row'[c] \in {verdict[c], "deleted"}
<1>0. /\ CallInv /\ TypeOK
      /\ row[c] \in {verdict[c], "deleted"}
      /\ row[c] # "pending" /\ call[c].pc = "asked"
  BY DEF IInv, CallInv, TypeOK
<1>1. ASSUME NEW x \in Calls, Decide(x)
      PROVE  row'[c] = row[c] /\ verdict' = verdict
  <2>1. x # c /\ DOMAIN row = Calls
    BY <1>0, <1>1 DEF Decide, TypeOK
  <2>2. (row' = row \/ row' = [row EXCEPT ![x] = "pending"]) /\ verdict' = verdict
    BY <1>1 DEF Decide
  <2> QED BY <2>1, <2>2
<1>2. ASSUME NEW x \in Calls, DeleteConversation(x)
      PROVE  row'[c] \in {row[c], "deleted"} /\ verdict' = verdict
  BY <1>0, <1>2 DEF DeleteConversation, TypeOK
<1>3. ASSUME NEW d \in Deciders, Resolve(d)
      PROVE  row'[c] = row[c] /\ verdict'[c] = verdict[c]
  <2>1. CASE UNCHANGED <<row, verdict>>
    BY <2>1
  <2>2. CASE row[decider[d].call] = "pending" /\ Accept(d)
    <3>1. decider[d].call # c
      BY <1>0, <2>2
    <3>2. /\ row' = [row EXCEPT ![decider[d].call] = Resolved(d)]
          /\ verdict' = [verdict EXCEPT ![decider[d].call] = Resolved(d)]
      BY <2>2 DEF Accept
    <3>3. DOMAIN row = Calls /\ DOMAIN verdict = Calls
      BY <1>0 DEF TypeOK
    <3> QED BY <3>1, <3>2, <3>3
  <2> QED BY <1>3, <2>1, <2>2 DEF Resolve
<1>4. ASSUME NEW x \in Calls, Check(x) \/ Direct(x)
      PROVE  row' = row /\ verdict' = verdict
  BY <1>4 DEF Check, Direct
<1>5. ASSUME NEW d \in Deciders, Load(d) \/ Validate(d) \/ Execute(d)
      PROVE  row' = row /\ verdict' = verdict
  BY <1>5 DEF Load, Validate, Execute
<1>6. ASSUME ChangeUser \/ Crash \/ UNCHANGED vars
      PROVE  row' = row /\ verdict' = verdict
  BY <1>6 DEF ChangeUser, Crash, vars, history
<1> QED BY <1>0, <1>1, <1>2, <1>3, <1>4, <1>5, <1>6 DEF Next, Step

\* No decision is ever changed.
THEOREM DecisionsStand == Spec => DecisionIsFinal
<1>1. IInv /\ [Next]_vars =>
        [\A c \in Calls : verdict[c] # "none" =>
           verdict'[c] = verdict[c] /\ row'[c] \in {verdict[c], "deleted"}]_vars
  BY FinalStep
<1> QED BY <1>1, Invariance, PTL DEF Spec, DecisionIsFinal
=============================================================================
