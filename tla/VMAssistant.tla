----------------------------- MODULE VMAssistant -----------------------------
(***************************************************************************)
(* The assistant in the cockpit of a guest (vm-cockpit/ai-tab.tsx): a      *)
(* conversation about the guest, and the commands that its answers offer,  *)
(* which run in the guest with a click.  The tab is rendered only while it *)
(* is selected and the guest runs: anything else forgets the conversation, *)
(* and not what is out.                                                    *)
(*                                                                         *)
(* A message is abstracted to its conversation and the commands in it.     *)
(* The tool calls of an answer are kept, but none is ever shown: each      *)
(* names the message of its step (agent_service.go:382), which the answer  *)
(* does not contain.                                                       *)
(***************************************************************************)
EXTENDS FiniteSets, Naturals

CONSTANTS Talks, NoTalk,   \* conversations at the server
          Commands,
          MaxLeft          \* bound: requests out that a former tab made

ASSUME NoTalkAssumption == NoTalk \notin Talks

VARIABLES assistantShown,      \* the tab is rendered
          conversation, \* conversationId
          shown,        \* the conversations of the answers that are displayed
          temp,         \* the message that is being sent is displayed
          offered,      \* the commands of the messages of the assistant
          isSending,
          executing,    \* executingCommands
          asked,        \* the request of this tab that is out: its conversation
          waiting,      \* such a request is out
          leftAsks,     \* requests of former tabs that are out
          out,          \* per command: runs of this tab that are out
          left,         \* per command: runs of former tabs that are out
          told          \* server: conversations that were told which guest this is

assistantVars == <<assistantShown, conversation, shown, temp, offered, isSending, executing, asked, waiting,
                   leftAsks, out, left, told>>

AssistantTypeOK ==
  /\ conversation \in Talks \cup {NoTalk} /\ asked \in Talks \cup {NoTalk}
  /\ shown \subseteq Talks /\ told \subseteq Talks
  /\ offered \subseteq Commands /\ executing \subseteq Commands
  /\ assistantShown \in BOOLEAN /\ temp \in BOOLEAN /\ isSending \in BOOLEAN /\ waiting \in BOOLEAN
  /\ leftAsks \in 0..MaxLeft
  /\ out \in [Commands -> 0..1] /\ left \in [Commands -> 0..MaxLeft]

NothingKept ==
  /\ conversation' = NoTalk /\ shown' = {} /\ temp' = FALSE /\ offered' = {}
  /\ isSending' = FALSE /\ executing' = {} /\ asked' = NoTalk /\ waiting' = FALSE

AssistantInit ==
  /\ assistantShown = TRUE
  /\ conversation = NoTalk /\ shown = {} /\ temp = FALSE /\ offered = {}
  /\ isSending = FALSE /\ executing = {} /\ asked = NoTalk /\ waiting = FALSE
  /\ leftAsks = 0 /\ told = {}
  /\ out = [c \in Commands |-> 0] /\ left = [c \in Commands |-> 0]

\* The tab is hidden, the guest stops, or the page is left.
HideAssistant ==
  /\ assistantShown /\ assistantShown' = FALSE
  /\ NothingKept
  /\ LET asks == leftAsks + IF waiting THEN 1 ELSE 0 IN asks <= MaxLeft /\ leftAsks' = asks
  /\ \A c \in Commands : left[c] + out[c] <= MaxLeft
  /\ left' = [c \in Commands |-> left[c] + out[c]] /\ out' = [c \in Commands |-> 0]
  /\ UNCHANGED told

ShowAssistant ==
  /\ ~assistantShown /\ assistantShown' = TRUE
  /\ UNCHANGED <<conversation, shown, temp, offered, isSending, executing, asked, waiting, leftAsks,
                 out, left, told>>

-----------------------------------------------------------------------------
(* The conversation.                                                        *)

\* Suggestions are there until there is a message, the input is disabled meanwhile.
CanSuggest == shown = {} /\ offered = {} /\ ~temp
InputOpen == ~isSending

\* sendMessage: what is typed, or a suggestion.
SendMessage ==
  /\ assistantShown /\ ~isSending
  /\ CanSuggest \/ InputOpen
  /\ temp' = TRUE /\ isSending' = TRUE
  /\ asked' = conversation /\ waiting' = TRUE
  /\ UNCHANGED <<assistantShown, conversation, shown, offered, executing, leftAsks, out, left, told>>

\* Without a conversation the message starts with what the guest is, and the server
\* begins a new one.
Receiving(t) == IF asked = NoTalk THEN t \notin told /\ told' = told \cup {t}
                                  ELSE t = asked /\ UNCHANGED told

SendAnswered(t, S) ==
  /\ waiting /\ Receiving(t)
  /\ conversation' = IF asked = NoTalk THEN t ELSE conversation
  /\ shown' = shown \cup {t} /\ offered' = offered \cup S
  /\ temp' = FALSE /\ isSending' = FALSE /\ asked' = NoTalk /\ waiting' = FALSE
  /\ UNCHANGED <<assistantShown, executing, leftAsks, out, left>>

\* The message is taken away; what was typed is lost.
SendFails ==
  /\ waiting
  /\ temp' = FALSE /\ isSending' = FALSE /\ asked' = NoTalk /\ waiting' = FALSE
  /\ UNCHANGED <<assistantShown, conversation, shown, offered, executing, leftAsks, out, left, told>>

\* An answer for a tab that is gone changes nothing.
LateAnswer ==
  /\ leftAsks > 0 /\ leftAsks' = leftAsks - 1
  /\ UNCHANGED <<assistantShown, conversation, shown, temp, offered, isSending, executing, asked, waiting,
                 out, left, told>>

-----------------------------------------------------------------------------
(* Commands.                                                                *)

\* The buttons of the blocks under the messages.
Runnable == offered \ executing

RunCommand(c) ==
  /\ assistantShown /\ c \in Runnable
  /\ executing' = executing \cup {c} /\ out' = [out EXCEPT ![c] = @ + 1]
  /\ UNCHANGED <<assistantShown, conversation, shown, temp, offered, isSending, asked, waiting,
                 leftAsks, left, told>>

\* The output becomes a message of the assistant, in a block like those of its commands:
\* the lines of it are offered too.  A failure adds no message.
CommandOver(c, S) ==
  /\ out[c] > 0 /\ out' = [out EXCEPT ![c] = @ - 1]
  /\ executing' = executing \ {c} /\ offered' = offered \cup S
  /\ UNCHANGED <<assistantShown, conversation, shown, temp, isSending, asked, waiting, leftAsks, left, told>>

LateOutput(c) ==
  /\ left[c] > 0 /\ left' = [left EXCEPT ![c] = @ - 1]
  /\ UNCHANGED <<assistantShown, conversation, shown, temp, offered, isSending, executing, asked, waiting,
                 leftAsks, out, told>>

AssistantNext ==
  \/ HideAssistant \/ ShowAssistant \/ SendMessage \/ SendFails \/ LateAnswer
  \/ \E t \in Talks, S \in SUBSET Commands : SendAnswered(t, S)
  \/ \E c \in Commands : \/ RunCommand(c) \/ LateOutput(c)
                         \/ \E S \in SUBSET Commands : CommandOver(c, S)

AssistantSpec == AssistantInit /\ [][AssistantNext]_assistantVars

-----------------------------------------------------------------------------

\* All answers on screen are of the conversation that goes on, which knows the guest; one
\* message is out while the input is locked, and it is on screen just then.
AssistantIsTrue ==
  /\ shown \subseteq {conversation} /\ (conversation # NoTalk => conversation \in told)
  /\ isSending = waiting /\ temp = waiting

\* A command of the guest runs twice at a time only if the tab was closed over the first
\* run, and one that runs shows it.
CommandsRunOnce == \A c \in Commands : out[c] <= 1 /\ (out[c] = 1 <=> c \in executing)
=============================================================================
