----------------------------- MODULE ChatWindow -----------------------------
(***************************************************************************)
(* The chat with the agent: the store (stores/chat-store.ts) and the pages *)
(* that use it (app/(dashboard)/chat/page.tsx, components/chat).  Nothing  *)
(* keeps the user from selecting, deleting and creating conversations      *)
(* while a message is out, which may take minutes.                         *)
(*                                                                         *)
(* A message is known by the conversation that it was written for or came  *)
(* from; the list of conversations is abstracted to those that have        *)
(* existed, so that a deleted one can still be clicked.                    *)
(***************************************************************************)
CONSTANTS Chats, NoChat

ASSUME NoChatAssumption == NoChat \notin Chats

VARIABLES exists, known,   \* server: conversations that exist, that have existed
          current,         \* currentConversation
          messages,        \* the conversations of the messages that are displayed
          calls,           \* toolCalls: the conversations of those that are displayed
          temp,            \* the optimistic message is displayed: its conversation
          busy,            \* isLoading
          isSending,
          sending,         \* the run of sendMessage that is out
          selects,         \* conversations that are being loaded
          fetching,        \* a GET of the conversations is out
          deletes,         \* DELETEs that are out
          moved            \* history: see Leaves

chatVars == <<exists, known, current, messages, calls, temp, busy, isSending, sending,
              selects, fetching, deletes, moved>>

NotSending == [phase |-> "none", to |-> NoChat, of |-> NoChat]
NoTemp == [shown |-> FALSE, of |-> NoChat]

ChatTypeOK ==
  /\ exists \subseteq known /\ known \subseteq Chats
  /\ current \in Chats \cup {NoChat}
  /\ messages \subseteq Chats \cup {NoChat} /\ calls \subseteq Chats
  /\ temp \in [shown : BOOLEAN, of : Chats \cup {NoChat}]
  /\ busy \in BOOLEAN /\ isSending \in BOOLEAN /\ fetching \in BOOLEAN /\ moved \in BOOLEAN
  /\ sending \in [phase : {"none", "chat", "list"}, to : Chats \cup {NoChat}, of : Chats \cup {NoChat}]
  /\ selects \subseteq Chats /\ deletes \subseteq Chats

ChatInit ==
  /\ exists \in SUBSET Chats /\ known = exists
  /\ current = NoChat /\ messages = {} /\ calls = {} /\ temp = NoTemp
  /\ busy = TRUE /\ fetching = TRUE
  /\ isSending = FALSE /\ sending = NotSending /\ selects = {} /\ deletes = {}
  /\ moved = FALSE

\* Another conversation is shown now: what was on its way for the one before will
\* be put into it.
Leaves == moved' = (sending # NotSending)

-----------------------------------------------------------------------------
(* Conversations.                                                           *)

\* The page or the panel is opened (bound: one GET of the conversations at a time).
OpenChat ==
  /\ ~fetching /\ fetching' = TRUE /\ busy' = TRUE
  /\ UNCHANGED <<exists, known, current, messages, calls, temp, isSending, sending, selects, deletes, moved>>

\* fetchConversations answers, one way or the other.
ChatsFetched ==
  /\ fetching /\ fetching' = FALSE /\ busy' = FALSE
  /\ UNCHANGED <<exists, known, current, messages, calls, temp, isSending, sending, selects, deletes, moved>>

\* The list beside the messages, in the page and in the panel.
ConversationList == known

SelectChat(c) ==
  /\ c \in ConversationList
  /\ selects' = selects \cup {c} /\ busy' = TRUE
  /\ UNCHANGED <<exists, known, current, messages, calls, temp, isSending, sending, fetching, deletes, moved>>

\* The three answers are there, in whatever order the selections were made.
ChatSelected(c) ==
  /\ c \in selects /\ c \in exists
  /\ selects' = selects \ {c} /\ busy' = FALSE
  /\ current' = c /\ messages' \in {{}, {c}} /\ calls' \in {{}, {c}} /\ temp' = NoTemp
  /\ Leaves
  /\ UNCHANGED <<exists, known, isSending, sending, fetching, deletes>>

\* The conversation that is shown stays, without its tool calls.
SelectFails(c) ==
  /\ c \in selects
  /\ selects' = selects \ {c} /\ busy' = FALSE /\ calls' = {}
  /\ UNCHANGED <<exists, known, current, messages, temp, isSending, sending, fetching, deletes, moved>>

NewChat ==
  /\ current' = NoChat /\ messages' = {} /\ calls' = {} /\ temp' = NoTemp
  /\ Leaves
  /\ UNCHANGED <<exists, known, busy, isSending, sending, selects, fetching, deletes>>

DeleteChat(c) ==
  /\ c \in ConversationList \ deletes
  /\ deletes' = deletes \cup {c} /\ exists' \in {exists, exists \ {c}}
  /\ UNCHANGED <<known, current, messages, calls, temp, busy, isSending, sending, selects, fetching, moved>>

ChatDeleted(c) ==
  /\ c \in deletes \ exists /\ deletes' = deletes \ {c}
  /\ IF current = c THEN current' = NoChat /\ messages' = {} /\ calls' = {} /\ temp' = NoTemp /\ Leaves
     ELSE UNCHANGED <<current, messages, calls, temp>> /\ moved' = (moved \/ sending.of = c)
  /\ UNCHANGED <<exists, known, busy, isSending, sending, selects, fetching>>

DeleteFails(c) ==
  /\ c \in deletes /\ deletes' = deletes \ {c}
  /\ UNCHANGED <<exists, known, current, messages, calls, temp, busy, isSending, sending, selects, fetching, moved>>

-----------------------------------------------------------------------------
(* sendMessage.                                                             *)

\* The input, and the suggestions of an empty conversation, are disabled while a message
\* is out or something is loaded.
CanSend == ~isSending /\ ~busy

SendChat ==
  /\ CanSend
  /\ isSending' = TRUE /\ sending' = [phase |-> "chat", to |-> current, of |-> NoChat]
  /\ temp' = [shown |-> TRUE, of |-> current]
  /\ UNCHANGED <<exists, known, current, messages, calls, busy, selects, fetching, deletes, moved>>

\* The temporary message is replaced and the answer is added, to whatever is
\* displayed by now, its tool calls take the place of those; the conversations are fetched.
Reply(c) ==
  /\ messages' = messages \cup {c} /\ calls' \in {{}, {c}} /\ temp' = NoTemp
  /\ isSending' = FALSE /\ sending' = NotSending
  /\ fetching' = TRUE /\ busy' = TRUE

ChatAnswered ==
  /\ sending.phase = "chat" /\ sending.to \in exists
  /\ Reply(sending.to)
  /\ UNCHANGED <<exists, known, current, selects, deletes, moved>>

\* The server has made a conversation, and the store lists them to find it.
ChatCreated(c) ==
  /\ sending.phase = "chat" /\ sending.to = NoChat
  /\ c \notin known /\ exists' = exists \cup {c} /\ known' = known \cup {c}
  /\ sending' = [sending EXCEPT !.phase = "list", !.of = c]
  /\ UNCHANGED <<current, messages, calls, temp, busy, isSending, selects, fetching, deletes, moved>>

ChatFound ==
  /\ sending.phase = "list"
  /\ current' = IF sending.of \in exists THEN sending.of ELSE NoChat
  /\ Reply(sending.of)
  /\ moved' = (moved \/ sending.of \notin exists)
  /\ UNCHANGED <<exists, known, selects, deletes>>

\* An error of either request takes the temporary message away, although a
\* conversation with it may exist by now.
SendFails ==
  /\ sending # NotSending
  /\ temp' = NoTemp /\ isSending' = FALSE /\ sending' = NotSending
  /\ calls' = IF sending.to = NoChat THEN {} ELSE calls
  /\ UNCHANGED <<exists, known, current, messages, busy, selects, fetching, deletes, moved>>

ChatNext ==
  \/ OpenChat \/ ChatsFetched \/ NewChat \/ SendChat \/ ChatAnswered \/ ChatFound \/ SendFails
  \/ \E c \in Chats : \/ SelectChat(c) \/ ChatSelected(c) \/ SelectFails(c)
                      \/ DeleteChat(c) \/ ChatDeleted(c) \/ DeleteFails(c)
                      \/ ChatCreated(c)

ChatSpec == ChatInit /\ [][ChatNext]_chatVars

-----------------------------------------------------------------------------
(* What the views show, and the property.                                   *)

\* Messages, and under them or at the end the tool calls: each of them is shown once,
\* those of a message that is not displayed too.
DisplayedMessages == messages \cup (IF temp.shown THEN {temp.of} ELSE {})
DisplayedCalls == calls

\* Every message and tool call on the screen is of the conversation in the title, to which the
\* next one will be sent, unless another conversation was shown while a message
\* was out: its answer is added to whatever is displayed (chat-store.ts:113).  And
\* the input is locked exactly while a message is out.
ChatIsOfConversation ==
  /\ ~moved => DisplayedMessages \cup DisplayedCalls \subseteq {current}
  /\ isSending <=> sending # NotSending
=============================================================================
