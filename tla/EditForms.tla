----------------------------- MODULE EditForms -----------------------------
(***************************************************************************)
(* The forms of the console: dialogs that are opened for an object, and    *)
(* settings on a page.  Each is a record that says what it does with its   *)
(* entries; one of them is chosen at the start.  A submit takes what is    *)
(* entered; its answer may come when the dialog has been closed and opened *)
(* for another object.                                                     *)
(*                                                                         *)
(* What is entered is abstracted to the edits of the user, each typed      *)
(* once, and to the object whose stored values fill the form.              *)
(***************************************************************************)
-----------------------------------------------------------------------------
(* The forms.                                                               *)

\* A dialog that is filled in anew whenever it is opened, or its object changes, and
\* closes when the entries are stored.
Dialog == [page |-> FALSE,     \* part of a page: it is there until the page is left
           loads |-> TRUE,     \* filled with the stored values of its object; if not, blank
           resets |-> {"open", "target"},  \* "open", "target", "close", "options": when
           success |-> {"close"},          \* "close", "reset": what an answer does
           failure |-> {},                 \* the same, of an error
           busy |-> TRUE,      \* nothing is submitted while a submit is out
           frees |-> FALSE,    \* closing it ends that
           locked |-> FALSE]   \* the inputs are disabled while a submit is out

\* A dialog for something new that is emptied only when it has been made.
CreateDialog == [Dialog EXCEPT !.loads = FALSE, !.resets = {}, !.success = {"close", "reset"}]

\* The settings of a page, which the answer to a save replaces.
SettingsForm == [Dialog EXCEPT !.page = TRUE, !.success = {"reset"}]

ReflexRuleDialog == Dialog
ChannelFormDialog == Dialog
EscalationPolicyDialog == Dialog
EnvironmentForm == Dialog
AlertRuleDialog == [Dialog EXCEPT !.resets = {"open", "target", "options"}]
EditUserDialog == [Dialog EXCEPT !.resets = {"target"}]
VMGroupDialog == [Dialog EXCEPT !.failure = {"close"}]
CreateUserDialog == CreateDialog
GenerateKeyDialog == CreateDialog
CreateBackupDialog == CreateDialog
ChangePasswordDialog == CreateDialog
LogExportDialog == [CreateDialog EXCEPT !.success = {"close"}]
DeleteNodeDialog == [CreateDialog EXCEPT !.resets = {"close"}]
AddNodeDialog == [CreateDialog EXCEPT !.resets = {"close"}]
OnboardNodeDialog == [CreateDialog EXCEPT !.resets = {"close"}, !.frees = TRUE]
CreateTokenDialog == [CreateDialog EXCEPT !.resets = {"close"}, !.success = {}]
CreateInvitationDialog == CreateTokenDialog
NewBrainEntryDialog == CreateDialog
CreateDependencyForm == [CreateDialog EXCEPT !.resets = {"close"}]
SmtpConfigCard == [SettingsForm EXCEPT !.resets = {"options"}]
RoleSettingsPage == [SettingsForm EXCEPT !.locked = TRUE]
PasswordPolicyPage == [SettingsForm EXCEPT !.success = {}]
SecuritySettingsPage == SettingsForm
AgentSettingsPage == SettingsForm
VMPermissionMatrix == SettingsForm

Forms == {ReflexRuleDialog, ChannelFormDialog, EscalationPolicyDialog, EnvironmentForm, AlertRuleDialog,
          EditUserDialog, VMGroupDialog, CreateUserDialog, GenerateKeyDialog, CreateBackupDialog,
          ChangePasswordDialog, LogExportDialog, DeleteNodeDialog, AddNodeDialog, OnboardNodeDialog,
          CreateTokenDialog, CreateInvitationDialog, NewBrainEntryDialog, CreateDependencyForm,
          SmtpConfigCard, RoleSettingsPage, PasswordPolicyPage, SecuritySettingsPage,
          AgentSettingsPage, VMPermissionMatrix}

-----------------------------------------------------------------------------
(* The state of one.                                                        *)

CONSTANTS Owners, NoOwner,
          Edits,        \* bound: what the user types
          Submits       \* bound: the submits that are made

ASSUME NoOwnerAssumption == NoOwner \notin Owners

VARIABLES form,       \* the record of the form
          owner,      \* the object it is open for, or NoOwner
          basis,      \* the object whose stored values fill it, or NoOwner: blank
          entered,    \* the edits in it
          typed,      \* per edit: the object that was open when it was typed
          saving,     \* its isSubmitting
          submit,     \* per submit: its phase, its object and what it carries
          raced,      \* history: typed, or opened again, while a submit was out
          lost        \* history: edits that vanished, not by the user and not stored

formVars == <<form, owner, basis, entered, typed, saving, submit, raced, lost>>

NoSubmit == [phase |-> "idle", to |-> NoOwner, basis |-> NoOwner, edits |-> {}]

FormTypeOK ==
  /\ form \in Forms
  /\ owner \in Owners \cup {NoOwner} /\ basis \in Owners \cup {NoOwner}
  /\ entered \subseteq Edits
  /\ typed \in [Edits -> Owners \cup {NoOwner}]
  /\ submit \in [Submits -> [phase : {"idle", "sent", "stored", "over"}, to : Owners \cup {NoOwner},
                             basis : Owners \cup {NoOwner}, edits : SUBSET Edits]]
  /\ saving \in BOOLEAN /\ raced \in BOOLEAN /\ lost \subseteq Edits

FormInit ==
  /\ form \in Forms
  /\ owner = NoOwner /\ basis = NoOwner /\ entered = {}
  /\ typed = [e \in Edits |-> NoOwner]
  /\ submit = [s \in Submits |-> NoSubmit]
  /\ saving = FALSE /\ raced = FALSE /\ lost = {}

-----------------------------------------------------------------------------

SubmitsOut == {s \in Submits : submit[s].phase \in {"sent", "stored"}}

\* The form is filled with the stored values of object o, or emptied.
Fill(o) == entered' = {} /\ basis' = (IF form.loads THEN o ELSE NoOwner)

OpenForm_Refilled(o) ==
  /\ owner = NoOwner /\ owner' = o
  /\ IF "open" \in form.resets THEN Fill(o) ELSE UNCHANGED <<entered, basis>>
  /\ raced' = (raced \/ SubmitsOut # {})
  /\ UNCHANGED <<form, typed, saving, submit, lost>>

\* A dialog is opened, or the page; the object of a dialog is none while it is closed.
OpenForm(o) ==
  /\ owner = NoOwner /\ owner' = o
  /\ IF form.page \/ form.resets \cap {"open", "target"} # {} THEN Fill(o)
     ELSE UNCHANGED <<entered, basis>>
  /\ raced' = (raced \/ SubmitsOut # {})
  /\ UNCHANGED <<form, typed, saving, submit, lost>>

\* The user closes the dialog, or leaves the page and all that it waits for.
CloseForm ==
  /\ owner # NoOwner /\ owner' = NoOwner
  /\ IF form.page \/ "close" \in form.resets THEN Fill(NoOwner) ELSE UNCHANGED <<entered, basis>>
  /\ submit' = [s \in Submits |-> IF form.page /\ s \in SubmitsOut
                                  THEN [NoSubmit EXCEPT !.phase = "over"] ELSE submit[s]]
  /\ saving' = (saving /\ ~form.page /\ ~form.frees)
  /\ UNCHANGED <<form, typed, raced, lost>>

Type(e) ==
  /\ owner # NoOwner /\ typed[e] = NoOwner
  /\ ~(form.locked /\ saving)
  /\ entered' = entered \cup {e}
  /\ typed' = [typed EXCEPT ![e] = owner]
  /\ raced' = (raced \/ SubmitsOut # {})
  /\ UNCHANGED <<form, owner, basis, saving, submit, lost>>

\* A list that the form offers, or the object that it shows, is loaded again.
Reloaded ==
  /\ owner # NoOwner /\ "options" \in form.resets
  /\ Fill(owner)
  /\ lost' = lost \cup entered
  /\ UNCHANGED <<form, owner, typed, saving, submit, raced>>

\* The request names the object that is open.
Submit(s) ==
  /\ owner # NoOwner /\ submit[s].phase = "idle"
  /\ ~(form.busy /\ saving) /\ saving' = TRUE
  /\ submit' = [submit EXCEPT ![s] = [phase |-> "sent", to |-> owner, basis |-> basis, edits |-> entered]]
  /\ UNCHANGED <<form, owner, basis, entered, typed, raced, lost>>

Stored(s) ==
  /\ submit[s].phase = "sent"
  /\ submit' = [submit EXCEPT ![s].phase = "stored"]
  /\ UNCHANGED <<form, owner, basis, entered, typed, saving, raced, lost>>

\* What an answer does with the form, as it is by then.  Edits that are dropped with
\* it are lost unless K has them.
Follow(how, s, K) ==
  /\ owner' = IF "close" \in how THEN NoOwner ELSE owner
  /\ IF "reset" \in how \/ ("close" \in how /\ owner # NoOwner /\ "close" \in form.resets)
     THEN Fill(submit[s].to) ELSE UNCHANGED <<entered, basis>>
  /\ lost' = IF owner # NoOwner /\ ("reset" \in how \/ ("close" \in how /\ form.resets # {}))
             THEN lost \cup (entered \ K) ELSE lost
  /\ saving' = FALSE
  /\ submit' = [submit EXCEPT ![s] = [NoSubmit EXCEPT !.phase = "over"]]
  /\ UNCHANGED <<form, typed, raced>>

Accepted(s) == submit[s].phase = "stored" /\ Follow(form.success, s, submit[s].edits)

\* An error, before or after the submit was stored.
Rejected_Closes(s) == s \in SubmitsOut /\ Follow({"close"}, s, {})

Rejected(s) == s \in SubmitsOut /\ Follow(form.failure, s, {})

FormNext ==
  \/ \E o \in Owners : OpenForm(o)
  \/ CloseForm \/ Reloaded
  \/ \E e \in Edits : Type(e)
  \/ \E s \in Submits : Submit(s) \/ Stored(s) \/ Accepted(s) \/ Rejected(s)

FormSpec == FormInit /\ [][FormNext]_formVars

-----------------------------------------------------------------------------
(* Properties.                                                              *)

\* Forms that are emptied only by success, and keep what was typed for another object
\* when they are cancelled (change-password-dialog.tsx:46).
Carries == form.resets = {} /\ ~form.page

\* What is submitted for an object was typed for it, over its own stored values, even
\* when the answer to an earlier submit for another object came in between.
SubmitsForItsTarget ==
  \A s \in Submits : submit[s].phase = "sent" /\ ~Carries =>
    /\ submit[s].basis \in {submit[s].to, NoOwner}
    /\ \A e \in submit[s].edits : typed[e] = submit[s].to

\* Edits vanish only with the user's own closing or with the answer to a submit that
\* carried them, unless something was typed or opened while a submit was out; a form
\* that is filled again when a list is reloaded, or closed by an error, loses them too.
EditsAreKept ==
  lost # {} => raced \/ "options" \in form.resets \/ "close" \in form.failure
=============================================================================
