---------------------------- MODULE CockpitFiles ----------------------------
(***************************************************************************)
(* The open file of the VM cockpit: its part of the store                  *)
(* (stores/vm-cockpit-store.ts), the files tab (files-tab.tsx) and the     *)
(* editor (file-editor.tsx).  The store is one for all VMs and outlives    *)
(* the tab; the text under edit belongs to the tab and dies with it.       *)
(* The listing of the tab is the module CockpitListing.                    *)
(*                                                                         *)
(* A text is known by the file it comes from and the number of the         *)
(* keystroke that made it.                                                 *)
(***************************************************************************)
EXTENDS Naturals, FiniteSets

CONSTANTS VMs, Paths, Nil,
          MaxRev,    \* bound: keystrokes
          MaxWritten \* bound: files that are changed before the last save begins

Files == VMs \X Paths
Texts == [of : Files, rev : 0 .. MaxRev]

ASSUME FilesBoundAssumption == MaxRev \in Nat /\ MaxWritten \in Nat
ASSUME FilesNilAssumption ==
  Nil \notin VMs \cup Paths \cup Files \cup Texts \cup [to : Files, text : Texts]

VARIABLES vm, tab,             \* the VM of the cockpit; whether its files tab is shown
          path,                \* openFilePath
          content, original,   \* openFileContent, openFileOriginal
          edit,                \* editContent of the tab ("" is Nil)
          read, save,          \* the readFile, writeFile that is out (isLoadingFile, isSavingFile)
          remote,              \* the files in the VMs
          strokes,             \* keystrokes so far
          mixed                \* history: see Leave, CloseFile, Discard

filesVars == <<vm, tab, path, content, original, edit, read, save, remote, strokes, mixed>>

FilesTypeOK ==
  /\ vm \in VMs \cup {Nil} /\ tab \in BOOLEAN
  /\ path \in Paths \cup {Nil}
  /\ content \in Texts \cup {Nil} /\ original \in Texts \cup {Nil}
  /\ edit \in Texts \cup {Nil}
  /\ read \in Files \cup {Nil} /\ save \in [to : Files, text : Texts] \cup {Nil}
  /\ remote \in [Files -> Texts] /\ strokes \in 0 .. MaxRev
  /\ mixed \in BOOLEAN

FilesInit ==
  /\ vm = Nil /\ tab = FALSE
  /\ path = Nil /\ content = Nil /\ original = Nil /\ edit = Nil
  /\ read = Nil /\ save = Nil
  /\ remote = [f \in Files |-> [of |-> f, rev |-> 0]] /\ strokes = 0
  /\ mixed = FALSE

-----------------------------------------------------------------------------
(* The cockpit and its tab.                                                 *)

\* The tab goes: the text under edit is lost.  What was saved since the file was
\* opened is in original, not in content, which the tab will start from again.
Leave(v) ==
  /\ tab' = FALSE /\ vm' = v /\ edit' = Nil
  /\ mixed' = (mixed \/ (path # Nil /\ (v # vm \/ original # content \/ save # Nil)))
  /\ UNCHANGED <<path, content, original, read, save, remote, strokes>>

\* The cockpit of a VM is opened: setVM leaves all else in the store.
SetVM(v) == Leave(v)
LeaveTab == tab /\ Leave(vm)

\* The files tab is shown: an effect copies openFileContent.
ShowTab ==
  /\ vm # Nil /\ ~tab /\ tab' = TRUE
  /\ edit' = content
  /\ UNCHANGED <<vm, path, content, original, read, save, remote, strokes, mixed>>

-----------------------------------------------------------------------------
(* The editor.                                                              *)

\* An entry of the listing is clicked; the listing is there while no file is open.
OpenFile(p) ==
  /\ tab /\ path = Nil
  /\ path' = p /\ read' = <<vm, p>>
  /\ UNCHANGED <<vm, tab, content, original, edit, save, remote, strokes, mixed>>

\* The content goes into the store and, by an effect, into the tab.
FileRead ==
  /\ read # Nil /\ read' = Nil
  /\ content' = remote[read] /\ original' = remote[read]
  /\ edit' = IF tab THEN remote[read] ELSE edit
  /\ UNCHANGED <<vm, tab, path, save, remote, strokes, mixed>>

ReadFailed_KeepsPath ==
  /\ read # Nil /\ read' = Nil
  /\ UNCHANGED <<vm, tab, path, content, original, edit, save, remote, strokes, mixed>>

\* It fails, and no file is open.
ReadFailed ==
  /\ read # Nil /\ read' = Nil
  /\ path' = Nil
  /\ UNCHANGED <<vm, tab, content, original, edit, save, remote, strokes, mixed>>

\* The editor is there once the file is loaded; a spinner without buttons until then.
Editing == tab /\ path # Nil /\ read = Nil

CloseFile ==
  /\ Editing
  /\ path' = Nil /\ content' = Nil /\ original' = Nil
  /\ mixed' = (mixed \/ save # Nil)
  /\ UNCHANGED <<vm, tab, edit, read, save, remote, strokes>>

TypeText ==
  /\ Editing /\ edit # Nil /\ strokes < MaxRev
  /\ strokes' = strokes + 1
  /\ edit' = [edit EXCEPT !.rev = strokes + 1]
  /\ UNCHANGED <<vm, tab, path, content, original, read, save, remote, mixed>>

\* handleDiscard.
Discard ==
  /\ Editing /\ original # Nil /\ edit # original
  /\ edit' = original
  /\ mixed' = (mixed \/ save # Nil)
  /\ UNCHANGED <<vm, tab, path, content, original, read, save, remote, strokes>>

Written == {f \in Files : remote[f] # [of |-> f, rev |-> 0]}

\* handleSave: to the open path, in the VM of the cockpit.
SaveFile ==
  /\ Editing /\ edit # original /\ edit # Nil /\ save = Nil
  /\ Cardinality(Written) < MaxWritten
  /\ save' = [to |-> <<vm, path>>, text |-> edit]
  /\ UNCHANGED <<vm, tab, path, content, original, edit, read, remote, strokes, mixed>>

\* The answer of writeFile, whatever is open by now.
Saved ==
  /\ save # Nil /\ save' = Nil
  /\ remote' = [remote EXCEPT ![save.to] = save.text]
  /\ original' = save.text
  /\ UNCHANGED <<vm, tab, path, content, edit, read, strokes, mixed>>

\* An error: the file may have been written all the same.
SaveFailed ==
  /\ save # Nil /\ save' = Nil
  /\ remote' \in {remote, [remote EXCEPT ![save.to] = save.text]}
  /\ UNCHANGED <<vm, tab, path, content, original, edit, read, strokes, mixed>>

FilesNext ==
  \/ \E v \in VMs : SetVM(v)
  \/ ShowTab \/ LeaveTab
  \/ \E p \in Paths : OpenFile(p)
  \/ FileRead \/ ReadFailed \/ CloseFile
  \/ TypeText \/ Discard \/ SaveFile \/ Saved \/ SaveFailed

FilesSpec == FilesInit /\ [][FilesNext]_filesVars

-----------------------------------------------------------------------------
(* Properties.                                                              *)

\* The editor holds the text of the file whose path it shows, at least as new as
\* what was saved, and what is saved goes to the file it came from, so that no
\* file is overwritten with another's text; unless the cockpit moves to another
\* VM while a file is open (setVM, vm-cockpit-store.ts:80, keeps the editor), the
\* file is closed, or its changes discarded, while its save is out, or the tab is
\* left after a save.
EditorKeepsToItsFile ==
  ~mixed => /\ Editing => /\ edit # Nil /\ edit.of = <<vm, path>>
                          /\ original # Nil /\ original.of = <<vm, path>>
                          /\ edit.rev >= original.rev
            /\ save # Nil => save.text.of = save.to
            /\ \A f \in Files : remote[f].of = f
=============================================================================
