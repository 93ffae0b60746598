--------------------------- MODULE CockpitListing ---------------------------
(***************************************************************************)
(* The listing of the files tab in the VM cockpit: navigateTo and the      *)
(* operations on entries (stores/vm-cockpit-store.ts, files-tab.tsx).      *)
(* The store is one for all VMs and outlives the tab.                      *)
(***************************************************************************)
EXTENDS Naturals

CONSTANTS Machines, Dirs, Root, NoDir,
          MaxOut     \* bound: listings of one directory that are out

ASSUME ListingRootAssumption == Root \in Dirs
ASSUME ListingNoDirAssumption == NoDir \notin Machines \cup (Machines \X Dirs)
ASSUME ListingBoundAssumption == MaxOut \in Nat

VARIABLES machine, browsing,   \* the VM of the cockpit; whether the listing is shown
          cwd, listed,         \* currentPath; the directory whose entries are in files
          dirLoading, dirError, \* isLoadingFiles, filesError
          listings,            \* per directory: requests of listDir that are out
          entryOps,            \* deletes, mkdirs, creates, uploads that are out, per VM
          overlapped           \* history: two listings were out at once

listingVars == <<machine, browsing, cwd, listed, dirLoading, dirError, listings,
                 entryOps, overlapped>>

Places == Machines \X Dirs

ListingTypeOK ==
  /\ machine \in Machines \cup {NoDir} /\ browsing \in BOOLEAN
  /\ cwd \in Dirs /\ listed \in Places \cup {NoDir}
  /\ dirLoading \in BOOLEAN /\ dirError \in BOOLEAN
  /\ listings \in [Places -> Nat] /\ entryOps \subseteq Machines
  /\ overlapped \in BOOLEAN

ListingInit ==
  /\ machine = NoDir /\ browsing = FALSE
  /\ cwd = Root /\ listed = NoDir /\ dirLoading = FALSE /\ dirError = FALSE
  /\ listings = [f \in Places |-> 0] /\ entryOps = {}
  /\ overlapped = FALSE

\* navigateTo(d) of the VM in the store.
Navigate(d) ==
  /\ listings[<<machine, d>>] < MaxOut
  /\ cwd' = d /\ dirLoading' = TRUE /\ dirError' = FALSE
  /\ listings' = [listings EXCEPT ![<<machine, d>>] = @ + 1]
  /\ overlapped' = (overlapped \/ \E f \in Places : listings[f] > 0)
  /\ UNCHANGED listed

\* Another VM's cockpit, another tab, or an open file: the listing is gone, the
\* store stays as it is.
SetMachine(v) ==
  /\ machine' = v /\ browsing' = FALSE
  /\ UNCHANGED <<cwd, listed, dirLoading, dirError, listings, entryOps, overlapped>>

\* The files tab is shown again: its effect lists the root.
ShowListing ==
  /\ machine # NoDir /\ ~browsing /\ browsing' = TRUE
  /\ Navigate(Root)
  /\ UNCHANGED <<machine, entryOps>>

\* A bookmark, a breadcrumb, the reload button, ".." or an entry is clicked.
GoTo(d) ==
  /\ browsing /\ Navigate(d)
  /\ UNCHANGED <<machine, browsing, entryOps>>

\* listDir answers: the spinner goes, whatever has been asked for since.
Listed(f) ==
  /\ listings[f] > 0 /\ listings' = [listings EXCEPT ![f] = @ - 1]
  /\ dirLoading' = FALSE /\ listed' = f
  /\ UNCHANGED <<machine, browsing, cwd, dirError, entryOps, overlapped>>

\* Or it fails, and the error takes the place of the listing.
ListFailed(f) ==
  /\ listings[f] > 0 /\ listings' = [listings EXCEPT ![f] = @ - 1]
  /\ dirLoading' = FALSE /\ dirError' = TRUE
  /\ UNCHANGED <<machine, browsing, cwd, listed, entryOps, overlapped>>

\* deleteEntry, createDirectory, createFile, uploadFile.
ChangeEntry ==
  /\ browsing /\ machine \notin entryOps     \* bound: one per VM
  /\ entryOps' = entryOps \cup {machine}
  /\ UNCHANGED <<machine, browsing, cwd, listed, dirLoading, dirError, listings, overlapped>>

\* Success lists what is the current path, of what is the VM, by then.
EntryChanged(v) ==
  /\ v \in entryOps /\ entryOps' = entryOps \ {v}
  /\ \/ Navigate(cwd)
     \/ UNCHANGED <<cwd, listed, dirLoading, dirError, listings, overlapped>>
  /\ UNCHANGED <<machine, browsing>>

ListingNext ==
  \/ \E v \in Machines : SetMachine(v) \/ EntryChanged(v)
  \/ ShowListing \/ ChangeEntry
  \/ \E d \in Dirs : GoTo(d)
  \/ \E f \in Places : Listed(f) \/ ListFailed(f)

ListingSpec == ListingInit /\ [][ListingNext]_listingVars

-----------------------------------------------------------------------------
(* Property.                                                                *)

\* The entries on the screen are those of the current path in this VM: what is
\* opened or deleted is what was clicked; unless two listings were out at once,
\* whose answers are taken in any order (vm-cockpit-store.ts:164).
ListingIsOfPath ==
  ~overlapped => (browsing /\ ~dirLoading /\ ~dirError => listed = <<machine, cwd>>)
=============================================================================
