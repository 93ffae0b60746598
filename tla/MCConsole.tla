----------------------------- MODULE MCConsole -----------------------------
(* The session of the console and its pages for TLC.  A page does not read what
   another one keeps, so a behaviour uses one of them, chosen at the start; the
   variables of the others keep one fixed value. *)
EXTENDS WebSession, NetworkView, CockpitFiles, CockpitListing, LiveSocket,
        MigrationBoard, MigrateDialog, ChatWindow, RecoveryWizard, TLC

CONSTANT Pages

VARIABLE page    \* the one in use

consoleVars == <<page, sessionVars, netVars, filesVars, listingVars, socketVars, boardVars, dialogVars,
                 chatVars, wizardVars>>

ConsoleInit ==
  /\ page \in Pages
  /\ SessionInit /\ NetInit /\ FilesInit /\ ListingInit /\ DialogInit
  /\ SocketInit /\ (page # "socket" => token /\ visible)
  /\ BoardInit
  /\ page # "board" => /\ \A m \in Migrations : row[m] = "none"
                       /\ listing[CHOOSE k \in ListSlots : TRUE] # NoGet
  /\ ChatInit /\ (page # "chat" => exists = {})
  /\ WizardInit /\ (page # "wizard" => backups = NoHost)

\* All but the page's own variables stay as they are.
ConsoleNext ==
  /\ UNCHANGED page
  /\ IF page = "session" THEN SessionNext ELSE UNCHANGED sessionVars
  /\ IF page = "network" THEN NetNext ELSE UNCHANGED netVars
  /\ IF page = "files" THEN FilesNext ELSE UNCHANGED filesVars
  /\ IF page = "listing" THEN ListingNext ELSE UNCHANGED listingVars
  /\ IF page = "socket" THEN SocketNext ELSE UNCHANGED socketVars
  /\ IF page = "board" THEN BoardNext ELSE UNCHANGED boardVars
  /\ IF page = "migrate" THEN DialogNext ELSE UNCHANGED dialogVars
  /\ IF page = "chat" THEN ChatNext ELSE UNCHANGED chatVars
  /\ IF page = "wizard" THEN WizardNext ELSE UNCHANGED wizardVars

ConsoleSpec == ConsoleInit /\ [][ConsoleNext]_consoleVars

\* What each page promises of the object that it is about: CockpitListing, the panels
\* of NetworkView, MigrateDialog, ChatWindow and RecoveryWizard show, and act on, the
\* object that the page names, and not the one before it, however answers, failures
\* and changes of the selection interleave.
ScreenIsOfItsObject ==
  /\ QuietPanelsAreSelected
  /\ ListingIsOfPath
  /\ DialogIsOfTarget
  /\ ChatIsOfConversation
  /\ RestoreHitsNamedNode

\* One of the two tabs has two requests out at a time.
TwoTabs == ("t1" :> {"a1", "a2"}) @@ ("t2" :> {"c"})
=============================================================================
