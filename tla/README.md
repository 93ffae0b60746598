# Prometheus-Vita in TLA+

Prometheus-Vita manages Proxmox VE nodes: a Go backend (`src/backend`), a web
console (`src/frontend`, React with stores of Zustand), and the skeleton of a
rewrite (`src/Prometheus-V2`). This directory holds TLA+ models of the parts of
the backend in which steps of several actors interleave and fail, and of the
console, in which requests overlap, are answered in any order, and the user
clicks in between; the TLC configurations that check them; and proofs that TLAPS
checks.

The deployment is a single backend process with PostgreSQL and Redis
(`docs/DEPLOYMENT.md:3-5`); the models of the backend assume that. A browser
runs JavaScript one task at a time; the models of the console assume that, and
that React runs an effect together with the change that triggers it.

## 1. The system: inventory

### Backend

| Component | State it keeps | Operations | What is hard about it | What makes it correct |
|---|---|---|---|---|
| Migration service (`service/migration`) | `activeVMs`, `cancels` in memory; rows of `vm_migrations` | Start, Cancel, Delete, Recover at startup, one goroutine per migration | concurrent starts, cancels that race the end, crashes, lost updates | one migration per VM, no leaked lock, rows go forward only, every migration ends |
| Migration pipeline (`executeMigration`) | local variables; power, registration and media of the VM, archives and tasks on two nodes | 5 phases of remote commands, rollback | partial failure, tasks outlive their waits, context ends at any step | the VM is never lost, never runs twice, comes back after a failure; "completed" is true |
| WebSocket hub (`service/monitor/ws_hub.go`) | client set, channels, `stopped`/`done` | Register, Unregister, Broadcast, Shutdown, pumps | shutdown against broadcast and unregister; slow clients | no send on a closed channel, every channel is closed once, no pump is left |
| Log stream fan-out (`service/logstream`) | workers, subscriber slices | Subscribe, Unsubscribe, notify, rotate, Shutdown | slices and channels used after the lock is released | every entry delivered or counted, no send on a closed channel |
| Agent approvals (`service/agent`, `approval_repository.go`) | rows of pending approvals | Request, Approve, Reject, Expire, execute | two deciders, expiry, crash after the decision | a tool runs at most once, and only after an approval |
| SSH pool (`internal/ssh`) | one client per node | Get, Return, NewDirect, eviction | a shared client is closed while somebody uses it | no use after close, no leaked connection |
| Network scanner (`service/netscan`) | scan rows, baselines | quick, full and triggered scans, diff | concurrent scans of one node | a diff compares the scans it means to |
| Log consumer (`service/loganalyzer`) | consumer groups on Redis streams | read, classify, acknowledge | crash between read and acknowledge | nothing is skipped, duplicates are tolerated |
| Alerts and escalation (`service/notification`) | incidents, notification history | evaluate, escalate, acknowledge, resolve | evaluation racing acknowledgement | one open incident per rule, no escalation after it |
| Reflex rules (`service/reflex`) | rule, last triggered | evaluate, act | cooldown read before and written after the action | at most one action per cooldown |
| Backup and restore (`service/backup`) | backup rows, files | create, schedule, prune, restore | crash while running | no row runs for ever, retention keeps the newest |
| Authentication (`service/auth`, V2 `domain/auth`) | refresh tokens, sessions, lockout | login, refresh, logout | concurrent refresh, reuse | a refresh token is worth one session at a time |
| SSH key rotation (`service/sshkeys`) | keys, active flag | generate, deploy, verify, rotate | failure between deploy and switch | the node stays reachable |
| Snapshot policies, scheduled actions (`service/vm`) | policies, actions, next run | tick, run, prune | overlapping ticks, restarts | at most once per due time |
| Node service, ISO sync, recovery, drift, updates, topology, predictions, briefing, gateway, Telegram, LLM, repositories | rows, settings | CRUD, periodic reads, calls to other systems | mostly sequential | see section 8 |

`cmd/server/main.go` wires them: it runs `RecoverOrphanedMigrations`, starts the
hub, the log streams, the scanner and about 25 scheduler jobs, and on SIGTERM
shuts down log streams, log consumer, scanner, hub and HTTP server in that
order. Services share the SSH pool, push to browsers through the hub, and reach
nodes through the Proxmox API client and SSH.

### Web console

| Component | State it keeps | What is hard about it | What makes it correct |
|---|---|---|---|
| Session (`auth-store.ts`, `lib/api.ts`) | tokens per tab, shared `localStorage`, queue of requests | many 401s share one rotation, a second tab, a logout against a late answer | both tokens of one pair; no lost session without a reason; no request that waits for nothing |
| Network page (`network-store.ts`, `use-network-scan.ts`) | four panels of a selected node | answers of older requests and other nodes | a panel changes only to its latest request's answer |
| Cockpit of a guest: files | the open file in a store for all VMs, the edited text in the tab | saves and reads answered after another file was opened | no file gets another's text |
| Cockpit: assistant, terminal | a conversation; terminal tabs over one socket | late answers, retries of a socket that was replaced | one conversation, no second run by accident; no stranded terminal |
| Live socket (`use-websocket.ts`) | one socket, a retry timer, closures of renders | late close events, renders, visibility | one socket, never stranded |
| Migration list, dialog and assistant | rows from listings, messages and own commands; steps of a form | three sources of the same rows; late listings of storages | the list is the server's; a migration is for what was picked |
| Chat (`chat-store.ts`) | a conversation, its messages and tool calls | the user goes on clicking while a message is out for minutes | what is shown is of the conversation in the title |
| Recovery wizard, bulk tags | steps over shared stores | lists of another node, a handler of an old render | the order is for the object that the dialog names |
| Lists of rows | 67 stores, pages and dialogs | listings that overlap with changes | the rows are the object's, and current |
| Forms | 25 dialogs and settings | answers that come when the form is open for another object | edits are submitted for their object, and kept |
| Orders for the rows of a table | 39 tables: confirmations and busy marks | an answer for one row touches another's confirmation | one confirmation, one order |
| List of guests, topology map, search palette and page, gauges, live tail | selections, graphs, rankings, pages that share a store | selections over rows that change; views that derive from partial answers | see section 2 |

Every page calls the backend through `lib/api.ts`, whose interceptors are the
session's; live pages get messages of the hub through the live socket. Stores
outlive their pages; the state of a component dies with it, its requests do not.

## 2. Modules

| Module | Models |
|---|---|
| `MigrationLifecycle` | abstract: what the rows of `vm_migrations` promise |
| `MigrationService`, `MigrationServiceProofs` | calls, goroutines, lock, cancel functions, rows, crash and restart |
| `MigrationPipeline`, `MigrationPipelineProofs` | one `executeMigration` and the two nodes |
| `MessageStream` | abstract: what a hub promises those who listen to it |
| `WSHub`, `WSHubProofs` | the hub's `Run`, the handlers and pumps of its clients, `BroadcastMessage`, `Shutdown` |
| `LogFanout`, `LogFanoutProofs` | `Subscribe`, `Unsubscribe` and `notifySubscribers` of one node, and the browsers behind the channels |
| `AgentApprovals`, `AgentApprovalsProofs` | `executeTool`, the rows of pending approvals and those who decide on them |
| `SSHPool`, `SSHPoolProofs` | `Get`, `Return` and `evictLRU` of the connection pool, and connections that break |
| `WebSession` | the tokens of the console's tabs, its interceptors, and the rotation on the server |
| `LatestView` | abstract: a page whose panels show the answer of their latest request |
| `NetworkView` | the network page, which implements `LatestView` |
| `CockpitFiles`, `CockpitListing` | the editor and the listing of the files tab |
| `LiveSocket` | the hook `useWebSocket` |
| `MigrationBoard`, `MigrateDialog`, `MigrationForm` | list, dialog and assistant of the migrations |
| `ChatWindow`, `RecoveryWizard`, `BulkTag` | one page or dialog each |
| `ScreenTable`, `ListScreens` | lists of rows: a record for each, and their machine |
| `EditForms` | forms: a record for each, and their machine |
| `RowActions` | orders for the rows of tables: a record for each table, and their machine |
| `VMList`, `TopologyMap`, `NodeGauges` | views that conclude something from the nodes and guests |
| `RowOrder` | filters, stable sorts and groups of rows |
| `SearchPalette`, `SearchPage` | the two searches |
| `VMAssistant`, `VMShell`, `LogTail` | assistant and terminal of a guest, live tail of a node's log |
| `MCConsole`, `MCScreens` | the console for TLC: one page, or one screen, per behaviour |
| `ConsoleProofs`, `ScreensProofs` | the proofs about the pages of `MCConsole` and the screens of `MCScreens` |
| other `MC*` | instances of the modules they are named after (the migration's service and pipeline and the hub need none) |

The modules of the backend come first, then those of the console.

### MigrationService

A call of `StartMigration` and the goroutine it spawns are one process `r`, with
the migration's id as its name. `activeVMs` maps a VMID to `<<"placeholder",
r>>` (the `uuid.New()` of the reservation) or `<<"migration", r>>`, as in the
code; `cancels` is the set of keys of the map of the same name; `ctx` says
whether `migCtx` was cancelled or ran out. `record` is the committed row,
`status` the goroutine's own `m.Status`; the two differ when an UPDATE was lost.
`CancelMigration` and `DeleteMigration` are two steps each, because the row is
read before and outside the lock. A phase of the pipeline is `EnterPhase`
(`updatePhase`) and `PhaseSucceeds` or `PhaseFails`; `RollBack` is what
`handleError` does after its UPDATE, during which the lock is still held.
`Crash` forgets everything in memory, `Boot`/`RecoverRecord`/`Serve` are
`RecoverOrphanedMigrations`, run by `main()` before the server listens. An
UPDATE takes effect within its call or not at all.

### MigrationPipeline

`go` is the goroutine: `pc` and those of its local variables that later steps
read (`stopped` = `vmWasStopped`, `forced` = `stoppedForUnregister`, `saved` =
`sourceConfigBackup != ""`, ...). `src` and `tgt` are what is on the nodes,
`task` the Proxmox tasks and the scp process, which run whether or not anybody
waits for them. Every remote call has two results: `ok`, what the caller sees,
and `ran`, what happened. With a live context they agree unless one of
`MaxFaults` faults is spent; with a context that is done the caller sees an
error (`ApiReply`: nothing was sent; `SshReply`: a command may have been).
`DetachedReply` is a call with `context.Background()`. The source VM runs at the
beginning.

### WSHub

`run` is the goroutine of `Run`: in its select, in the loop over the clients of
one message, or gone. A handler and its read pump are one process per client
(`reader`), the write pump is another (`writer`); the handler of an unbuffered
send on `register` or `unregister` waits in `registering` or `unregistering`
until `Run` takes it or `hub.done` is closed. `todo` is what the range over the
map has still to visit, in any order. `sender` is a caller of `BroadcastMessage`
between its check of `hub.stopped` and its send. Go's panics are states: `panic`
says that a closed channel was sent to or closed again, and then nothing moves
any more, because `Run` has no `recover`. Messages are numbered in the order in
which `hub.broadcast` takes them, so that gaps and repetitions can be seen in
what a client got.

The hub implements `MessageStream`: `current` is the newest message, the clients
in the map are those who listen, `todo` those who have still to be passed it,
`send` what is passed and not received. A drop, an unregister and the shutdown
are a `Leave`; a hub that has panicked has no listeners, because the process is
dead. A loop that went on with the next message before every client had the
last one, or skipped a slow client without dropping it, would be no step of
the stream.

### LogFanout

The slice of subscribers is a Go slice: a backing array with a length and a
capacity. `append` in `Subscribe` writes behind the length or moves to a larger
array; `append(subs[:i], subs[i+1:]...)` in `Unsubscribe` moves the elements
down in the array that a fan-out may be reading. `notifySubscribers` copies the
slice header under the lock and reads the elements after it. That is a data
race: `UnsubscribeMove` writes one element at a time, in any order, and
`NotifyRead` reads whatever is there. A browser is a handler with a fan-in
goroutine (`FanIn`) and a write loop (`WriteLoop`), which can be left at any
write. Lines are numbered.

### AgentApprovals

A tool call (`call`) is checked, then either runs at once or leaves a row in
`agent_pending_approvals`. A decider is one request to `Approve` or `Reject` or
one tap in Telegram: it reads the row, updates it, validates the user and runs
the tool, in four steps. The user's rights change at any time, and `executeTool`
and `ExecuteApprovedTool` each work with the copy that they have loaded. A reply
of the UPDATE may be lost (`Accept`), a conversation may be deleted with its
approvals, and `Crash` ends whoever was at work. `verdict` and `entitled` are
history: what the UPDATE made of a row, and whether the user was allowed to make
the call at some time since.

### SSHPool

`Get` and `Return` hold the pool's lock from beginning to end, so each is one
step, with its keepalive, its dialing and the eviction that follows; what
interleaves is who holds which client meanwhile. A client is `open`, `dead` (the
connection has broken, a keepalive fails) or `closed` (by the pool). `lastUsed`
is kept as an order: `older[n]` is the set of entries that were used before n's,
and `idle` the entries that are older than `IdleTimeout`. A name of a client
that nobody refers to is used again, so that behaviours have no end. `displaced`
is history: some `Return` of a dead client has removed the entry of another one.

### WebSession

`Stores` is what a tab's store holds, `disk` the `localStorage` that every
change of a store writes and only a page load reads. A request goes out with the
access token of the store, is refused when that token has expired, and then
waits for the one refresh of its tab, or starts it; the end of the refresh sends
the waiting requests again or rejects them. Login, logout, reloads and the end
of either token's life come between. The server rotates a refresh token in one
statement and knows only its newest. A token pair is a number.
`SessionLostHasReason` lists what may end a session (`mishap`): a second tab, a
reload during a refresh, a refresh that fails, the end of the refresh token.

### LatestView and NetworkView

`NetworkView` has a counter per panel (`latest`) and the requests that are out
(`flight`); an answer is taken when its number is still the counter's
(`IsLatest`). Selecting a node, the polling hook, a finished scan and a changed
baseline ask for panels again. `LatestView` promises that a panel changes to
nothing else than the answer of its latest request; `ShowsLatestOnly` is this
promise with `view <- view`, `latest <- latest`. `QuietPanelsAreSelected` adds
that a page at rest shows the selected node.

### CockpitFiles and CockpitListing

The store is one for all guests and outlives the tab, the edited text (`edit`)
belongs to the tab. A text is known by the file that it comes from and its
keystroke. `mixed` is history: it says that the user did one of the three things
that the code does not cope with, which `EditorKeepsToItsFile` names.

### LiveSocket

Each render with another token or other callbacks makes a new `connect` closure;
sockets and timers keep the number of the closure that made them. A socket
closes in two steps, `close()` and its late event. `displaced` says that a
socket was made while another was closing; the late event then resets the state
of the new one (`use-websocket.ts:105`), and the promises of `OneSocket` about
what is shown are not made any more.

### MigrationBoard, MigrateDialog, MigrationForm

`MigrationBoard` relates the list to the server's rows, which move as in
`MigrationService`; listings, pushes of the hub and answers of own commands all
write the list. `MigrateDialog` loads the storages of the target in up to three
attempts with timeouts, each of which may be answered late. `MigrationForm` is
the assistant of the page, which loads the storages of the *source*, keeps the
target when the source is picked again and does not cancel listings.

### ChatWindow, RecoveryWizard, BulkTag

`ChatWindow` knows a message and a tool call by its conversation; `moved` says
that another conversation was shown while a message was out, whose answer the
store adds to whatever is displayed. `RecoveryWizard` is the scenario that
restores a backup, over a store that holds the list of whichever node was
answered last. `BulkTag` distinguishes what a handler of a render sees from what
it has set.

### ListScreens, EditForms, RowActions

Most of the console's pages, dialogs and stores are lists, forms and tables that
differ in a few decisions. Each is a record of these decisions, with its lines
in `map`; the machine takes one record at the start and runs the operations that
they share. A record of `ScreenTable` says whether the list is cleared when
another object is opened, whether it is hidden while it loads, whether late
answers are told apart, and what a change does to the list (reload, patch, add,
nothing). A record of `EditForms` says what fills and empties the form, what an
answer and an error do, and whether a submit blocks a second one. A record of
`RowActions` says whether an order is confirmed, where the confirmation is
drawn, what closes it, and how a busy row is shown. The properties are
conditional on the record only where the code makes no promise (a list that only
adds the created row may have it twice, a table without busy marks may order
twice); the conditions are in the definitions. What is special to one screen is
left out; where it matters most the screen has a module of its own.

### VMList, TopologyMap, NodeGauges

`VMList` keeps ticked guests through searches and reloads and sends orders for
one row or for what is ticked. `TopologyMap` builds the graph as the server does
of the nodes that answer (its goroutines append in any order, which is that of
`MapHosts` and `MapThings`) and draws it in three views; a drawing is a
sequence, as the drawing library requires hosts before what is inside of them.
The labels of the edges matter: the server's `"storage"` and `"bridge"` are none
that the map looks for first, so that only its second pass finds them.
`NodeGauges` is the store of nodes and their status with three pages that ask it
for different things and draw conclusions (operative, needs attention,
averages).

### RowOrder, SearchPalette, SearchPage

What the console makes of a list is the rows at some of its places in some
order of the places, and `Arrange` is that: each row stands at the place that
follows those of the rows ahead of it. `Kept` (a filter), `Ranked` (the stable
order by score), `GroupedBy` and `Joined` are its instances. What is typed is
abstracted to the score that each item gets. The palette marks the first row and
moves the mark, the page waits for a debounce before its rows are those of what
is typed.

### VMAssistant, VMShell, LogTail

`VMAssistant` is the conversation in the cockpit with the commands that its
answers offer. `VMShell` lets sessions' events arrive after they were replaced:
every handler works on the one current socket. `LogTail` is the page that reads
a log again and again or follows it through a socket; since each render passes a
new array of nodes, each runs the effect again, which closes the socket
(`LogTailIsTrue` includes this: the tail is never connected at rest).

### MCConsole and MCScreens

The pages read nothing of one another, so that their product would only multiply
states: a behaviour chooses one of them (`page`, `kind`) and the variables of
the others keep one value. A conjunct of a property that speaks of another page
is then true of its initial state only, and is tested by the behaviours of its
own page.

## 3. Runs

| Run | Shows |
|---|---|
| `service` | `NoParallelMigration`, `MapsMatchGoroutines` (`LockHasOwner`, `RunningIsCancellable`); that the service implements `MigrationLifecycle`; `LockReleased`: no VMID stays locked |
| `pipeline` | `SourceConfigNeverLost`, `CompletedIsTrue`, `CleanFailureRestoresSource`, `OperatorIsTold`, `RestoreOnlyWhenSafe`, and `Terminates`: the deadline ends every migration |
| `hub` | that the hub implements `MessageStream`; `OpenWhileServing`; `NobodyHangs` and `HubForgets` under fairness |
| `fanout` | `FanoutIsExact`, `OrderKept` |
| `approvals` | `AtMostOnce`, `RunsAreApproved`, `DowngradeIsHonoured`, `DecisionIsFinal` |
| `pool` | `PooledIsUsable`, `CalmSharing`, `CutOffOnlyIfOld` |
| `console` | the session: `TokensMatchSession`, `SessionLostHasReason`, `WaiterHasRefresh`; the pages: `EditorKeepsToItsFile`, `OneSocket`, `NeverStranded`, `QuietBoardIsServer`, `ShowsLatestOnly`, and `ScreenIsOfItsObject`, which joins `QuietPanelsAreSelected`, `ListingIsOfPath`, `DialogIsOfTarget`, `ChatIsOfConversation`, `RestoreHitsNamedNode` |
| `screens` | lists: `QuietScreenIsOfItsSubject`, `QuietScreenIsCurrent`, `ActsOnItsRows`; forms: `SubmitsForItsTarget`, `EditsAreKept`; orders: `ActionsAreMeant` (`OrdersAreMeant`, `MigrationIsMeant`, `CommandsRunOnce`, `RowsAreOrderedOnce`, `ConfirmationsAreKept`); conclusions: `ViewsAreTrue` (`GaugesAreTrue`, `AssistantIsTrue`, `ShellIsTrue`, `LogTailIsTrue`), `MapAndSearchesAreTrue` (`MapIsWhole`, `PaletteIsUsable`, `EnterOpensBest`) |
| `service_stuck`, `pipeline_split`, `hub_panic`, `bulk_tag` | places where the code does not do what its comments or its texts say (section 6) |

**Bounds.** `service`: two calls for one VMID, with `DatabaseErrors`; the lock
is per VMID and the properties relate two calls for one, and that calls for
other VMIDs change nothing is proved (section 4). Crashes, cancels and deletes
are unbounded. `pipeline`: `MaxFaults = 2`, so the reply of one step and of the
step that repairs it can both be lost; the end of the context, a crash and
failing tasks are not counted as faults. `hub`: two clients, so that one leaves
while a message is sent to the other; three messages and channels of capacity
one, so that a client receives, falls behind and is dropped. `fanout`: three
subscribers, the fewest for which a compaction moves an element past a reader
that has not got there; two lines, `ChanCap = 1` and `MergedCap = 2`, so that
both buffers drop. `approvals`: two calls and two deciders; the properties
relate two deciders of one approval, and rights change without bound. `pool`:
three nodes and two connections, so that the eviction has a choice; three users
of a node are the three clients that displace one another; five clients are two
in the pool and three in use.

`console`: two of every object, so that there is another one to be confused
with; for a panel two numbered requests (`MaxSeq`), for a listing two that are
out (`MaxOut`), which is the fewest that can be answered in the wrong order.
Three sockets and two timers (a socket, one that is closing, one that is made
beside it); three attempts of the storages, as many as the code makes; three
conversations (one shown, one being loaded, one that a message makes). Two tabs
with two requests each share a rotation and lose a token to each other.
`screens`: two objects and two changes, two listings, three submits (one out,
one of another object, one after), two guests with three orders, a map of two
hosts of which one has every kind of child, palettes of a few rows in four
categories with ties of scores, three sockets of two sessions. Objects, changes
and rows that nothing distinguishes are symmetric; the properties of these runs
are safety properties.

**Fairness.** `MigrationService`: Go runs a goroutine that can run, so
everything that does not wait for Proxmox (`Bounded`) is weakly fair; a phase
may take as long as it wants while its context lives, `Expire` is fair because
`context.WithTimeout` is a timer, and a phase whose context is done is over soon
because every wait selects on `ctx.Done()`. `MigrationPipeline`: the goroutine
and the deadline are fair, the tasks on the nodes are not: a vzdump may hang for
ever. `WSHub`: goroutines are weakly fair; the two cases of `Run`'s select that
take a client are strongly fair, because a select with several ready cases
chooses at random and a waiting client is ready each time `Run` comes back to
it. Clients need not leave, nobody has to broadcast, and `Shutdown` need not be
called, but one that has begun goes on. The console has no fairness: a request
may never be answered, a user may go away. What must not be lost there is said
as an invariant about what is still on its way (`WaiterHasRefresh`,
`NeverStranded`).

**Deadlock.** Checked in `service`, `service_stuck`, `approvals`, `pool` and
`bulk_tag`. A finished pipeline, a hub after its shutdown and a fan-out whose
lines are used up stop, and a page stops when its bounds are used up, so their
runs do not check for deadlock; what must not wait there for ever is said by
`Terminates`, `NobodyHangs`, and the two invariants above.

## 4. Proofs

TLAPS proves each of these for every value of the constants.

`MigrationServiceProofs` proves, for any sets of calls and VMIDs and with or
without database errors, `TypeCorrect`, `MutualExclusion`, `MapsAreKept` and
`RowsNeverGoBack` (the refinement of `MigrationLifecycle`).
Assumptions: `Free` is no owner, a migration's id is its call.

`NoParallelMigration` is not inductive: two goroutines on one VM would be
reachable from a state in which a goroutine runs without its lock. `IInv` adds
that a busy call or goroutine holds the lock under its own id (`LockInv`), that
an entry has a busy owner (`LockHasOwner`), what each stage knows about row and
status (`RowInv`: a row is never ahead of its goroutine and not terminal before
the goroutine has chosen the outcome), what a pending delete or sweep knows
(`RequestInv`), and that nothing runs while the sweep does (`QuietInv`). TLC
checked `IInv` on an instance with two VMIDs.

Three more theorems are about what the runs show by example or under fairness.
`NonTerminalRowHasWorker` fails (`service_stuck`); `RowsAreLeftInTwoWays` says
that, as long as the database answers, it fails only for a migration that was
cancelled before its goroutine had loaded the row and for one that wrote its
last status with a context that was over. `StrandInv` says which stage has
written what, and that a sweep knows every row that is not terminal, from which
`RestartFinishesRows` follows: the server does not serve before all rows are
terminal. `WorkComesToAnEnd` gives the measure behind `LockReleased`: a call and
its goroutine have at most 16 steps, each lowers what is left (`WorkAt`), nobody
else raises it, and it is above zero exactly as long as they are busy, which
whoever holds the lock is (`LockHasOwner`).

`WSHubProofs` proves, for any number of clients and messages and any capacities
above zero, `TypeCorrect`, `OpenUntilShutdown`, `NoGaps` and `IsAStream`, the
refinement of `MessageStream`. Whether a client's messages have gaps depends on
which of them the loop over the map has visited:
`StreamInv` gives, for every client in the map, the last message it has, by
whether it is still in `todo`; `QueueInv` says that the broadcast queue holds
the consecutive numbers from `current` to `sent`, `FreshInv` that a client that
has not registered is in no map, has received nothing and has an open channel,
`SendingInv` that `todo` is empty outside the loop, and `SenderInv` that a
caller past its check still has a number within `MaxMessages`.
`OpenWhileServing` needs that before `stopped` only `Run` closes channels, and
that it takes the client out of the map in the same step. For the refinement
every step is mapped to one of the stream or to none (`StepIsStream`); it needs
`FreshInv` for a registration, which is a `Join` only of somebody who was passed
nothing, and `SendingInv` for the next message, which may come only when nobody
is behind. `NoGaps` says of a single client what follows for it (`GapFree`).

`AgentApprovalsProofs` proves, for any calls and deciders, `TypeCorrect`,
`NoDoubleRun`, `ApprovalGate`, `RightsAreChecked` and `DecisionsStand`. The
induction rests on two invariants: `CallInv` says for every stage of a call what
its row, verdict and number of runs are; `DeciderInv` says that a decider who
got its UPDATE through has left a verdict on the row, and that the tool of an
approval has not run until its decider executes it. Beside them, that a row has
one decision is inductive, so that no second decider is left that could run it
again.

`SSHPoolProofs` proves, for any nodes, users and `MaxConnections`,
`TypeCorrect`, `NoClosedClient`, `Bounded`, `NoLeakWhileCalm` and `CutOff`. None
of them is inductive alone: a client in the entries of two nodes would be
evicted from one and stay, closed, in the other. `HomeInv` says that whoever
refers to a client, an entry or a user, does so for one and the same node.
`PutEffect` states once what inserting does, with or without an eviction: at
most the oldest entry of a full pool goes. The bound of the pool is proved only.

`MigrationPipelineProofs` proves, for any number of faults and any job,
`TypeCorrect`, `ConfigSurvives`, `CompletedMeansDone`, `FailureIsClean`,
`FailureIsReported` and `RestoreIsSafe`; all but the first rest on one inductive
invariant (`Invariant`). Each property speaks of the end of a run and needs what
is known on the way there: `StageInv`, which steps a mode passes and from where
on the goroutine knows that the source VM is down; `RestoreInv`, that there is
one restore and that only its success leads to a completed row; `ArchiveInv`,
that nothing writes the archive after its sums are compared; `PowerInv`, that a
VM that went down stays down; `ConfInv`, where the configuration may be set
aside, which is only for a migration that keeps the VMID; `ToldInv`, that what
the operator must hear is remembered until the row is written. `CalmInv` and
`MediaInv` say what holds as long as there was neither fault nor cancel, for the
migration that fails cleanly.

`NoSplitBrain` fails (`pipeline_split`); `SplitBrainNeedsMishap` says that it
takes a cancel, a timeout or a lost reply: in calm, a goroutine whose restore
has started waits until the restore is over and goes back only if it failed
(`SplitInv`). `EveryStepIsProgress` gives the measure behind `Terminates`: each
step of the goroutine lowers `StepsLeft`, which is 24 at the beginning, in every
phase and through every failure and rollback, so that only a wait could keep a
migration from its end.

`LogFanoutProofs` proves, for any browsers, lines and capacities, `TypeCorrect`,
`FanoutExact` and `LinesInOrder`. In the middle of a compaction the array holds
no slice at all: `SliceInv` speaks of what it will hold when the moves that are
left are made (`Becomes`), in whatever order they are made. `QuietInv` says that
the header copied by a fan-out stays good as long as nobody leaves, though
others are appended to the same array, and `CountInv` counts what is delivered
and dropped among the subscribers that the fan-out is through with. `OrderInv`
chains the lines in the channel, in the merged channel and on the screen.

`ConsoleProofs` goes through the pages of `MCConsole`.

- Session, for any tabs, requests and token pairs: `TokensAreTheUsers`,
  `NobodyWaitsInVain`, `SessionsEndForAReason`. `WaiterInv` is inductive with
  the types. For the tokens, what is out of a tab as long as no logout has met
  an answer is a refresh of the very token it has, fetchUser for the user it
  shows, and at most one login; `BoundInv` and `IssuedInv`, that nobody holds a
  token before it is issued, keep a new pair apart from the old ones. For the
  session, `ReasonInv` says that without a mishap there has been one tab and
  that its refresh token is good, or the one it is exchanged for.
- Network page, for any nodes and panels: `PanelsShowLatest`, that the page
  implements `LatestView`. `FlightInv` says that no request is ahead of its
  panel's counter and that one with the counter's number is for the object of
  the latest request; without it an answer with the right number could be of
  another node.
- Files, for any guests, paths and keystrokes: `NoForeignText`. As long as the
  editor is not `mixed`, every file has a text of its own (`RemoteKept`), a read
  is for the open path (`ReadKept`), then the store and the tab have that file's
  text (`EditorKept`), and a save is of the open file (`SaveKept`).
- Live socket, for any sockets, timers and renders: `OnlyOneSocket`,
  `WillConnect`. `OnlyRef` holds always, `OneAlive`, `TimerInv` and `ClosureInv`
  until a socket is made beside a closing one; `GoingInv` says that the flag
  that blocks `connect` is set only while an event is to come that clears it.
- Migration list, for any migrations, listings and messages: `BoardIsServer`.
  A row of the list is what the last of the messages on their way, of the
  answers and of the listing says or will say (`TakenIsKnown`, `CommandInv`,
  `FreshInv`); the induction over the queue of messages is over a message taken
  from its head or put at its end, and `Told` states what the queue will leave.
  `ListsAgree` keeps the two lists of the store together.
- `ScreensAreTrue` joins the panels, the listing of a directory, the migration
  dialog, the chat and the recovery wizard: each has an invariant that says of
  whom the requests are that are still taken (`ListsThePath`, `LoadIsOfTarget`,
  `SentFromHere`, `ListIsOfHost`), and `MCConsole` runs one of them at a time.
  `PagesKeepTheirPromises` carries the other pages' theorems over to the
  console.

`ScreensProofs` goes through those of `MCScreens`.

- Lists, for every record of `ScreenTable`, any subjects, changes and listings:
  `RowsOfItsSubject`, `RowsKeepUp`, and the action property in `ChangesItsRows`.
  `SoundScreen` is what the sixty-seven records have in common, proved of each;
  `RowsInv` uses nothing else of them. Whether the list is current depends on
  which changes each listing has seen: `RowsAreCurrent` says it of the list,
  `RowsAreMade` and `ChangesAreOf` of what is still out.
- Forms, for every form: `SubmitsAreMeant` and `NoEditIsLost`, from `CarriesAll`
  (a submit that is out has all that was entered, unless something was entered
  since) and `EnteredForIt`.
- `OrdersAreWanted`: the list of guests (`VMListInv`: an order is for guests
  that were picked, and its spinner is that of the last one), the assistant for
  migrations (`EnteredInOrder`: what a step asks for is there before the next
  one), the assistant of a guest, and the orders for rows, for every table
  (`SoundTable`; a confirmation was opened after the last answer that could
  close it, `ConfirmationIsFresh`).
- `ViewsSayWhatIs`: the gauges, for any finite set of hosts (`GaugesInv`: of a
  host that is online without gauges, a request is out or was missed; none is
  counted as pending exactly when all that are online have gauges,
  `PendingStatusMeaning`, a fact about cardinalities); the conversation with the
  assistant; the terminals of a guest (`SocketKept`: no socket is in use but
  that of the ref; `TabsKept`: the tabs have different numbers, all below the
  next one, which is why closing one by its number takes away one tab;
  `AnswerKept`); the live tail (`TailInv`: a socket was opened for what the
  effect wanted when it ran last).

- `MapAndSearchesShowAll`: the map, for any hosts and things, and the searches,
  for any items and terms. `ArrangeEffect` is the fact under all of them: for a
  strict order of finitely many places, the number of places ahead numbers them
  without gaps (an injection between sets of one size), so that `Arrange` has
  each row once and in that order. From it follow what a filter keeps
  (`KeptRows`), a sort orders (`RankedRows`), grouping leaves ordered within a
  group (`GroupedRows`) and lists one after the other hold (`JoinedLists`).
  `PaletteInv` and `SearchInv` keep the recent entries distinct and the marked
  row on screen unless the rows changed under it; Enter then opens the best row
  because the first row of a sorted and grouped list is the best of all.
  `MapInv` (`GraphOK`: distinct things, each with its host in the graph) is kept
  by every load, and `Drawn` is what each view makes of such a graph.

Three definitions are written so that they can be reasoned about, because the
provers have no definition of `SelectSeq` and none of the values of a recursive
operator: `Running` of the migration list is a recursive function,
`CloseSession` takes the tab away by its place, and `Arrange` counts. TLC shows for
`CloseSession` that this is the filter's result (`TabsAreTrue`).

Only model-checked: liveness (`LockReleased`, `Terminates`, `NobodyHangs`,
`HubForgets`), because TLAPS handles neither `ENABLED` nor fairness. Of the
first two the measures are proved, and what is left to TLC is that a step which
is enabled is taken; the other two depend on the choices of `Run`'s select, so
that no measure falls with every step. Every safety property of a passing run is
a theorem. What a property that the code violates leaves true is proved for two
of the four (`RowsAreLeftInTwoWays`, `SplitBrainNeedsMishap`), and for a third
`OpenUntilShutdown` says that the hub's panic needs a shutdown.

## 5. Mutants

Each property of a passing run has a mutant, defined next to the definition it
changes (`Reserve_WithoutLockCheck` beside `Reserve`): a plausible slip in that
code under which TLC finds the property violated. A property that joins several
has one mutant, of one of its parts.

## 6. Where the code and its comments, texts or docs disagree

Four have a run with `expect: violation` (`findings` in `PROJECT.json` quotes
the lines): a cancel in the last phase leaves a row that nobody finishes
(`service_stuck`); a restore whose reply was lost goes on while the source VM is
started again (`pipeline_split`); an unregister during the hub's shutdown closes
a channel that `Run` may be sending on (`hub_panic`); the first click on "Tag
entfernen" assigns the tag (`bulk_tag`).

Others were met while modelling; they are in the models as the code has them,
where the modelled state shows them, and have no run of their own.

Backend:

- `migration_service.go:673`: a stop-mode migration treats a VM that was off as
  stopped by itself, and a failure starts it (`:1791`).
- `migration_service.go:1068`: a configuration set aside under the source's VMID
  stays when the migration took another VMID.
- `logstream/manager.go:293-295`: a subscriber's channel may be closed between
  the copy of the slice and the send. `LogFanout` has the panic as a state;
  `FanoutIsExact` requires that it needs this race.

Migrations in the console:

- `migrations/page.tsx`: picking another source keeps target and storage, so
  that the target may be the source (refused at `migration_service.go:122`); the
  storages are the source's, while `migrate-vm-dialog.tsx` loads the target's.
- `migration-store.ts:108`: a cancel's answer shows "cancelled" while the
  goroutine may still complete.

Cockpit and logs:

- `nodes/[id]/logs/page.tsx:76` makes a new array in every render, so that
  `use-log-stream.ts` closes the socket after each `onopen`: "enabled gates the
  connection" (page.tsx:74-75), but the tail never stays connected. The entries
  of the log store are not told apart by node.
- `ai-tab.tsx` looks for the tool calls of an answer ("Inline tool call
  results") by the message's id, but each names the message of its step
  (`agent_service.go:382`), which the answer does not contain: none is shown.
  The chat shows them at the end of the conversation.
- The output of a command that the assistant ran is a code block of a message,
  so its lines are offered as commands again.
- `shell-tab.tsx`: up to four tabs share one socket; what the shell prints goes
  to whichever tab is shown.

Lists, forms, tables:

- The answer of an order closes a confirmation that was opened meanwhile for
  another row: `backup-list.tsx` (only on success: the store rethrows an error,
  which nobody catches), `reflex-list.tsx`, `baseline-manager.tsx`, and the
  delete dialogs of users and nodes, which are closed even when they were opened
  again.
- `alerts/page.tsx`: `actionId` is one id for all rows, any answer frees it.
- Agent settings: the answer of a save overwrites edits that were made
  meanwhile.
- `vm-list.tsx`: the success of a bulk order clears ticks made meanwhile; guests
  that vanished or are hidden stay ticked; one spinner serves all rows.
- The detail dialog of the drift page shows a copy that goes stale; the page
  says that all nodes match the baseline when no check has been completed.
- `scan-timeline.tsx`: a diff that is answered late is shown under other scans.
- The matrix of ISOs counts nodes that are offline as synchronised.

Nodes and views:

- `node-store.ts`: a failed listing of guests is stored as `[]`, so that
  `nodes/[id]/vms/[vmid]/page.tsx`, which says that "a missing VM is genuinely
  not found", calls it missing; the answer of a listing of guests clears the
  error of the node's status.
- The badge of the dashboard says "Cluster operativ" before any status was
  loaded, although `dashboard-summary.ts:120-122` says that metrics are loaded
  before the situation is rated calm; an average of memory hides one full node.
- The monitoring page averages the last status of nodes that have left or are
  offline, and says "Aktualisiert" when every status failed.
- `topology-map.tsx`: "Auto-expand all hosts on first load", but each load
  expands them; a tag filter hides all guests; bridges are not drawn in the
  detailed view. `topology/page.tsx` sorts the store's array while it renders.
- `search-command.tsx:465`: "Reset active index when results change", but the
  effect depends on the query alone; rows are grouped by category, so that an
  exact match may come after a weak one. On the page of the search, Enter before
  the debounce opens a row that is not on screen, and a mark past the end of a
  list that has shrunk makes it do nothing.
- `chat-store.ts`: a selection that fails drops the tool calls of the
  conversation that stays, an answer replaces those of earlier messages; typed
  text is lost when a message cannot be sent.

## 7. Plan

Done: migration service and pipeline, WebSocket hub, log fan-out, agent
approvals, SSH pool; of the console the session, every page that keeps state
over requests, and the lists, forms and tables.

1. Composition: two pipelines on one target, which `activeVMs` does not exclude;
   a pipeline as the phases of `MigrationService` (refinement); the hub as the
   socket of `LiveSocket`.
2. `NetScan` (concurrent quick, full and triggered scans of a node and the diff
   against the last one); the log workers and the log consumer (rotation,
   acknowledgement after a crash).
3. Alerts and escalation, reflex rules, the rest of authentication (both back
   ends), key rotation, scheduled actions and snapshot policies, backups.

## 8. Not modelled

These dangers are known and no property covers them: two migrations of
different VMs to one new VMID (`migration_service.go:60`, composition 1); the
power state of a VM that was off (`:1791`: the pipeline's source VM runs at the
beginning) and the configuration left behind (`:1068`), which no property of the
pipeline forbids; a client that connects during the hub's shutdown
(`ws_hub.go:162`); a compaction that skips or repeats a subscriber within one
fan-out (`manager.go:293`), which `FanoutIsExact` allows while the slice
changes; workers that are replaced under the lock (`manager.go:183`); a browser
that is gone and is written nothing (`log_stream_handler.go:178`); a crash
between a decision and its tool (`approval_handler.go:74`), after which the tool
simply does not run; the time that the pool's lock is held (`ssh/pool.go:60`).

The parts of the backend without a module are listed in `components` with what
they would need; the repositories' SQL is modelled where a modelled service uses
it, and parsing, formatting and statistics are not. LLM and notification
providers and the Proxmox API are external: what the code may see of them is
nondeterministic.

Of the console, what only draws rows that others load is not modelled: charts,
tables without orders, texts and layout, the wording of search results, sorting,
themes. A page is JSX for the most part, and a definition of a page's operation
stands for its handlers and for the elements that call them; the lines that lay
a page out are in no definition. `LogFilterToolbar`, `LogAIPanel`,
`LogExportDialog` and `LogKpiBar` are used by no page (the export's form is a
record all the same).
