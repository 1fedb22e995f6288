# Muxy in TLA+

A verification project for Muxy, a terminal multiplexer written in Rust: a server that owns
terminal sessions, and desktop, terminal and phone apps that show them. The modules model the
parts of the server, of the client library and of the apps where threads, queues, failures and
crashes meet. TLC checks them on small instances, and the TLA+ proof system proves the most
important invariants for every size.

`PROJECT.json` holds the exact correspondence: the source lines of each definition (`map`), the
runs, a mutant per property (a plausible bug that the property catches), the hazards and the
theorems. This file is the overview.

Paths below are relative to the repository; `server/` stands for `crates/muxy-server/src/`.

## 1. The system

```
program -> session thread -> outbox of each connection -> writer thread -> app's grid
              |    ^                    ^                                      |
              |    +---- commands ------+--- worker thread <--- reader <-------+
              v
           archive queue -> save worker -> files        registry + catalog -> catalog file
```

| Component | State it keeps | Operations | Talks to | What is hard | What makes it correct |
| --- | --- | --- | --- | --- | --- |
| Session thread (`server/session/owner.rs`) | emulator, attachments with sequence numbers, hashes of the rows last taken, pending flags, next wake | input, resize, attach, detach, clear, end, stop, tick, checkpoint | outboxes through sinks, archive, registry | one thread serves everything and sleeps between; changed rows are taken once for all apps | every app can rebuild the screen; nothing is left over when it sleeps |
| Outbox and writer (`server/connection/{outbox,merge,writer}.rs`) | control queue, a waiting frame and a credit per channel | push, merge, acknowledge, write | session thread, app | merging under back pressure, overtaking of frames by control messages | one frame in flight, no row lost, credit never lost |
| Connection (`server/connection/{peer,reader,sink}.rs`) | attachments, requests that wait for a frame, references | attach, resize, detach, close, session ended | worker pool, session threads, registry | a request is answered from another thread, or by the destructor of a dropped command | exactly one reply, agreement on who is attached |
| Worker pool (`crates/muxy-core/src/worker.rs`) | queue, thread and idle counters | accept, refuse, start, time out, unwind, close | every connection, Git, files | lost wake-ups, panics, failing thread starts | accepted jobs run, in order with one thread |
| Archive (`server/archive.rs`, `crates/muxy-core/src/fs.rs`) | a job per session, one worker | save, discard, read | session threads, registry | coalescing of jobs, waiting for answers, crashes and power loss | the last content survives, discarded content stays gone |
| Registry (`server/registry.rs`) | listed and starting sessions, stopping, the operations lock | create, cancel, end, discard, close, move, prune, shut down | catalog, archive, session threads | operations of several steps that race with exits and the shutdown | one session per creation, no orphan shell, removals finish |
| Catalog (`server/catalog/`) | projects, sessions, operation records, intents, pending ends | atomic updates of one file | registry, notifier | updates that are published but not durable, repetitions after a crash | what was answered is not undone |
| References (`server/references.rs`, `connection/peer.rs`, `registry.rs`) | open sessions per owner with revisions, sessions a connection created or attached | set, transfer, forget | close, connection | reconnections and stale revisions | a close ends a session only if no one has it open |
| App model (`crates/muxy-app/src/model.rs`, `crates/muxy-app-core/src/`) | panes, pending starts, cancellations and closes, saved in a file | open, attach, close, detach, reconnect, restore | server through the client library | saves that fail, kills and lost connections between a change and its request | no terminal runs that nobody remembers |
| Activity (`server/activity.rs`) | agents, unread events | update, claim, mark read | session threads, apps | competing agents and readers | at most one unread event per session |
| Commands (`server/exec.rs`, `crates/muxy-core/src/process.rs`, `crates/muxy-app/src/model/extensions/`) | promises, waiting calls, the app's jobs, the server's jobs and cancellations, process groups | run, cancel, stop, time out, answer | pages, connections, processes | cancellation before the command, pages and connections that end meanwhile, processes left behind | a command and its promise end together, and an answer is true |
| Uploads (`server/uploads.rs`) | partial files | append, keep | connections | repeated chunks | files are whole |
| Remote access (`server/remote/`, `remote_listener.rs`) | pairing code, devices, listener | configure, pair, authenticate, revoke | connections | codes used twice, saves that fail half way | a code pairs once, a revoked device stays out |
| Run loop (`server/run.rs`, `crates/muxy-core/src/file_lock.rs`) | socket, locks, threads | start, stop, restart | everything | the order of stopping | sessions end and connections drain |
| Client (`crates/muxy-client/src/`) | the table of pending requests, attachments, grids | request, time out, give up, route, expire, close, apply frames | server | late replies, reuse of identities, attaches given up while their reply is routed | each caller gets its own reply, every call returns |
| Phone library (`crates/muxy-mobile/src/`) | a grid per terminal that it resizes itself | attach, resize, detach | client | guesses until a redraw | a redraw always comes |
| Git, files, watching, detection, search | caches | commands and file operations | operating system | races with the file system | mostly outside a model's reach |
| The rest of `muxy-app`, `muxy-app-core`, `muxy-ui`, `muxy-cli` | views, layouts, settings | user interface | client | sequential data | covered by tests |

## 2. Modules

Each state machine has its constants and their assumption, one action per operation or step,
`Init`, `Next`, `Spec`, `FairSpec`, and its properties at the end. Definitions called mutants
stand before the definition they alter and are used by nothing else. `MC...` modules only add
model values and symmetry.

### ScreenStream, ScreenMirror, ScreenStreamRefinement, ScreenStreamProofs

One session's screen on its way to the apps. `screen`, `size`, `dirty`, `redraw_all`,
`row_hashes`, `output_pending`, `resize_pending`, `attachments` and `seq` are the session
thread's; `control`, `frames`, `credit` and `sent` the outboxes'; `wire` and `acks` the
connection; `view` and `grid` the app. `Feed`, `ClearScreen`, `ResizeAttachment`, `AttachFirst`,
`AttachAnother`, `OwnerDetach` and `Tick` are the arms of `Owner::serve`; each calls `Broadcast`
where the code calls `broadcast_frame`, and `PushFrames` and `Merge` are the outbox. `WriteFrame`
needs the credit, `Ack` gives it back. Apps come in two kinds: those in `Follows` (phones) resize
their grid to each frame and blank it themselves on a resize, the others (desktop) resize with
full redraws only.

`ScreenMirror` is the abstract promise: a session publishes whole screens, a viewer shows some of
them in order, and never a mixture. `ScreenStreamRefinement` states the mapping (a viewer's
`ahead` is what its grid would become after each message under way) and
`ImplementsMirror` is the abstract specification as a property.

Abstracted: a row is a cell value; cursor, modes, graphics, links and prompts are the flag
`aside`, which only forces a frame; the metadata lane is left out; a delay by synchronized output
is a tick that comes later. Commands of different channels are taken in any order, which allows
more than the code. Refused resizes of a phone are one step with the history variable `garbled`.

### Attachments, AttachmentsProofs

One connection, one session. `work` is the connection's queue on its one-thread worker pool, `queue`
the commands of the session's thread, `resizes` and `waiting` the requests that the connection still
has to answer, `control` its control messages. The actions are the steps between which other threads
can run: `FindSession` and `AttachFound` are the two halves of `attach`, `Fault`, `End`, `Drained`,
`Tell`, `DropReceiver` and `Exit` the way of a session's end through `Owner::run` and
`session_exit`, and `DropCommand` the destructor of a sink whose command is dropped unserved.
`Retire` fails what an attachment owes: `Owed` is that set of requests, and `ByChannel` the order
their errors are written in. Each Attach makes a new channel, so both have one name. The check that
a session is being released is left out, and a detach and its retirement are one step.

### SaveQueue, DurabilityProofs

The archive's queue. `Submit` replaces the session's job and `Wake` sends the wake-up, two steps
as in `Archive::submit`; `Receive`, `Take` and `Sleep` are the loop of `write_jobs`; `Rename`,
`Remove`, `Sync`, `Fail` and `Complete` are one job. `record` is what the file system shows,
`durable` what a power loss leaves at worst; `Kill` and `PowerLoss` may come at any step.

### WorkerPool, WorkerPoolProofs

`try_spawn`, the loop `work` and its unwinding, one action per region under the lock.
`NotifyOne` is the condition variable: it wakes one of the threads that wait, if any. A thread
that timed out and was not woken is `expired` until it has the lock again. The last handle's
`closed = true` and its `notify_all` are one step.

### SessionCatalog, SessionCatalogProofs

The registry and the catalog. `cat` is the catalog in memory, which equals the content its file
names, because `update` publishes exactly what was renamed into place; `older` is the set of
contents that a power loss may bring back as long as the folder was not synced. `call` is the
operation under the operations lock, in the steps of the code; `Exit`, `RecordExit` and `Unlist`
are the session's thread; `Die`, `PowerLoss`, `Open`, `Resume` and `Serve` the end and the start
of the server. `made`, `refused`, `kept`, `doomed`, `gone` and `started` are history: what apps
were answered.

Abstracted: one project; a session that ended with and without saved content is both `"ended"`;
what other apps have open is a free choice in `Close`; the seven days of retention may have
passed at any time; records of operations do not expire; an answer of the archive is taken as
durable (SaveQueue is about that); identities are drawn and never drawn again.

### PaneSessions, PaneSessionsProofs

Desktop apps and the server that decides when the close of a pane ends its session. `mem` and
`disk` are an app's panes and intents (`starting`, `cancels`, `closes`), `run` what a running app
keeps for its connection, `replies` and `events` what the client library holds for it, each in
order; `conns` are the server's connections with what each references, created, released and has
attached, and `q` the requests it has yet to serve. The actions are the handlers of the app, whole,
with the saves and requests they end with (`SyncReferences`, `DiscardPending`, `SyncVisible` are
the calls every handler makes), one request at a time on the server (`ServeCreate`, `ServeAttach`,
`ServeDiscard`, `ServeCancel`), and `Exit`, `Break`, `Kill` and `CloseOld`. After a lost connection
or a kill the old connection may live on at the server until `CloseOld`.

A handler that saves does in `Saving` one thing when the save works and another when it does not:
a user's close or detach is undone, and what was learned stays in memory while the closes are kept
back and only the cancellations and references are sent (`DiscardPending` with `saved` false).
Handlers that find nothing to save go on `Quietly`; `Connect` saves only when closes are kept, and
`Restore` saves twice, the catalog and then what it follows from it.

Abstracted: a session is named by the pane that starts it; all saves of one handler succeed or fail
together, except the two of `Restore`; a listing is one step; panes are all visible; the repeated
delivery of an end that was deferred is one delivery; the server's own writes succeed
(SessionCatalog is about those). A creation fails only because its token was cancelled, and the
server answers no close or cancellation with an error (the app then asks again at the next occasion,
`muxy-app/src/model/catalog.rs:333`, `:360`); a start that fails otherwise is left out too. An
attach to a session that is being released is refused only to connections that named an owner
(`connection/peer.rs:300`), which the desktop app does not: it sends plain references
(`boot.rs:1219`, `muxy-client/src/client.rs:293`). Moving sessions, restarting a terminal in place,
the quick terminal and owners with several connections are left out.

### ClientRequests, ClientRequestsProofs

The client library's table. A step is what a thread does under the table's lock, or one operation
on a channel, a response or the stream: `Register`, `Send`, `TakeReply`, `TimeOut`, `Forget` and
`GiveUp` are callers that wait; `RegisterAsync`, `Enqueue`, `Listen` and `DropRequest` asynchronous
calls, with `TakeQueued` and `WriteQueued` for their writer thread; `Read`, `Announce`,
`ResolveAttached`, `Deliver` and `Break` the reader; `Look`, `Wake` and `Expire` the thread that
watches deadlines. `NextId` searches the next free identity and wraps around at `Ids`. The app is
taken to keep its end of the event stream, and to take asynchronous results with `on_complete`.

### RemoteAccess, DurabilityProofs

Network access. `mem` and `file` are the settings and devices in memory and in the file, `safe` the
set of contents of which a power loss leaves one: a save that works leaves only the new one,
`WriteFails` may put the new file in place without its sync and adds it to the set. `ServerKilled`
and `PowerFails` both end in `Open`, the next server, which reads the file and syncs nothing, so a
kill leaves `file` and `safe` as they are; a kill in the middle of a save is a save that fails and
then a kill.
`Configure` and `Apply` are the two halves of changing the settings, the second with the listener;
`Revoke` and `CloseDevices` of a revocation, which saves (`Unpair`) only if memory still has the
device (otherwise `AlreadyUnpaired`); `AskForCode` and `StartPairing` of a request for a code.
`Accept`, `Pair`, `Authenticate`, `Register` and `Leave` are the way of a network connection through
`serve_remote`. A device is named by the connection that paired it. The certificate, names,
addresses, ports and the file's format are left out.

### Commands, CommandsProofs

The asynchronous commands of an extension's page on its project's server. `page` is the promise of
each command in `bridge.js`; `waiting`, `jobs`, `tasks` and `cancelled_jobs` are the app's; `wire`
holds the requests under way, in no order, because each has a task of its own; `thread`, `flag` and
`cancelled` are the server's `Jobs` and its threads; `alive` and `helpers` the leader of a command's
process group and the others in it. `Call`, `Deny` and `Exec` are the way to consent, `Exec` with
the outcomes of `extension_exec`; `Cancel`, `Prune`, `Leave` and `StopTasks` are the ways to give a
command up; `Lose`, `Renew`, `Connect` and `Close` the connection's ends. `Receive` is `register` or
`cancel`, `Launch` is `execute`, and `Check`, `TimeOut`, `Escalate` and `Finish` are the loop of
`Running::wait`. `asked`, `early` and `reached` are history.

A promise may stay pending for ever in one case, and `EndTogether` leaves it out: the connection is
renewed while the command runs. The call then belongs to an older generation of the server;
`call_live` is false when the future fails, and the error goes to the reply of `exec.start`, which
was answered already. No document says what such a page should see.

Abstracted: one extension and one project on another computer; job numbers name the commands, so
duplicates do not occur; output, its truncation and errors while reading it are left out; the app's
own limit of a request comes ten seconds after the server's and is left out; processes that leave
the group are out of reach of code and model.

## 3. Runs

| Run | Module, configuration | Bounds | Checks |
| --- | --- | --- | --- |
| `stream_two_apps` | MCScreenStream, ScreenStreamTwoApps | a desktop and a phone, 2 rows, 2 changes, 1 resize each under way; constraints: no resize is refused, the desktop stays | types, flow control, the opening order, no row missing for either and a phone's redraw under way |
| `stream_mirror` | MCScreenStream, ScreenStreamMirror | a phone, 2 rows, 3 changes, 2 resizes under way, fairness | refinement of ScreenMirror, convergence |
| `attachments` | MCAttachments, Attachments | 2 channels, a queue of 2, one channel with 2 resizes under way, fairness | one reply, both sides agree, the session's end is last, every request answered |
| `save_queue` | MCSaveQueue, SaveQueue | 2 sessions, 2 saves, 1 discard each, 1 crash, fairness | answers are about what is on disk, survival and removal, everyone is answered |
| `worker_pool` | MCWorkerPool, WorkerPoolJobs | 2 threads, 4 jobs, a queue of 2, fairness | no lost wake-up, order, every job ends |
| `session_catalog` | MCSessionCatalog, SessionCatalog | 2 identities, 1 creation, 1 close, 2 failures, 1 death, fairness | answers hold, removals are for good, no orphan shell, and the server catches up: starts finish removals, ends are shown, stopping completes |
| `pane_sessions` | MCPaneSessions, PaneSessionsSafety | 2 apps, one on another computer, a pane each, 1 lost connection or kill, 1 failed save, 1 close each | no running terminal is forgotten and its cleanup is under way, closing spares what others show |
| `pane_sessions_last_pane` | MCPaneSessions, PaneSessionsLastPane | 2 panes of the first app, no losses | violated: first finding |
| `pane_sessions_cancel` | MCPaneSessions, PaneSessionsCancel | 2 apps, a pane each, no losses | violated: second finding |
| `client_requests` | MCClientRequests, ClientRequests | one call of each kind, 2 identities, a channel of 1, fairness | own replies, terminals are handed over, every call returns |
| `commands` | MCCommands, Commands | 2 commands, 1 at a time, 1 cancellation remembered by each side, 2 connections, 1 loss or renewal, 1 page left or runtime stopped, fairness | answers are true, early cancellations hold, commands and promises end together |
| `remote_access` | MCRemoteAccess, RemoteAccess | 2 apps, 3 network connections, 2 codes, 3 changes, 1 paired at a time, 1 failed save, 2 kills or power losses, symmetry | revocation, pairing survives, off is off, a code works once |

Why these bounds are enough to mean something: two rows tell a row that is carried from one that is
not, and two apps show what one app's frame takes from another. Two resizes under way on a channel
can be matched wrongly; the second channel takes places of the worker's queue. Two sessions let the
archive's worker hold one job while the other's changes, and two saves let one replace the other.
Two threads let one job be woken for while another thread times out, and a queue of two overflows
with four jobs. In the catalog one failure leaves an unsynced file, a second makes the recovery
fail, and the second identity is the one a repeated creation would wrongly start; two creations
together are not checked. Two identities of requests wrap around at the third call while the first
two may be late, and a channel of one is full with one request. Three network connections on two
places show the limit of the unauthenticated, and three changes turn access on, revoke, and turn it
off or revoke once more. A kill after a failed sync and a power loss after that are two restarts;
one device is paired at a time here, any number in the proofs. Of two commands one is the later
whose cancellation makes the server forget the other's, and with a limit of one it is the one
refused; a second connection shows what the first leaves behind, and one command starts another
process.

Bounds that cut behaviours off, and what they leave out: in ClientRequests the identities do not
come round while an old one is still held by somebody who is between two steps (`ComesRound`; there
are 2^32 of them). In PaneSessions losses happen to one app, and an app has one pane in the
run of `CloseSparesShown`; the theorem is about any number of panes.

Deadlock is not checked: all these systems may stop, when programs end, apps leave, all bounded
changes are spent, or the server has exited.

Type invariants are stated once per module and checked with the module's first run.

### Fairness

- ScreenStream: the session thread takes its next command and tick (its wait has a deadline, and
  `next_wake` is computed from what is pending), the writer thread writes what it may, apps read
  and acknowledge. Output, attaching, resizing and leaving are not fair.
- Attachments: the worker, the session thread and the writer run. The end of a session is not
  fair, yet once it began it goes on.
- SaveQueue: the save worker and a submitter that is not waiting go on.
- WorkerPool: each thread that can step does; panics are a choice, starting threads may fail.
- SessionCatalog: the operation under way goes on (its waits time out), session threads record
  their end, a session that was told to end does (its program is killed after a grace period),
  and a pending end is written in the end: it is retried by its own thread, and by each listing
  and hourly removal when that thread could not start. No assumption is made of restarts, so
  the promises are conditional on the server being up.
- ClientRequests: the library's threads run, limits pass and the clock moves. The server need not
  answer, and nobody need call, close or drop anything.
- Commands: the threads of commands, the app's tasks (prompts expire) and the server's readers go
  on. A command need never end by itself, its own time limit is not counted on, and a page need
  not cancel; the user need not answer, reconnect or leave.
- PaneSessions and RemoteAccess assume no fairness and state no liveness; what must still happen
  is stated as an invariant instead: every close and cancellation that a connected app keeps has
  its request or reply on the way (`CleanupUnderWay`).

### Findings

`pane_sessions_last_pane`: `queue_discard` ignores a close of a session that has one under way. A
session kept by the server because another app showed it, whose pane is meanwhile opened and closed
again here and closed there, gets no second decision and runs on without a pane, although closing
the last pane is documented to end it.

`pane_sessions_cancel`: a pane closed while its terminal starts cancels the creation, and
`cancel_creation` ends the session that runs already without asking, as a close does, whether
another app has it open. An app that listed the session and attached it loses it.

Observed in SaveQueue, without a run of its own: `discard_record` removes the record and syncs its
folder, but answers success without a sync if the record is already gone. A discard whose removal
succeeded but whose sync failed, or which a kill cut off, is repeated and reported done, and a power
loss can still bring the record back. `DiscardedStaysGone`, a part of `DiskHoldsAnswers`, excludes
exactly these sessions (`lapsed`).

Observed in RemoteAccess, without a run of its own: `revoke` answers success without a save if
memory does not have the device (`remote/mod.rs:381`). A revocation is renamed into place and its
sync fails, or a kill cuts it off; the next server reads the new file and lacks the device; the
revocation is repeated and answered; a power loss undoes the rename, and the device is let in again.
It is the pattern of SaveQueue's lapsed discards. `RevokedStaysOut` excludes exactly these devices
(`unsaved`: answered without a save while a power loss could still bring the device back), until a
revocation of them is saved.

Observed in PaneSessions, without a run of its own: a close can end a session on the screen of an
app that has two panes and closed one of them. The app loses its connection while the terminal of a
pane is being created, and reconnects; the pane starts again under its token. Meanwhile the user
opens that terminal, now listed, in a second pane and closes this one. The close drops the reference
that the second pane announced, and the first pane's answer arrives: the app shows the session, but
the server counts it as released until the app's next references reach it, and a close in another
app ends it. TLC shows it with `Slots <- ThreePanes`, `MaxLosses = 1` and `MaxFailures = 0` once the
premise `Intact(mem[a])` is taken out of `CloseSparesShown`; with the premise the same instance, of
five million states, has no violation. That premise, that no pane of the app that shows the session
has gone, is all the property leaves out.

## 4. Proofs

`ScreenStreamProofs` proves, for any number of attachments, rows, cells, changes and resizes:

- `TypeCorrect`: `Spec => []TypeOK`.
- `FlowControlHolds` and `AttachedFirstHolds`. Neither is inductive: the invariant `FlowInv` adds
  `Life`, which says how far each channel is in its life (not opened, announced by a queued
  reply, open, closed), where its frames may be then, and that sequence number 0 belongs to the
  snapshot alone. The owner's steps only push frames to channels it serves (`OwnerStep`), so they
  are treated together; the server's and the app's steps are done one by one.
- `NothingIsMissing`: `NothingMissing`. It speaks of one app's grid, but no step keeps it by
  itself. `StreamInv` adds `Rows` (a row that no take is due for is as `row_hashes` has it, and a
  redraw is due exactly when a reset is), `Waiting` (at most one frame waits per app, as tall as
  the screen), `Course` (the messages under way bring a grid that is no guess to `row_hashes`,
  and from a redraw on they bring any grid there), `Guesses`, and `RedrawComes`.
- `MirrorImplemented`: the stream implements the safety part of `ScreenMirror`. `MirrorInit` maps
  the initial states; `OwnerMirrors`, `ServerMirrors` and `AppMirrors` map each step to a step of
  the mirror or a stutter, from `StreamInv` and `OpenViews`. `ScreenMirror!Converges` needs
  fairness and is checked by TLC.

`WorkerPoolProofs` proves, for any number of threads, jobs and any queue length:

- `TypeCorrect`, `CountersHold` (the counters of threads and of idle threads equal what they
  count), `NoWakeupIsLost` and `WorkIsNeverStranded`. The inductive invariant is
  `TypeOK /\ Balanced`: threads by stage are counted by the counters, and while a thread sleeps
  there are at least as many awake threads as queued jobs; the lemmas `Move`, `Recount` and
  `CountIsMonotone` say how a step of one thread changes the cardinalities. `Counted` and
  `NoJobStranded` are stated for the proofs only; the run checks what needs them.
- `JobsRunInOrder`: `RunsInOrder`, from the invariant `Orderly`: the queue holds the jobs accepted
  last, in order and each once (`Queued`), and a running job has one thread of its own (`Handed`).

`AttachmentsProofs` proves, for any channels, any number of resizes and any queue length:

- `TypeCorrect`, `RepliesOnce` (`ExactlyOneReply`), `SidesAgree` (`BothSidesAgree`) and `EndIsFinal`
  (`SessionEndIsFinal`). That a request waits in one place only is kept by each step because the
  places are ordered: the queues hold each element once (`Orderly`), what is in them was asked
  (`Asked`), what the worker has yet to run is newer than what the owner has (`Newer`), and a
  channel that was retired does not come back (`AttachedOnce`). `Answering` says of a step that it
  writes one reply to each request that stops being pending and to no other; `StepAnswers` shows it
  of the steps, and `AnsweringKeeps` that it is enough. For `SidesAgree`, the resizes of a channel
  are the same ones on both sides and in the order they were asked (`SameResizes`, `Orderly`), so
  the owner serves the one the connection has waited for longest (`ServesOldest`).

`SessionCatalogProofs` proves, for any sessions, creations and closes and any number of
failures and restarts, power losses among them:

- `TypeCorrect`, `AnswersAlwaysHold`, `RemovedForGood`, `ShellsAlwaysListed` and `StartsClean` (an
  action property). The answers are about one catalog, and a power loss may bring back an older
  one: `Durable` says of every catalog that may come back (`Contents`) that it is consistent and
  holds what was answered (`Good`). `Safe` says which sessions can have a shell, how far the
  operation under way came, and that what was removed is in none of these catalogs; `Shown` what
  the catalog shows of ends, and what a start found and has yet to remove.

`DurabilityProofs` proves what the server promises of its files other than the catalog. It extends
both SaveQueue and RemoteAccess, which share no name (SaveQueue's specification is `ArchiveSpec`)
and no state; each theorem is about one of them. Of SaveQueue, for any number of sessions, saves,
discards, kills and power losses:

- `SavesTypeCorrect`, `AnswersAreForTheLatest` and `TheDiskKeepsItsAnswers`. The last two speak of
  answers and of the disk, not of the jobs on their way; the invariant adds for every job, queued
  or in the worker's hand, whom it carries an answer for and how far it came on the disk, and that
  a session whose last save was answered, or which is gone, has no job left.

Of RemoteAccess, for any number of apps, connections, devices, codes, failures and restarts:

- `TypeCorrect`, `RevokedDevicesStayOut`, `PairedDevicesStayPaired`, `OffIsOff`, `CodesWorkOnce` (an
  action property). The inductive invariant has one part per promise beside the types: every stored
  state has room (`Few`), a change of the settings holds the lock until the listener follows
  (`Following`), a device that was told its credential is in memory and in all contents of the file
  that a restart may find until a revocation is asked for (`Told`), a revoked device that is not
  `unsaved` is in no content of the file that a restart may find and cannot come back (`Out`), the
  code on offer is the newest and has paired nobody (`Offering`).

`PaneSessionsProofs` proves, for any number of apps and panes, any losses, kills, failed saves and
closes:

- `TypeCorrect` and `NothingIsForgotten`. That a terminal which runs is in somebody's file says
  nothing of the requests that may still start one, of replies that make an app forget, or of what
  an old connection has in transit. The inductive invariant `IInv` adds them. `AppsFit`: every
  request, reply and event of an app is about a session its pane may have (`MessagesFit`), between
  the list of sessions and the catalog nothing is attached and the list has what the app shows, or
  it is over (`Listing`), and what the app takes for asked is on its way (`Awaiting`, `Clean`).
  `OldFits`: what a lost connection left starts no session but its own pane's. `OnDisk`: a session
  that runs, or that a request under way may start, is remembered in a file, unless it ended, was
  detached, was cancelled or was left to others (`Lasting`, `Started`). `InMemory`: an app forgets
  nothing that its file would bring back.

  Each handler of an app makes several calls in a row and saves in the middle, so the proof of a
  handler is one of the state it ends in: `HandledKeeps` and `SavingKeeps` say once what that state
  must be (`Sound`), for a save that works and one that fails, and the calls on the way either only
  ask for more (`Follows`) or keep what holds so far (`Going`). `ServerKeeps` says once what a
  request served, an exit or a noticed loss may put on the apps' way (`Moves`).

- `ClosesSpareWhatIsShown` (an action property). A close is
  decided by what the other connections use (`session_shared`), so the proof is that an app's
  connection uses what the app shows. A second invariant, `SeenInv`, says so of an app none of whose
  panes has gone (`Intact`): it has nothing to close or detach on its way, the references it
  announces only grow (`Rising`), so replacing them releases nothing, and a pane that is shown or is
  told that it is attached has its channel at the server (`OnView`, `OnWay`). `Viewing` carries this
  through the calls of a handler, `Tended` through a step of the server. It holds for any
  number of panes of each app. That the app has closed none of them is the property's own premise,
  without which it is false, as the findings say.

`ClientRequestsProofs` proves, for any number of calls and identities, any capacity and any limits:

- `TypeCorrect`, `RepliesAreOwn` and `TerminalsHandedOver` (an action property and an invariant).
  The heart of the inductive invariant is `Single`: everything that uses an identity (an entry of
  the table, the wire, the writer's queue, the reader between two steps, a call that has not
  returned) belongs to one call. `NextIdFree` shows that `next_id` ends on a free identity although
  it wraps around, and the bound `ComesRound` gives that nobody holds it. `Entered`, `Served`,
  `Answered`, `Mail` and `Terminals` then say where a call and its answer are between the steps.

`CommandsProofs` proves, for any number of commands and connections, any limits and any number of
losses and ends:

- `TypeCorrect`, `AnswersHold` and `CancellationsHold` (an action property). `Order` says how a
  command's request, thread and processes follow one another; `Over` that what is told as ended
  is over (`Done`, which nothing takes back: `DoneStays`); `Asked` that whatever tells a command to
  stop was asked for, or its call is no longer live, or its connection is closed; `Held` where the
  cancellation of each early-cancelled command waits (`Waits`), or that it is forgotten, for which
  `RememberForgets` counts the later ones.

Each inductive invariant was first checked by TLC as an invariant of the component's run.

The proofs rest on the named assumptions about the constants and on the library's theorems about
finite sets, and on nothing else. The assumptions are what the code's types say (queues have room
for one element, there is a thread, identities exist); `SessionCatalogAssumption` asks besides that
there is a session, a creation and a close to speak of.

Model-checked only: liveness and everything that needs fairness or `ENABLED` (`Converges`, the
promises that every request, save, job, call and command ends, and that the catalog catches up).
Properties of recursive definitions over all inputs are out of the prover's reach; no module here
has one.

## 5. Not modelled, and the plan

In the order of their importance:

1. Owners of several connections with revisions (`server/references.rs`), and the moves of sessions
   between projects, as extensions of PaneSessions and SessionCatalog.
2. Projects, record expiry and paging by revision as extensions of SessionCatalog.
3. `Activity` and `Uploads`: small state machines of their own; the synchronous `exec` and the
   consent queue of extensions.
4. The start lock, the socket and the drain of connections (`run.rs`, `file_lock.rs`).
5. The reservations of worktree operations (`server/git/operations.rs`), the metadata lane.

Left out for good, with the reason in `PROJECT.json`: user interfaces, rendering, encodings,
pattern matching of screen text, the output of Git, file system notifications, the emulator and
other third-party code, packaging. They make up most of the repository's lines, and none of them
keeps state that several actors change. Hazards that no property covers are listed there too, each
with a note.
