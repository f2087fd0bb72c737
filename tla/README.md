# Kybern: TLA+ models, checks and proofs

Kybern runs coding agents. A daemon (Rust, `crates/kybern-daemon`) keeps threads, starts the processes
of providers (Claude Code, Codex, OpenCode, ...), writes what happens to an event log and streams the
log to clients over a WebSocket. Daemons form a *machine network* and hand work to each other. The
clients (desktop, mobile, CLI) share a TypeScript library (`packages/kybern-client`).

This directory models the parts of it in which something can go wrong between two steps: locks that
are let go, answers that are lost, processes that die. Line numbers are those of the sources as they
are modelled here. `PROJECT.json` is the machine-readable side: every component, run, mutant, hazard
and theorem, and for every definition the lines it models.

    tlc -workers 2 -config Move.cfg MCMove.tla        # a run
    tlapm MoveThreadProofs.tla                        # a proof

1. Inventory
2. Modules, and how they correspond to the code
3. Runs, bounds and fairness
4. Proofs
5. What the code does not keep
6. What is not modelled, and the plan


## 1. Inventory

### The parts, their state and how they interact

    client.ts  <-- frames --  ws.rs  <-- recv --  bounded_broadcast.rs  <-- publish --  Orchestrator::emit
       |                                                                                    |
       +-- requests -->  rpc.rs  -->  orchestrator.rs  -->  provider session (driver)       v
       |                               |        ^                                       event log,
    transcripts, notes;                v        | peer calls                            threads,
    machines.ts: one client         outbox  --> another machine                         queue (SQLite)
    per machine

| Part | State | Operations | What makes it correct |
|---|---|---|---|
| Bounded broadcast (`bounded_broadcast.rs`) | ring, position, byte count, cursors; watch channel | send, subscribe, try_recv, recv, drop | both limits hold; no receiver misses an event silently or sleeps through one |
| Thread turn engine (`orchestrator.rs`) | the thread's status, its queue, the event log; sessions map, each session's turn, continuation and permit; release barriers | send, enqueue, queue worker, start_turn, pump, interrupt, archive, idle sweep, recovery | a message starts one turn; a turn ends once; one process per thread; nothing waits for ever |
| Event stream (`emit`, `ws.rs`, `client.ts`) | the log's head; subscriptions with their floors; the client's cursor and generation | append, publish, subscribe, replay, deliver, lag, reconnect | the client's cursor never passes an event it has not applied; every event arrives |
| Outbox (`network/outbox.rs`, store) | one durable row per item; the tasks in flight | enqueue, the worker's pass, delivery and its outcome, cancel, retry, restart | what is reported is true; a cancel wins; everything ends |
| Move (`orchestrator/move_thread.rs`) | on the source a lease on the thread, an outbox item and an attempt; on the target a slot and the thread | prepare, commit, get, abort, abandon, cancel, sweep | exactly one machine owns the thread, and has all of it |
| Phone transcripts (`mobile/src/state/runtime.ts`, `threadCache.ts`) | a copy per thread, its staleness and the cache's epoch; buffers of reads that are out; copies on disk | open, read, resume, follow, replay, lag, prefetch, evict, save, restore | a copy that counts as fresh misses nothing; none goes back; one on screen catches up |
| An open note on the phone (`mobile/src/state/noteSession.ts`, store `notes.rs`) | per opening a session: what it was read as, its draft, the revision it expects, the save that is out; drafts that survive leaving; the note's revisions | edit, autosave, flush, leave, keep mine, load theirs, a change elsewhere, reconnect | no revision of another device is replaced unseen; nothing typed is lost; a reported conflict is one |
| The machine set of a client (`kybern-client` `machines.ts`) | per machine a slot: status, connection, the attempt under way, timers; this device's token; blocked addresses; runs of `findRoute` and the clients they open | connect, retry, probe, fail over, mint or discard a token, pause, remove, reach, network change | one connection at most, none after a pause or removal; a machine that is away is always tried again; one that can be reached is reached |
| Approvals and daemon cards | requests of a session, their rows, AwaitingApproval | permission request, answer, deadline | an answer goes to the request it answers, once; a thread that waits has something to wait for |
| Steering, context refresh, rotation | which provider session stands behind a thread | steer, compact, rotate | a steered message is seen once |
| Accounts, retained sessions | accounts; sessions kept aside | switch, sign in | background work survives a switch, or is ended |
| Tasks, claims of notes | work items with revisions and receipts | create, claim, send, report | a claim has one holder; a report goes to the run it is about |
| Delegation, messaging | parents, children, wake-ups | delegate, wait, report | a parent wakes exactly when its children are done |
| Remote delegation | table of remote children | poll, settle | a child is reported once, also after a lost answer |
| Fork, provisioning | jobs of a target | bundle, clone | a failed job leaves nothing half made |
| Network membership (`network/ops.rs`) | a signed set of operations | join, leave, rename, merge | every machine projects the same members |
| Peer sessions, relay | sessions between daemons | hello, call | (taken as a link that loses calls) |
| Shared state of the network | registers, loans of a sign-in | write, merge, lend | last writer wins everywhere; a loan has one borrower |
| Machine utilities | transfers, ports, clipboard | push, forward | streams with little state |
| RPC and access control | none of its own | dispatch | (its handlers are the other parts') |
| Store: projections | folds of the event log | fold, page | data, not control |
| Terminals | scrollback | output, attach | bounded like the broadcast |
| Maintenance, updates, usage, settings | timers, one value each | sweep, update | (the sweep is in the turn engine) |
| Import, skills, visuals; git; drivers; protocol; CLI; the rest of the TypeScript client and the apps | see the notes in PROJECT.json | | |

### What is hard

* **Locks that end at an await.** `send_with_id`, the pump, a forced stop, archive and the idle sweep
  take the `commands` lock or a session's turn lock for parts of what they do, and act afterwards on
  what they read. start_turn brings a session up over three awaits.
* **Copies written back.** Tasks hold a `Thread` from before an await; `write_thread_update` guards one
  field of it (archived).
* **Several owners of one ending.** A turn may be ended by its pump, the provider's exit, a forced stop,
  start_turn's failure and recovery.
* **Append and publish are two steps**, and so are subscribe and replay.
* **The other machine.** A call that was not answered may have been done. The outbox and the move decide
  from that what they may tell the user and who owns the work.
* **Answers that come late on the phone.** A read is out while events, a lost connection or a second read
  change what it is about; a save is out while its note is left, opened again or taken back.
* **Attempts that overlap.** A client looks for a machine's route in several runs at once: the attempt, ones
  it superseded, a probe. Each crosses a dozen awaits and then acts on a slot, a token and timers that
  others have changed.
* **Restarts** between any two writes.
* **Limits.** Ring, byte budget, gap limit, time limits of attempts, leases and slots.

`PROJECT.json` lists 40 hazards with their lines and the properties that cover them. Seen as well, and
left to later models: the deadlines of approvals (`orchestrator.rs:3221`, `3063`), an answer a provider
takes and the daemon then fails to write down (`3012`), a card opened after its turn settled (`3205`), a
switch of account that marks a session before it closes it (`accounts.rs:216`), the renewal of a lease
without the lock the other writers of it take (`move_thread.rs:725`), the receipts of
enqueue and the queue's order (`2325`, `2508`), the order of network operations (`network/ops.rs:332`,
`397`), pending sends of the client (`pendingSends.ts:72`), the results of a Claude session that
arrive before its turn is known (`claude.rs:1663`), the status and the event of a resumed turn as two
writes (`orchestrator.rs:4462-4477`), and outbox items overtaken by younger ones (`kybern-store/src/outbox.rs:192`).


## 2. Modules, and how they correspond to the code

| Module | Models | Proofs |
|---|---|---|
| `BoundedBroadcast` | the ring: every operation of it is under one mutex and is one step | |
| `BroadcastRecv` | the ring with the recv loop and the watch channel that wakes it | `BroadcastProofs` |
| `EventStream` | emit, socket and client around the same ring | `EventStreamProofs` |
| `ThreadTurns` | the turn engine of one thread | `ThreadTurnsProofs` |
| `TurnHistory` | what a thread promises its users; `ThreadTurns` implements it | in `ThreadTurnsProofs` |
| `Outbox` | the outbox of one daemon and one target | `OutboxProofs` |
| `MoveThread` | one move of one thread between two machines | `MoveThreadProofs` |
| `Handover` | what a move promises, whatever brings it about; `MoveThread` implements it | in `MoveThreadProofs` |
| `PhoneThreads` | the transcripts a phone keeps of threads of two machines | `PhoneThreadsProofs` |
| `PhoneNotes` | one note on a phone, opened more than once, and the daemon's revisions of it | `PhoneNotesProofs` |
| `MachineSlot` | one machine of a client: its connection, the attempts at one, its token | `MachineSlotProofs` |
| `MCBroadcast`, `MCTurns`, `MCStream`, `MCOutbox`, `MCMove`, `MCPhone`, `MCNotes`, `MCMachine` | constants, budgets and symmetry for TLC | |

`EventStream` EXTENDS `BoundedBroadcast`: a connection is a receiver, and the socket's lag is the ring's.
`PhoneThreads` takes from `EventStream` what one connection guarantees (in order, no gap, with one
emitter) and models what the phone makes of it across connections.

**Budgets.** What users, networks and crashes may do is bounded by a record `left`, which a behaviour
starts with and which its actions use up: so many restarts, lost calls, requests, and a set `may` (or
`mishaps`) of named events. `Budgets` is the set of records to start from, so one run checks several
mixtures, each with its own history, and a property that does not hold under a mishap names it. The
proofs have any set of budgets.

**BoundedBroadcast / BroadcastRecv.** `values`, `next`, `bytes` and `receivers` are the fields of the
code's `State`; an entry is its position and its event; an event is told apart by its size only. An event above the
byte limit takes a position and is not kept. `recv` is a loop: `PollValue`, `PollLagged`, `PollEmpty`
(the receiver then sleeps on the watch channel) and `Wake`; a send may fall between the last two.
`sent` and `account` are history.

**ThreadTurns.** A turn is named by the message that starts it. `status`, `pending`, `row` are the stored
thread and its queue; `log` is what the event log says of each turn (`none`, `open`, `closed`, `again`
for a second end, `twice` for a second start). A section under the `commands` lock or a session's turn
lock is one action, an await outside a lock separates two. The sessions map's lock is explicit, because
the sweep awaits while it holds it; a pump that has put up the barrier is the one that takes it down (`bars`).
`Send` and `Drain` share `Begin`, as `send_with_id` and the queue
worker do; `QueueWork` is the worker's one loop. `Start*` are the steps of `start_turn`: reuse or wait for the barrier and spawn, check,
install, deliver, or clear after a failure. `Pump*` is `pump`: output (with the permit `turn_ready` and
resumed turns), taking a result, the two writes that settle it, and the exit of the provider. `Stop*` is
`interrupt` with its grace and `force_interrupt`; `Archive*`, `Sweep*` and `Restart` the rest.
`Mishaps` names what may hit a session while a turn is being started on it: `exit` (the provider exits),
`refusal` (it refuses the message), `early_result`, `forced_stop` (the grace of a stop is over); outside
of that window a provider may exit in every run. `close_fails` is `force_interrupt` leaving with `?`
before it has closed the session and settled the turn (`StopCloseFails`): `live.session.close()` returns
an error in one driver, and the restoring of the runtime's tasks before it can fail in the store.
`Restart` is the death of the daemon with `recover_after_restart`. It finds what was stored last (`Stores`):
all of the last step, or, under `torn`, the event of an end without its status (settlements write them in
that order, `4937-4944`, and so does recovery, `1335-1357`), or the status of a start without its event (a send
writes them the other way round, `2275-2277`). `given` is history: the messages a provider ever got.

**TurnHistory** knows of a thread only what a user is told: which messages wait, what became of each turn, and
whether the thread is archived. A turn starts when none is under way (`Start`), ends (`Finish`), may be taken up
again by its provider (`Resume`), and is told to have ended once more (`Repeat`) only where a mishap hit it or in an
archived thread; after that turns may overlap. A crash may tell the end of two turns at once (`Crash`). The refinement maps `waiting` to the queue, `log` to the log
and `steady` to a budget without mishaps but resumed turns.

**EventStream.** An event is its seq. `AppendEvent` and `Publish` are the two halves of `emit`. On the
socket, `HandleSubscribe` registers the subscription with its floor and fixes the head,
`Respond`/`Replay`/`Ready` are the rest of `establish_subscription`, `Receive*`/`DeliverLive` the live
path with the event that waits for the delivery lock in `hand`. A gap above `GapLimit` is answered by a
snapshot, and a replay can fail half way. A socket that already serves its limit of requests refuses the
next one (`RefuseSubscribe`, `RefuseUnsubscribe`): the client drops the connection when the subscription it
wants is refused, and ignores the refusal of an unsubscribe. The client's `Client*` actions are its handlers;
`generation` decides whether an answer is still wanted, and an answer to a request that was given up is not
heard (`ClientGaveUp`). `seen`, `base` and `stranded` (what nobody cancels any more) are history.

**Outbox.** `state`, `row`, `due` and `overdue` are the table; `worker` is the pass, which reads a list
and visits its rows one by one; `delivery` is `in_flight`, one task per kind; `request` is a cancel or a
retry between its read and its write. The target takes an operation once and answers a repeated one
with its first result (external; the receipts on the other daemon).

**MoveThread.** On the source: `lease` is `Thread.moved` (held, uncertain, departed), `item` the outbox
item, `task` the attempt or abandon that holds `moving`, `answer` what became of its call. On the target:
`slot`, `opening` (a commit being worked on, until its note is out), `there` and `told`. A prepare looks at
the slot, waits, and writes it without looking again (`PrepareTaken`, `PrepareEnds`); one whose caller gave
up does so too (`late`, `LatePrepare`). A commit makes the thread and the slot (`CommitOpens`), then sends
the note (`NoteSent`, `NoteFails`); a target that stops in between leaves it untold (`told` is "cut").
A conversation is the number of its messages, so "the target has everything" is an equation. The ten
minutes of a lease and the life of a slot may end whenever the code looks. `Mishaps` has the four events under which the code is known not
to keep its promise (section 5); a behaviour whose budget has none of them is `Quiet`:
`cancel` (the item is cancelled or expires while the bundle is being sent), `slow` (the source's next
call, or an abort, arrives while a prepare or a commit is still being handled that has not written what it
will), `note_fails` (the first turn of the
opened thread fails) and `crash` (the target stops between writing the thread and the slot).

**Handover** has four actions. A thread takes messages while it is open (`Accept`), is closed (`Close`)
before the other machine gets all of it, once (`Give`), and is opened again only while the other does not
have it (`Reopen`). The promise is `void` once a user takes the thread by force, and from the start where
a mishap may happen. The refinement maps `open` to "no lease" and `void` to `forced \/ ~Quiet`.

**PhoneThreads.** One thread on each machine, so a thread has its machine's name; `Home` is the computer
the phone is at. A transcript is the last event in it and whether it has all before (`copy`); `stale`,
`epoch` and `replay` are `ThreadCache`'s fields, and its methods are the operators `Fresh`, `Revision`,
`CanReplay`, `BeginReplay`, `FinishReplay`, `Marked`. `stream`, `cursor` and `barrier` are the machine
client's subscription: asked, acknowledged, replaying what it missed, live. `load` is a read or a resume
that is out, with the events buffered for it (`hydrating`) as an interval. `ServeSubscribe` and
`ServeRead` are the daemon's side; what has been served and what has been handled are different steps, so
answers and events meet in every order. `Open`, `Close`, `Prefetch`, `Evict`, `Save` and the `Disk*`,
`Ensure*` actions are the screen and the disk, `Relaunch` is a new process with the old disk, `Lagged` and
`LinkDown` the ends of a subscription.

**PhoneNotes.** `log` is the daemon's note, one entry per revision; a save that expects another revision
is refused unless it says the same (`Refused`, `Written`). Every opening makes a session (`note[s]`); a
session that was left keeps its timer and its calls, as a promise does. `calls` are the requests that are
out, `stray` the saves the phone gave up and the daemon may still read, `news` the `notes.changed`
notifications on their way, `kept` is `noteDrafts`. `Edit`, `EditBack` (back to the saved text),
`Flush`, `Autosave`, `Retry`, `Choose` (keep mine, load theirs), `Open` and `Leave` are the user and the
timer, the rest are the handlers of answers. `loss`, `late` (requests overtake each other), `reopen` (a
note opened again before the session before it is done) and `revert` (an edit taken back while its save
is out) are mishaps. `Save` is `save` and `run`: it sends the draft (`Sends`), or, for a thread without a
note, drops a blank one and its kept copy (`Drops`). `unsaved` and `known` are history: the last text typed until it is saved or given up,
and the revisions the user saw, wrote or agreed to replace.

**MachineSlot.** `slot` has the fields of the code's `Slot`; `slot.attempt` is `connecting`, the promise
its callers share. A run of `findRoute` goes through `token`, `mint`, `save`, `verify`, `open`, and after
a refusal `reread` and `discard`: one await each. The code numbers attempts (`gen`) and compares at every
await; here `current` says whether a run still has the slot's number, and `Superseded` is `gen++`. `Dial`
is connectSlot's body, with the attempt that is shared or, when it is too old, replaced; `Offline`,
`Parked` and `Adopted` are the writers of the slot. `client` has the `KybernClient` each run opened; what
becomes of it later (`Drops`, `Reopens`, `Fails`) reaches the slot through `onInnerStatus`. `awaited` is
the attempt a call of `reach` waits for. Tokens are counted: a mint or a grant makes the machine take the
new one only. External are the addresses, the network's other members and other windows of the device.
The budget's fields are lost connections and answers (`drops`), moved addresses (`moves`), tokens granted
elsewhere (`grants`), requests of the user or the system (`asks`), pauses and removal (`pauses`),
attempts that are given up as too old (`stuck`). Mishaps: `resume` (a machine is resumed
while an attempt from before its pause still runs) and `forgotten` (removed while a caller still holds its
slot: `reach`, a pairing of the same machine, or a list that `mapLimit` goes through). `PairStarts`,
`PairSaves` and `PairAgain` are the steps of `addMachine` for a machine that is known, `ListSlots` and
`ListConnects` those of `connectAll` and its like; neither looks at the set again before it connects.


## 3. Runs, bounds and fairness

Every property has a mutant in `PROJECT.json`: a definition of the model changed as a bug in its code
would change it, under which TLC finds the property violated.

| Run | Question | Bounds |
|---|---|---|
| `broadcast` | both limits hold, no silent gap, every event and the close are heard | 2 receivers that come and go, capacity 2, 3 bytes, events of 1 byte and of 4, 3 sends |
| `turns` | a message starts once, a turn the provider got ends once, one process, no thread runs with nobody to end it, undisturbed, status and log agree and the sweep spares what is in use; the refinement of `TurnHistory` | 2 messages, 2 sessions; 1 resumed turn and 1 stop; or 1 restart, 1 stop and `forced_stop`; or 1 resumed turn and 1 restart; or 2 restarts and `torn`; or 1 stop and `close_fails`; or `exit`; or `refusal`; or `early_result` |
| `turns_live` | turns end, follow-ups go, a stop ends its turn | 2 messages; 1 stop; or output while no turn is installed, held back for a permit; no symmetry |
| `stream_one` | no gap, no leaked subscription, every event arrives | 1 emitter, 2 events, ring of 1, gap limit 1, 2 connections, 2 of: failed replays, refused requests, answers that come too late |
| `stream_two` | *violated:* no gap | 2 emitters, 2 events |
| `outbox` | what is reported is true, a cancel wins, everything queued ends | 2 items of one kind; 2 requests with 1 lost call, or with 1 restart; 1 request and 1 outage; 1 lost call and 1 restart |
| `move` | without mishaps one owner with everything, and the refinement of `Handover`; with them never read-only without a successor, and moves and leases end | 2 messages, any outages; 2 lost calls, 1 restart, 3 requests; or 1 lost call, 1 restart, 2 requests, all mishaps |
| `move_note` | *violated:* a refused commit made nothing | 2 messages, 1 failed note, 1 request |
| `phone` | a fresh copy misses nothing, nothing with a gap is saved, no transcript goes back, one on screen catches up | 2 launches of one machine with 2 events, 2 breaks, 2 visits; or 2 machines with 1 event each |
| `phone_away` | *violated:* a thread of another machine follows it whatever happens at home | 1 event away, 1 break at home |
| `notes` | no revision replaced unseen, nothing typed lost, conflicts are real, drafts are saved or the user is told | 3 texts, 2 openings; in order 2 edits, or 1 with 2 saves elsewhere and 2 choices; 2 edits with a lost connection; 1 with a loss and answers out of order; 2 with a reopening or an edit taken back |
| `machine` | no client, timer or run outlives a pause or a removal, a machine that is away is always about to be tried again, and one that can be reached is connected in the end | 2 routes; a lost connection, a moved address and a token granted elsewhere; with 1 request instead of the address, or 1 request and a stuck attempt instead of the token; 2 pauses, a lost connection and 1 request; 1 removal or pause, 1 request, an address and a stuck attempt with `forgotten`; 1 pause and 1 request with `resume`; 1 pairing and 1 removal or pause, with and without `forgotten` |

**Why the bounds are enough.**

* *broadcast:* three sends overrun a ring of two, so that a small event is evicted by count, and an
  oversized one, which comes before, between or after others, evicts by bytes; a receiver lags, leaves
  while it is the slowest, and leaves while it sleeps. An event that fits and still evicts by bytes alone
  (a third size) gives the same results, in four times the time, so the run has two sizes; the proofs
  have any.
* *turns:* two messages are needed for a conflict (a queue snapshot, a second turn, a barrier), and every
  pairwise race has two. A start spawns at most one session, so `MaxSessions = 2` never binds with two
  messages: no behaviour is cut off. A resumed turn is the third response of a thread. Two restarts are
  a torn one and the one that finds what it left. Everything at once
  is beyond what TLC does in minutes, hence eight budgets; every
  mishap is in one of them, and the proofs have all of them at once. In `turns_live` the second budget is there
  for the permit: a pump waits for it only where output may come before a turn is installed.
* *stream:* a ring of one with two events forces a lag; a gap limit of one makes one replay and one
  snapshot possible; two failures let a refusal and a failed replay, or two refusals, meet; the second connection is the reconnect. Every new connection subscribes with the
  cursor of the one before, so a third shows nothing a second does not.
* *outbox:* deliveries are one at a time per kind, so two items of one kind are where they get in each
  other's way; kinds are independent but for the worker. Two requests are the cancel and the retry of one
  item while its first delivery is still out.
* *move:* two losses let both a commit and the question after it go unanswered; three requests are
  cancel, retry and abandon in one behaviour; two messages are one before and one between two attempts,
  which is what a stale bundle needs.
* *phone:* two events are needed for a gap (the second without the first). Two breaks and two visits are a
  connection lost while a read is out and a second one while the copy is caught up; the second launch finds
  what the first one saved. The two machines share only the cache's epoch and replay, which one event each
  and one break exercise.
* *notes:* three texts (nothing, and two that differ) let an edit return to an earlier text; two sessions
  are the one that was left and the one that took its place; one save elsewhere makes a conflict, and
  keeping or loading the other version is the choice; two saves elsewhere and two choices are what `keepMine`
  needs to overtake itself (section 5). An edit while a save is out is the second one.
* *machine:* two routes are a best one and another to fall back to, probe from or be blocked. Four runs
  are the attempt, two it superseded and a probe; a fifth is never needed in these budgets (the
  states are the same). The mixtures pair each disturbance with the ones that race it.

`CHECK_DEADLOCK FALSE` stands where the bounded system may really stop: no more events, messages or
requests. Symmetry is used for messages and items in runs without liveness.

**Fairness, and why the code justifies it.** A spawned task runs on, and an await whose event has
happened returns: weak fairness of the daemon's own steps (`Start`, `QueueWork`, `PumpWork`, `Stop`, ...;
`Publish`, `Handle`, `Establish`, `Live`; `Pass`; `Attempt`, `Reaction`, `Sweep`; on the phone `Daemon`,
`Stream` and `Thread` of a machine, `Serve`, `Answer` and `Autosave` of a note: requests are served,
frames and answers handled, timers fire). The worker of the
outbox wakes on a kick or after a timer, which also runs the move's sweep. A client reconnects in a loop
(`Connect`) and handles its frames (`Client`). A receiver calls recv again (`ReceiverStep`). A peer call
returns, because the target serves it or the session is closed or a minute is over (`Deliver`,
`Target \/ Disconnected`). A back-off ends. `TurnsEnd` assumes `ProviderAnswers` (a provider ends the turn
it was given, or exits), and says so in the formula; `StopEnds` does not: it is there for providers that
ignore a stop. In `MoveEnds` the move ends if the machines are connected from some time on; the lease ends
whatever the link does. `Settles` of the outbox assumes that a target that is away comes back, for a
queued item without an expiry waits for it as long as it takes. `CatchesUp` speaks of a thread that stays
on screen while its machine stays connected; `DraftsGo` assumes nothing of the connection, for a call on a
lost one fails. `Connects` assumes that every await of `findRoute` ends, for each has a time limit in the
code; that a client that reconnects tries its route until it opens or fails; and that the retry, grace and
mint timers fire. A grace timer is started anew by each "reconnecting", but the back-off of the client
(`client.ts:545`) grows past its eight seconds, so it does fire. Nobody is obliged to send, stop, cancel, retry, archive, leave, abandon, open or edit.


## 4. Proofs

Each proof module extends the component's module and proves its theorems for every value of the
constants, under the component's named assumptions: bounds are natural numbers, the ring's two limits are
positive (asserted by `channel()`), sizes are natural, `None` and `Lost` are not data, every item has a
kind, a blank text is a text, `None` is neither a message nor a session, and the mishaps are among the
named ones. TLC evaluates these assumptions in
the runs.

| Module | Theorems |
|---|---|
| `BroadcastProofs` | `BroadcastTypeCorrect`, `BroadcastRingContiguous`, `BroadcastNoSilentGap`, `BroadcastReleased`, `BroadcastWithinBudget`, `BroadcastWakesSleepers`, `BroadcastClosesAtEnd` |
| `ThreadTurnsProofs` | `TypeCorrect`, `MessagesStartOnce`, `TurnsEndOnce`, `OneTurnHolds`, `OneProcessHolds`, `NoOrphanedRunHolds`, `SweepSparesHolds`, `KeepsTheHistory` |
| `EventStreamProofs` | `TypeCorrect`, `NoLeak`, `NoGapInOrder`, `ClientUpToDate` |
| `OutboxProofs` | `TypeCorrect`, `NoneStuckSending`, `DeliveredIsTrue`, `CancelWins`, `FailuresHaveReasons` |
| `MoveThreadProofs` | `TypeCorrect`, `NeverLostHolds`, `DeliveredIsDeparted`, `OneMachineOwns`, `NothingLeftBehind`, `DepartedGoesOn`, `MoveKeepsThePromise`, `NothingStuck` |
| `PhoneThreadsProofs` | `TypeCorrect`, `NothingMissed`, `NeverGoesBack`, `RestIsComplete` |
| `PhoneNotesProofs` | `TypeCorrect`, `NothingReplacedUnseen`, `NothingLostHolds`, `AlarmsAreTrue`, `DraftsAreMinded` |
| `MachineSlotProofs` | `TypeCorrect`, `NoLeftovers`, `AlwaysTriedAgain` |

The arguments:

* **Broadcast.** `NoSilentGap` is not inductive by itself: a poll reads the ring by index, so it needs
  `RingContiguous`, that a receiver's cursor is at most `next` and its start at most its cursor
  (`Positions`), and that a receiver that was not born has an empty account. Any number of receivers and
  of sends, any sizes.
  `WithinBudget` needs to know what a fold over the ring computes for every ring, an induction over data.
  The library's induction theorems take a predicate as a parameter, which these provers cannot instantiate;
  so induction is stated for a set of numbers (`SetInduction`, from the well-ordering of the naturals).
  With it: the fold of `Weight` has a solution for every set of indices (`SumsRecursion`), it does not
  matter which index is taken first (`SumsTake`), and so one more entry adds its size (`WeightAppend`) and
  a ring weighs what its front and its rest weigh (`WeightSplit`). Eviction and release take a front away
  and the byte counter with it (`PopBudget`), a send adds an entry only within the limits (`SendBudget`).
  `Watch` is about the sleepers: the version of the channel counts the events, nobody has seen a later one,
  a receiver polls after it has marked the version seen, and so whoever sleeps at the newest version has
  read everything (`NoLostWakeup`), and whoever was told of the close found nothing left (`ClosedAtEnd`).
* **ThreadTurns.** The invariant has six layers, each of which needs those before it.
  `IInv`: a message is started only when the log does not know its turn, so `StartedOnce` needs that what
  waits in the queue has not started (`QueueOK`), and, because of resumed turns and recovery, that a turn
  the log does not know is named by no session and no task (`NamesBegun`); `Placed` gives each task its
  session. The step lemmas first show that every action changes the stored rows in one of eight ways
  (keep, begin, end, reopen, queue, unqueue, archive, crash), and then argue about these.
  `SInv`: a session that has left the map never comes back, and a forced stop or a sweep that works on
  one has taken it out (`Removed`, `Takers`); so a mark on a session is for good.
  `CInv`: a turn that the provider has is on the session it was installed on, with that session's pump, or
  with the forced stop there, never with two of them, and each of these ends it while the log has it open
  (`Custody`). This is `EndedOnce` until the daemon dies, with every mishap. A turn the provider does not have
  yet has no such owner, which is why the property leaves it out. `OneTurn` follows where no turn was ended twice, because
  each writer of "ended" also leaves `Running`. Undisturbed (`Calm`), nobody is named whose message is not
  at its provider, and a start on its way has the session in the map (`CalmNames`, `CalmMap`); from that
  no turn is ended twice at all, and `SweepSpares` follows: a sweep that has the map's lock finds no start
  under way, for a start takes that lock too.
  `PInv`: who took a session out of the map closes it, behind the one barrier, and a spawn finds neither a
  session nor a barrier (`OneReleases`). That a pump takes down only its own barrier matters here: the one
  it would take down otherwise hides another process.
  `OInv`: of every open turn somebody is left who ends it (`KeptInv`): a start before it reaches the session, a
  failing delivery, a session that is alive with the turn, its pump, the forced stop. Three facts keep
  that true. Nothing else is on a session while an open turn is handed over (`SoleInv`); the end of a
  failed start wipes no turn the provider has (`ClearInv`); a turn that is gone is closed and does not resume
  (`GoneInv`, `ContInv`). A session with a process has a pump or a stop that looks after it (`AliveInv`).
  `EInv`: over a restart nobody has custody any more, and recovery ends the last started turn of a thread
  stored as running. It must be open then (`RunsLast`), so a turn that resumes must be the last one. That holds
  because only the session in the map has a turn to resume, and the start of a newer turn, which alone could
  make it older, either installs its own on that session or finds it released (`LastInv`). Two sessions that
  live at once break this, and only a turn ended twice leads there; `Muddled` says exactly that, and torn writes.
  That the engine implements `TurnHistory` follows from the eight ways and these layers: each way is one of its
  actions or a stutter, `OneTurn` gives that a turn starts alone, and `CalmNames` that nothing is ended twice in
  a steady thread that is not archived.
  `close_fails` breaks `OneReleases` and `AliveInv`, `refusal` breaks `ClearInv`: the layers are stated
  under exactly what the properties exclude.
* **Event stream.** `Shape` bounds every position by the log's head and every subscription by the client's
  generation. `NoLeak`: each subscription the socket serves is the client's, or its answer is out or being
  written, or its unsubscribe is out, or it is stranded (`Accounted`), and the newest one is always asked for or served
  (`Requested`). Neither needs an order of events: the theorem holds with any number of emitters. `NoGap`
  does: `Aligned` says that the ring is the tail of the log, so that the place of a receiver tells which
  event live delivery sends next. That rests on the order in which events are published, and on nothing else:
  `NoGapInOrder` is about every behaviour in which a step that publishes takes the oldest of the events
  appended and not yet published (`InOrder`), with any number of emitters at work at once; what is unpublished is
  then the end of the log (`Queued`). The code does not enforce that order, and without it the property is false
  (run `stream_two`): publishing in the other order is the one cause of a gap. `Chain` follows the frames to the client: before every event comes
  what is below it, or a snapshot that has it, or a lag notice, after which the client begins anew;
  `Unanswered` ties a request to the cursor it was sent with, `Delivered` says the same of what
  the socket has not sent yet (the rest of a replay, the event in its hand, the ring). What a replay and
  live delivery have between them is a gap of neither exactly because the floor is fixed with the head.
  `ClientUpToDate` reads the same invariant at the end: when every emitter has published, the whole log went
  through the ring (`AllPublished`), and with no frame, call or replay under way what `Aligned` and `Chain`
  still owe the client is nothing.
* **Outbox.** A row in sending has a task (`SendingInFlight`) because the claim and the start of the task
  are one section and a late outcome is dropped when the row was cancelled meanwhile; `DeliveryOK` says
  that what a task has learnt is true. `CancelWins` and `FailuresHaveReasons` are action properties from
  the same invariant.
* **Move.** With any mishap: a call that can end the move is out only under an uncertain lease
  (`TaskLease`), and the target tells nobody of a thread it has not made (`TargetTrue`); from these
  follow `NeverLost` and `DeliveredDeparted`. In a `Quiet` behaviour six more parts: an attempt keeps its lease
  while it sends, a thread that is there is known to its slot and is told to go on, or was cut off just then
  (`ThereKnown`), a prepare that will write the slot finds nothing made (`ReservesFirst`), a refusal and the
  answer "nothing" are final (`NothingThere`), the source keeps off a thread that is or is being opened
  (`Guarded`), and what is carried is complete (`Complete`). Every mishap breaks one of these parts. `Quiet` never changes,
  so `IInv /\ (Quiet => QuietInv)` is inductive and the theorems hold of every budget; those on owners are
  about quiet behaviours and say so in the property. `MoveKeepsThePromise` uses the same invariant: every
  step of the machines is a step of `Handover` or leaves it alone. `NothingStuck` holds with every mishap: who
  does nothing carries nothing (`Rests`), and each call meets only answers its caller has a step for
  (`Handled`), also when the attempt died and another call took its place.
* **Phone transcripts.** `NoGap` needs to know what each read will find. `Known` bounds what is out by the
  machine's log; `Newer` says that the answer of a read, with the events that came meanwhile, is
  never behind the copy it replaces, which gives `NeverBack`; `HomeInv` follows the copy of the computer the phone is at
  through a read: the answer and the events buffered for it meet without a gap, a copy that may be taken
  up by a replay ends where the cursor was, and the mark a read leaves is fresh only if no
  invalidation came between (`Marked`). Any number of machines, events, breaks and launches.
  `RestIsComplete` adds that a thread on screen that is behind is being read, resumed or restored (`Attended`):
  each step that takes a freshness away, or that ends a read without giving it, starts the next one, at
  once or when the stream is ready again (`Serving`). What nobody attends to is therefore fresh, and so complete.
* **Notes.** A save can replace only what it expects, so `NoOverwrite` needs that every expected revision is
  one the user knows. `Trust` says so of every place a revision can come back from: a session with a draft
  or on screen, a save that is out, a save given up, a kept draft. `OneSave` is needed to know which draft
  an answer is about. The proof holds with every mishap: losses, overtaking answers and reopened notes
  cause false alarms (section 5), never a silent overwrite. `NothingLost` (without `reopen` and `revert`)
  adds `HInv`: only the newest session asks or waits for a timer (`Latest`), and of the text typed last,
  the copy in `kept` says it, the session's draft does if there is one, and every save that is out says it, was
  refused, or will find that the session was touched since (`Held`). The last is why the answer of a save
  may drop the draft only if nothing was typed meanwhile. `run` drops a blank draft when the session has no
  note to compare it with; `Ordered` says that answers that keep their order never take a loaded note away,
  so a draft like that erases nothing. With `late` it may (section 5), and `NothingLost` leaves that text out. `TrueAlarm` (without any mishap) adds `Sure`:
  every revision a session, a draft or a save expects is either the last but for saves of other devices, or
  a save of the phone that was taken is on its way back with the newer one (`Honest`, `Taken`). That needs
  answers in the order of the requests (`InTurn`), which `late` breaks, and no save that nobody waits for,
  which `loss` breaks. `DraftsAreMinded` is an invariant of each session by itself (`Minded`), for every mishap:
  each step that ends a timer or a save hands the draft on, drops it or tells the user.
* **Machine.** `Sound` says of slot, runs and clients together what the three properties say apart, and what
  ties them: a client belongs to the run that opens it or to the slot; a run that counts and is no probe
  is the slot's attempt; the connection's own run has ended; of a machine that is paused, or was removed with
  no caller holding its slot, nothing is left; otherwise the slot's attempt counts (`Counts`) and something is pending (`Awake`).
  `Counts` is why `resume` is a mishap: callers join an attempt without looking at its number. Each way to
  change the three (a run goes on, ends, finds nothing, is adopted; an attempt or a probe starts;
  everything is let go; a report) is a lemma without primes, and the steps cite them.

Only model-checked: all liveness, under fairness, which is out of the prover's reach. Its safety half is
proved: that there is always somebody to go on, or that with nobody left the work is done
(`NoLostWakeup` for `EveryEventHeard`, `NoOrphanedRun` for `TurnsEnd`, `UpToDate` for `EventsArrive`,
`SendingInFlight` for `Settles`, `Unstuck` for `MoveEnds`, `RestShows` for `CatchesUp`, `NoDraftForgotten` for
`DraftsGo`, and `AlwaysTriedAgain` for `Connects`). What TLC adds on the small instances is that the steps which are
left are taken and lead there.

Every invariant and every action property of a passing run is a theorem. Proved only, to keep
the runs few: `RingContiguous` and that the ring releases what all have passed, `NoLostWakeup`,
`ClosedAtEnd`, `SendingInFlight`, `FailsForAReason`, `DeliveredDeparted`, `CarriesAll`, `DepartedRuns`, `UpToDate`,
`NoDraftForgotten`, `Unstuck` and `RestShows`.

## 5. What the code does not keep

Three runs show a disagreement between the code and what it says of itself; `PROJECT.json` has the quotes
under "findings".

* `stream_two`: two emitters can publish in the opposite order of their seqs, and the client, which takes
  only what is above its cursor, drops one event (`orchestrator.rs:1404`).
* `move_note`: a target that has made the thread answers the commit with an error the source takes for a
  refusal (`move_thread.rs:1137`); both machines own the thread.
* `phone_away`: when the computer the phone is at breaks off, the copies of other machines' threads become
  stale with it, and one on screen takes no more of its machine's events until that computer answers
  (`runtime.ts:958`, `1274`).

Seen with TLC while the models were built, and not part of a run:

* *Turns, `forced_stop`:* a stop that is forced while start_turn is still handing the message over ends the
  turn as interrupted, and then start_turn's failure path ends it again, as failed
  (`orchestrator.rs:2686`). This is why `EndedOnce` speaks of turns whose message the provider got.
* *Turns, `torn`:* the event of an end and the status are two writes (`4937-4944`), and a start's status and event
  too (`2275-2277`). After a crash between the first two, recovery finds the thread running and tells the end of
  its last turn again; after one between the others it tells the end of the turn before again, for the one that
  was about to start has no event. Recovery's own two writes (`1335-1357`) have the same gap. `EndedOnce`
  leaves this out (`Muddled`).
* *Turns, resumed after a double end:* when a turn was ended twice before its delivery, two sessions may live,
  and the older one resumes a turn that is not the last. A restart then ends the last turn, which had ended,
  and leaves the resumed one open. `Muddled` names this as well; `RunsLast` is what it breaks.
* *Stream, stranded subscriptions:* a socket that serves sixteen requests refuses the next (`ws.rs:634-642`),
  an unsubscribe too, and the client ignores that (`client.ts:629-635`, `647-649`); nor does it hear an answer
  that comes after the two minutes of the call (`293-320`, `586-587`). The socket then sends every event to the
  subscription nobody listens to until it closes. `NoLeakedSubscription` leaves out exactly these (`stranded`).
* *Move, `cancel`:* when the item is cancelled while its attempt sends the bundle, the lease is released
  and the source takes messages, but the attempt goes on, sets the lease to uncertain and commits without
  them (`move_thread.rs:767-791`, `576-583`). `CarriesAll` would be violated without its `Quiet`.
* *Move, `slow`:* `get` and `abort` do not wait for a commit that is being handled, only commits
  wait for each other (`1023`). "Nothing is there" may be answered just before the thread is, and both
  machines own it. A prepare writes "prepared" without looking at the slot again (`949`, `1006`): one that
  outlives its call by a whole attempt writes over "committed", and an abandon then frees the source.
* *Move, `crash`:* the thread and the slot are two writes (`1128-1136`); a stop in between, and a slot
  that runs out, free the source although the thread is there.
* *Move, retryable note:* the comment at `1138` has the source's next attempt repeat the note; that
  attempt asks `peer.move.get` first and is told "committed", so it never does. Nor does anybody when the
  target stops between the slot and the note (`1136-1137`): the thread is whole but waits for a user.
  `DepartedRuns` leaves the first out and names the second.
* *Move, renewal:* the lease's renewal reads and writes the thread without the lock `move_set` takes
  (`725`, `758`). Not in the model.
* *Turns, archive:* `archive_single` closes a session without giving its pump the `turn_ready` permit; a
  pump that waits for one never reaches its cleanup (`orchestrator.rs:4246`).
* *Turns, `close_fails`:* when `force_interrupt` leaves early, its barrier falls while the process lives
  and the session is already marked: the next turn gets a second process, and the thread it left stays
  running with nobody to end it (`orchestrator.rs:2790`). `OneProcess` and `NoOrphanedRun` exclude it.
* *Turns, `refusal`:* start_turn's failure path clears the session's turn without looking whose it is
  (`2693`), after it has set the thread to failed: a turn that was started in between is forgotten while
  its message runs.
* *Turns, ended twice:* the second end of a turn sets the thread's status again, although the next turn may
  have begun: its message then meets an idle thread, two starts run at once, and each may spawn a process. This
  is why `OneTurn`, `OneProcess` and `NoOrphanedRun` speak of histories in which no turn was ended twice
  (`SettledOnce`); undisturbed, none is (`CalmNames`, proved).
* *Outbox, order:* the module's comment has a kind's items go in the order they were queued
  (`outbox.rs:7`); the target is checked and the back-off counted per row, so a younger item goes first
  when the older one waits for either.
* *Outbox, cancel:* a cancel reads the row, decides and then writes without looking again
  (`network/outbox.rs:421`): it may overwrite "delivered".
* *Outbox, removal:* `machine-network.md:1184` has a removal cancel the target's items; the worker marks
  them failed (`network/outbox.rs:273`).
* *Phone, away:* a read of another machine's thread that is served before the machine's subscription, and
  answered after it was acknowledged, misses the events in between: the reload at the acknowledgement
  joins the read that is out (`runtime.ts:1285`). A thread that was read before the first acknowledgement
  and closed by then is not read again at all; and `finishReplay` may call a copy fresh whose missed event
  sat in the buffer of a read that failed. This is why `NoGap` speaks of `Home`.
* *Notes, `reopen`:* a session that was left deletes the draft the new session keeps, when its own save is
  answered (`noteSession.ts`, `noteDrafts.delete` in `run`); text typed since is then only in the session on screen.
  The new session may also meet its predecessor's save as another device's.
* *Notes, `revert`:* taking an edit back while its save is out drops the draft; the save's text then becomes
  the note and nothing puts the old text back.
* *Notes, `loss` and `late`:* a save whose answer was lost, and a read answered out of order, lead to
  "edited on another device" when nobody else did.
* *Notes, blank:* a read of a thread's note that the daemon served before the note was made, and that is
  answered after its first save, sets the base back to none; if the user is erasing the note meanwhile, `run`
  takes the blank draft for one of a note that was never made, and drops it without a call
  (`noteSession.ts:276-277, 299`). The note keeps its text. `NothingLost` counts erasing only in order.
* *Notes, keep mine twice:* `keepMine` (`noteSession.ts:331`) does not look whether it is already reading,
  and its button stays until the answer is there. When another device saves between the two reads, the first
  one's save is refused while the session already expects the newer revision: "edited on another device"
  appears for a revision the user has agreed to replace. `TrueAlarm` therefore speaks of what the session or
  its refused save expects.
* *Notes, banner:* a conflict stays after the draft was taken back and blocks later autosaves; erasing a
  new thread note leaves its kept draft, which the next sync brings back; a save that failed is not tried
  again when the connection returns.
* *Machine, `resume`:* resuming a machine while an attempt from before its pause still runs joins that
  attempt (`machines.ts:1402`). It ends without effect, for its number is old; the status stays "paused"
  and nothing tries again until the network changes or the user asks. `NeverIdle` without its `May` is
  violated after three steps.
* *Machine, `forgotten`:* three callers hold a machine's slot over an await and do not look whether it is
  still in the set: the second round of `reach` (`machines.ts:876-883`), `addMachine` while it saves the
  token (`659-665`), and the lists that `mapLimit` goes through (`644-648`, `1383`, `1392`). They may dial a
  machine that was removed meanwhile, mint a token for it, and leave a connection or a loop of retries that
  nothing ends. `NothingLeaks` leaves a removed machine out under `forgotten`.
* *Machine, late failure:* an attempt that fails closes the machine's client even when that client
  reopened by itself while the attempt ran (`goOffline`, `1690`); the machine is dialled anew.
* *Machine, discard:* between `credentials.get` and the discard (`1507-1513`) a newer token can be saved and
  is discarded, though only the refused one should be. Removing a machine deletes its credential after an
  await, so one that is added again meanwhile loses its new token (`804-818`, not in the model).


## 6. What is not modelled, and the plan

Within the modelled parts: the turn engine is without approvals, steering, context refresh, compaction
and switches of account; without a failed turn that is taken off and sent again because a rejected login was
fixed (`recover_rejected_login`, `orchestrator.rs:4965-4970`); without the closers of a session other than a
stop, an archive and the idle sweep: what `ensure_session` prepares (`prepare_for_computer`, `3609-3640`),
`release_session` (`1114-1140`) and `idle_harness_for_update` (`1271-1292`), so `OneProcess` says nothing of
these; and of two writes that belong together only those of an end and of a start can be torn by a crash, not
those of a resumed turn or an archive; the stream has one
client with one subscription, and no compaction of tool output; the outbox has one target and no
coalescing of edits; the move has no bundles, groups or queued follow-ups, and one round of one thread.
The phone's transcripts are without earlier history, reverts of the workspace, the time a closed thread
lingers, the size limit, new chats, a change of the computer the phone is at, and the page a gap snapshot
brings; of a note the title and category, new notes without an id, deletion, edits that wait in the outbox
for another machine, the two minutes after which a call is given up and the death of the app are left out.
The desktop's note session is another program with other rules and is planned.
Of a client's machine are left out: routes through a relay, connections the app opens itself
(`adoptConnection`), new ids and the merge of two records, the sync of members and the lists, the short
wait before a sync connects a machine it resumed, and a removed machine that is added again.
The components that are not modelled, and why, are in `PROJECT.json`: most are I/O (git, drivers,
terminals, apps, handshakes), some are data (projections, the wire protocol), and some are planned.

The order was: the ring everything flows through; the turn engine, which is what the program is for; the
stream; the outbox; the move, which is the most delicate use of the outbox; then the far end of the
stream: the phone, with what it reads and what it writes, and the connection to a machine every client
stands on. What comes next:

1. **Approvals and daemon cards**, as an extension of `ThreadTurns`: a third status with writers the
   turn engine does not know (`orchestrator.rs:3012`, `3205`). In the same step the other closers of a
   session, and a crash between the two writes of a resumed turn.
2. **Membership**: the projection of the operations is the same for every order of arrival.
3. **Steering, rotation, account switches**; then **delegation** and its wake-ups over the queue of
   `ThreadTurns`, **remote children** over `Outbox`, **task claims**, **loans of a sign-in**, the client's
   **pending sends**, and the **desktop's note session** beside the phone's.

Runs are kept few: a new module brings one or two and takes the place of one that has become redundant.
