---------------------------- MODULE PhoneThreads ----------------------------
(***************************************************************************)
(* The transcripts a phone keeps (apps/mobile/src/state/runtime.ts,        *)
(* threadCache.ts).  The phone follows the events of the computer it is at *)
(* (Home) from its launch and those of another machine from the first time *)
(* one of its threads shows, through the machine's client                  *)
(* (kybern-client machineClient.ts, client.ts).  One cache holds the       *)
(* transcripts of both.  A transcript is read (threads.get), followed      *)
(* event by event while it is fresh, kept on disk, restored from there and *)
(* caught up.                                                              *)
(*                                                                         *)
(* One thread on each machine, so a thread has its machine's name.  What a *)
(* subscription brings is in order and without a gap (NoGap of EventStream *)
(* with one emitter).  A transcript is the last event in it, and whether   *)
(* it has all events before that one.  Earlier history, linger times, the  *)
(* size limit, reverts and a change of computer are left out.              *)
(***************************************************************************)
EXTENDS Naturals

CONSTANTS
    Machines, Home,
    Budgets,       \* bounds: how many events, lost connections and lags, visits and launches
    None

Budget == [events : [Machines -> Nat], breaks : [Machines -> Nat], visits : [Machines -> Nat], launches : Nat]

ASSUME PhoneAssumption ==
    /\ Home \in Machines
    /\ Budgets \subseteq Budget
    /\ None \notin Nat /\ None \notin [last : Nat, whole : BOOLEAN]
    /\ None \notin [epoch : Nat, count : Nat]
    /\ None \notin [Machines -> [epoch : Nat, count : Nat] \union {None}]

VARIABLES
    head,      \* the machine's log
    link,      \* the machine has a connection to the phone
    stream,    \* the subscription to its events
    cursor,    \* KybernClient's lastSeq of that subscription
    barrier,   \* the head the subscription was acknowledged with
    copy,      \* snapshots: the transcript in memory
    stale,     \* ThreadCache.stale, 0 for a fresh one
    epoch,     \* ThreadCache.epoch
    replay,    \* ThreadCache.replay: revisions of transcripts that were fresh
    ready,     \* subscriptionReady
    open,      \* the thread is on screen
    reading,   \* the disk is read for it, and by whom
    load,      \* loads and hydrating: the read or resume that is out
    restored,  \* the copy in memory came from the disk
    disk,      \* the copy on disk
    left       \* what is left of the budget

connection == <<link, stream, cursor, barrier>>
cache == <<copy, stale, epoch, replay>>
screen == <<open, reading>>
vars == <<head, connection, cache, ready, screen, load, restored, disk, left>>

Following == {"start", "replay", "live"}
NoLoad == [kind |-> "none", rev |-> [epoch |-> 0, count |-> 0], from |-> 0, to |-> 0, answer |-> None]

-----------------------------------------------------------------------------
(* ThreadCache.                                                            *)

Fresh(t) == copy[t] # None /\ stale[t] = 0
Revision(t) == [epoch |-> epoch, count |-> stale[t]]
CanReplay(t) == copy[t] # None /\ replay # None /\ replay[t] = Revision(t)
Bumped == [t \in Machines |-> IF copy[t] # None THEN stale[t] + 1 ELSE 0]

InvalidateAll == epoch' = epoch + 1 /\ stale' = Bumped

\* beginReplay: what is fresh now may be taken up by a replay.
BeginReplay ==
    IF replay # None THEN UNCHANGED <<epoch, stale, replay>>
    ELSE /\ InvalidateAll
         /\ replay' = [t \in Machines |->
                          IF Fresh(t) THEN [epoch |-> epoch + 1, count |-> 1] ELSE None]

\* markFresh: the mark that a transcript read under this revision leaves.
Marked(t, rev) == IF Revision(t) = rev THEN 0 ELSE IF stale[t] = 0 THEN 1 ELSE stale[t]

\* finishReplay.
FinishReplay ==
    /\ stale' = [t \in Machines |->
                    IF replay # None /\ replay[t] # None THEN Marked(t, replay[t]) ELSE stale[t]]
    /\ replay' = None

\* applyEvent: a copy takes what is above its last event.
Apply(c, from, to) ==
    IF to <= c.last THEN c ELSE [last |-> to, whole |-> c.whole /\ from <= c.last + 1]

-----------------------------------------------------------------------------
(* Reading a transcript.                                                   *)

Out(kind, rev) == [NoLoad EXCEPT !.kind = kind, !.rev = rev]

\* hydrating: the events that come while it is out are kept for it.
Buffered(l, e) ==
    IF l.kind = "none" THEN l
    ELSE [l EXCEPT !.from = IF l.to = 0 THEN e ELSE l.from, !.to = e]

\* Requests about the thread are answered.
Served(t) == link[t] /\ (t = Home => ready')

\* ensureRemoteEvents: the first thread of a machine subscribes to its events.
Subscribed(phase, t) ==
    IF phase # "none" THEN phase ELSE IF link[t] THEN "asked" ELSE "off"

\* loadThread, for each of these threads.
Loads(threads, streams) ==
    /\ load' = [t \in Machines |->
                   IF t \in threads /\ load[t].kind = "none" /\ Served(t)
                   THEN Out("get", Revision(t)') ELSE load[t]]
    /\ stream' = [t \in Machines |-> IF t \in threads THEN Subscribed(streams[t], t) ELSE streams[t]]

\* ensureThread, for each of these: nothing to do for a fresh one, else the disk first.
Ensures(threads) ==
    reading' = [t \in Machines |-> IF t \in threads /\ ~Fresh(t)' THEN "ensure" ELSE reading[t]]

Shown == {t \in Machines : open[t]}

-----------------------------------------------------------------------------
(* The machines.                                                           *)

NewEvent(m) ==
    /\ left.events[m] > 0 /\ left' = [left EXCEPT !.events[m] = @ - 1]
    /\ head' = [head EXCEPT ![m] = @ + 1]
    /\ UNCHANGED <<connection, cache, ready, screen, load, restored, disk>>

ServeSubscribe(m) ==
    /\ stream[m] = "asked"
    /\ stream' = [stream EXCEPT ![m] = "heard"]
    /\ barrier' = [barrier EXCEPT ![m] = head[m]]
    /\ UNCHANGED <<head, link, cursor, cache, ready, screen, load, restored, disk, left>>

\* Each request has a task of its own on the daemon, so a read may be served
\* before a subscribe that was sent first.
ServeRead(t) ==
    /\ load[t].kind # "none" /\ load[t].answer = None /\ link[t]
    /\ load' = [load EXCEPT ![t].answer = head[t]]
    /\ UNCHANGED <<head, connection, cache, ready, screen, restored, disk, left>>

-----------------------------------------------------------------------------
(* The phone: connections and events.                                      *)

LinkUp(m) ==
    /\ ~link[m]
    /\ link' = [link EXCEPT ![m] = TRUE]
    /\ stream' = [stream EXCEPT ![m] = IF @ = "none" THEN "none" ELSE "asked"]
    /\ UNCHANGED cache
    /\ Ensures(Shown \cap {m})
    /\ UNCHANGED <<head, cursor, barrier, ready, open, load, restored, disk, left>>

\* dropSocket rejects the reads; a resume is a subscription and is asked for again.
LinkDown(m) ==
    /\ link[m] /\ left.breaks[m] > 0
    /\ link' = [link EXCEPT ![m] = FALSE]
    /\ stream' = [stream EXCEPT ![m] = IF @ = "none" THEN "none" ELSE "off"]
    /\ load' = [load EXCEPT ![m] = IF @.kind = "resume" THEN [@ EXCEPT !.answer = None] ELSE NoLoad]
    /\ IF m = Home THEN ready' = FALSE /\ BeginReplay ELSE UNCHANGED <<ready, epoch, stale, replay>>
    /\ left' = [left EXCEPT !.breaks[m] = @ - 1]
    /\ UNCHANGED <<head, cursor, barrier, copy, screen, restored, disk>>

\* events.lagged: the subscription is made again on the same connection.
Lagged(m) ==
    /\ stream[m] \in Following /\ left.breaks[m] > 0
    /\ stream' = [stream EXCEPT ![m] = "asked"]
    /\ left' = [left EXCEPT !.breaks[m] = @ - 1]
    /\ UNCHANGED <<head, link, cursor, barrier, cache, ready, screen, load, restored, disk>>

\* The first acknowledgement: nothing in memory can be trusted.
StartFollowing(m) ==
    /\ stream[m] = "heard" /\ cursor[m] = None
    /\ cursor' = [cursor EXCEPT ![m] = barrier[m]]
    /\ IF m = Home
       THEN /\ InvalidateAll /\ replay' = None /\ ready' = TRUE
            /\ Loads(Shown, [stream EXCEPT ![m] = "start"])
       ELSE /\ stream' = [stream EXCEPT ![m] = "start"]
            /\ UNCHANGED <<epoch, stale, replay, ready, load>>
    /\ UNCHANGED <<head, link, barrier, copy, screen, restored, disk, left>>

ResumeFollowing(m) ==
    /\ stream[m] = "heard" /\ cursor[m] # None
    /\ stream' = [stream EXCEPT ![m] = "replay"]
    /\ IF m = Home THEN ready' = FALSE /\ BeginReplay ELSE UNCHANGED <<ready, epoch, stale, replay>>
    /\ UNCHANGED <<head, link, cursor, barrier, copy, screen, load, restored, disk, left>>

\* Mutant: a copy that is not fresh takes events too.
DeliverAnyway(m) ==
    /\ stream[m] \in Following /\ cursor[m] < head[m]
    /\ LET e == cursor[m] + 1 IN
       /\ cursor' = [cursor EXCEPT ![m] = e]
       /\ load' = [load EXCEPT ![m] = Buffered(@, e)]
       /\ copy' = IF copy[m] = None THEN copy ELSE [copy EXCEPT ![m] = Apply(@, e, e)]
    /\ UNCHANGED <<head, link, stream, barrier, stale, epoch, replay, ready, screen, restored, disk, left>>

\* An event goes to the read that is out, and to the copy if that is fresh, or
\* was when the replay began; a copy that misses it is stale from now on.
Deliver(m) ==
    /\ stream[m] \in Following /\ cursor[m] < head[m]
    /\ LET e == cursor[m] + 1
           takes == Fresh(m) \/ (m = Home /\ CanReplay(m))
       IN
       /\ cursor' = [cursor EXCEPT ![m] = e]
       /\ load' = [load EXCEPT ![m] = Buffered(@, e)]
       /\ copy' = IF takes THEN [copy EXCEPT ![m] = Apply(@, e, e)] ELSE copy
       /\ stale' = IF copy[m] # None /\ ~takes /\ load[m].kind = "none"
                   THEN [stale EXCEPT ![m] = @ + 1] ELSE stale
    /\ UNCHANGED <<head, link, stream, barrier, epoch, replay, ready, screen, restored, disk, left>>

AtBarrier(m) == stream[m] \in {"start", "replay"} /\ cursor[m] >= barrier[m]

\* Mutant: what the replay could not validate is not read again.
HomeReadyOnly ==
    /\ AtBarrier(Home)
    /\ stream' = [stream EXCEPT ![Home] = "live"]
    /\ UNCHANGED <<copy, epoch, reading>>
    /\ IF stream[Home] = "replay"
       THEN FinishReplay /\ ready' = TRUE
       ELSE UNCHANGED <<stale, replay, ready>>
    /\ UNCHANGED <<head, link, cursor, barrier, open, load, restored, disk, left>>

\* events.ready of the computer the phone is at.
HomeReady ==
    /\ AtBarrier(Home)
    /\ stream' = [stream EXCEPT ![Home] = "live"]
    /\ UNCHANGED <<copy, epoch>>
    /\ IF stream[Home] = "replay"
       THEN FinishReplay /\ ready' = TRUE /\ Ensures(Shown)
       ELSE UNCHANGED <<stale, replay, ready, reading>>
    /\ UNCHANGED <<head, link, cursor, barrier, open, load, restored, disk, left>>

\* events.ready of another machine: its threads on screen are read again.
AwayReady(m) ==
    /\ m # Home /\ AtBarrier(m)
    /\ UNCHANGED <<cache, ready>>
    /\ Loads(Shown \cap {m}, [stream EXCEPT ![m] = "live"])
    /\ UNCHANGED <<head, link, cursor, barrier, screen, restored, disk, left>>

-----------------------------------------------------------------------------
(* The phone: threads.                                                     *)

\* useThread: the disk copy shows at once; with a connection the thread is ensured.
Open(t) ==
    /\ ~open[t] /\ left.visits[t] > 0
    /\ open' = [open EXCEPT ![t] = TRUE]
    /\ stream' = [stream EXCEPT ![t] = Subscribed(@, t)]
    /\ reading' = [reading EXCEPT ![t] =
                      IF link[t] /\ ~Fresh(t) THEN "ensure"
                      ELSE IF copy[t] = None /\ @ = "no" THEN "shown" ELSE @]
    /\ left' = [left EXCEPT !.visits[t] = @ - 1]
    /\ UNCHANGED <<head, link, cursor, barrier, cache, ready, load, restored, disk>>

Close(t) ==
    /\ open[t] /\ open' = [open EXCEPT ![t] = FALSE]
    /\ UNCHANGED <<head, connection, cache, ready, reading, load, restored, disk, left>>

\* A thread at the top of a list is read ahead of a tap.
Prefetch(t) ==
    /\ ~open[t] /\ ~Fresh(t) /\ load[t].kind = "none" /\ link[t] /\ (t = Home => ready)
    /\ left.visits[t] > 0 /\ left' = [left EXCEPT !.visits[t] = @ - 1]
    /\ UNCHANGED <<cache, ready>>
    /\ Loads({t}, stream)
    /\ UNCHANGED <<head, link, cursor, barrier, screen, restored, disk>>

\* Mutant: an evicted transcript keeps its mark.
EvictMarked(t) ==
    /\ copy[t] # None /\ ~open[t] /\ load[t].kind = "none"
    /\ copy' = [copy EXCEPT ![t] = None]
    /\ replay' = IF replay = None THEN None ELSE [replay EXCEPT ![t] = None]
    /\ UNCHANGED <<head, connection, stale, epoch, ready, screen, load, restored, disk, left>>

\* trimSnapshots: what is neither on screen nor being read may be evicted.
Evict(t) ==
    /\ copy[t] # None /\ ~open[t] /\ load[t].kind = "none"
    /\ copy' = [copy EXCEPT ![t] = None] /\ stale' = [stale EXCEPT ![t] = 0]
    /\ replay' = IF replay = None THEN None ELSE [replay EXCEPT ![t] = None]
    /\ UNCHANGED <<head, connection, epoch, ready, screen, load, restored, disk, left>>

\* scheduleSave, when its time comes.
Save(t) ==
    /\ Fresh(t) /\ load[t].kind = "none" /\ ~restored[t] /\ disk[t] # copy[t]
    /\ disk' = [disk EXCEPT ![t] = copy[t]]
    /\ UNCHANGED <<head, connection, cache, ready, screen, load, restored, left>>

\* restoreThread: the disk copy waits, stale, for its catch-up.
Restore(t) ==
    IF copy[t] = None /\ disk[t] # None
    THEN /\ copy' = [copy EXCEPT ![t] = disk[t]] /\ stale' = [stale EXCEPT ![t] = 1]
         /\ restored' = [restored EXCEPT ![t] = TRUE]
    ELSE UNCHANGED <<copy, stale, restored>>

DiskShown(t) ==
    /\ reading[t] = "shown" /\ reading' = [reading EXCEPT ![t] = "no"]
    /\ Restore(t)
    /\ UNCHANGED <<head, connection, epoch, replay, ready, open, load, disk, left>>

\* The rest of ensureThread: a restored copy is caught up from its cursor ...
EnsureResumes(t) ==
    /\ reading[t] = "ensure" /\ reading' = [reading EXCEPT ![t] = "no"]
    /\ Restore(t)
    /\ restored'[t] /\ copy'[t] # None /\ load[t].kind = "none" /\ link[t] /\ (t = Home => ready)
    /\ UNCHANGED <<epoch, replay>>
    /\ load' = [load EXCEPT ![t] = Out("resume", Revision(t)')]
    /\ UNCHANGED <<head, connection, ready, open, disk, left>>

\* ... and what cannot be resumed is read.
EnsureReads(t) ==
    /\ reading[t] = "ensure" /\ reading' = [reading EXCEPT ![t] = "no"]
    /\ Restore(t)
    /\ UNCHANGED <<epoch, replay, ready>>
    /\ Loads(IF Fresh(t)' THEN {} ELSE {t}, stream)
    /\ UNCHANGED <<head, link, cursor, barrier, open, disk, left>>

\* Mutant: the events that came while the read was out are forgotten.
ReadUnbuffered(t) ==
    /\ load[t].kind = "get" /\ load[t].answer # None
    /\ copy' = [copy EXCEPT ![t] = [last |-> load[t].answer, whole |-> TRUE]]
    /\ stale' = [stale EXCEPT ![t] = Marked(t, load[t].rev)]
    /\ load' = [load EXCEPT ![t] = NoLoad]
    /\ restored' = [restored EXCEPT ![t] = FALSE]
    /\ UNCHANGED <<epoch, replay>>
    /\ Ensures(IF ready THEN Shown \cap {t} ELSE {})
    /\ UNCHANGED <<head, connection, ready, open, disk, left>>

\* threads.get answers: the page, and on top the events that came meanwhile.
\* If something made the copy stale in between, it stays so and is read again.
ReadAnswered(t) ==
    /\ load[t].kind = "get" /\ load[t].answer # None
    /\ copy' = [copy EXCEPT ![t] =
                   Apply([last |-> load[t].answer, whole |-> TRUE], load[t].from, load[t].to)]
    /\ stale' = [stale EXCEPT ![t] = Marked(t, load[t].rev)]
    /\ load' = [load EXCEPT ![t] = NoLoad]
    /\ restored' = [restored EXCEPT ![t] = FALSE]
    /\ UNCHANGED <<epoch, replay>>
    /\ Ensures(IF ready THEN Shown \cap {t} ELSE {})
    /\ UNCHANGED <<head, connection, ready, open, disk, left>>

\* What a resume that did not succeed leaves to do.
ReadInstead(t) == load' = [load EXCEPT ![t] = IF Served(t) THEN Out("get", Revision(t)') ELSE NoLoad]

\* The resume's own subscription is ready: its replay, then the main stream's events.
ResumeAnswered(t) ==
    /\ load[t].kind = "resume" /\ load[t].answer # None
    /\ copy' = [copy EXCEPT ![t] =
                   Apply(Apply(@, @.last + 1, load[t].answer), load[t].from, load[t].to)]
    /\ restored' = [restored EXCEPT ![t] = FALSE]
    /\ stale' = [stale EXCEPT ![t] = Marked(t, load[t].rev)]
    /\ UNCHANGED <<epoch, replay, ready>>
    /\ IF Fresh(t)' THEN load' = [load EXCEPT ![t] = NoLoad] ELSE ReadInstead(t)
    /\ UNCHANGED <<head, connection, screen, disk, left>>

\* Fifteen seconds are over; a part of the replay may have come.
ResumeTimesOut(t) ==
    /\ load[t].kind = "resume"
    /\ \E last \in 0 .. head[t] :
          /\ copy[t].last <= last
          /\ last <= IF load[t].answer = None THEN copy[t].last ELSE load[t].answer
          /\ copy' = [copy EXCEPT ![t] = Apply(@, @.last + 1, last)]
    /\ UNCHANGED <<stale, epoch, replay, ready, restored>>
    /\ ReadInstead(t)
    /\ UNCHANGED <<head, connection, screen, disk, left>>

\* A start of the app: the memory is empty, and the first connection is made.
Started ==
    [link     |-> [m \in Machines |-> FALSE],
     stream   |-> [m \in Machines |-> IF m = Home THEN "off" ELSE "none"],
     cursor   |-> [m \in Machines |-> None],
     barrier  |-> [m \in Machines |-> 0],
     copy     |-> [m \in Machines |-> None],
     stale    |-> [m \in Machines |-> 0],
     replay   |-> [m \in Machines |-> None],
     no       |-> [m \in Machines |-> FALSE],
     reading  |-> [m \in Machines |-> "no"],
     load     |-> [m \in Machines |-> NoLoad]]

Init ==
    /\ head = [m \in Machines |-> 0]
    /\ link = Started.link /\ stream = Started.stream
    /\ cursor = Started.cursor /\ barrier = Started.barrier
    /\ copy = Started.copy /\ stale = Started.stale /\ epoch = 1 /\ replay = Started.replay
    /\ ready = FALSE /\ open = Started.no /\ reading = Started.reading
    /\ load = Started.load /\ restored = Started.no
    /\ disk = [m \in Machines |-> None]
    /\ left \in Budgets

\* What is on disk stays.
Relaunch ==
    /\ left.launches > 0 /\ left' = [left EXCEPT !.launches = @ - 1]
    /\ link' = Started.link /\ stream' = Started.stream
    /\ cursor' = Started.cursor /\ barrier' = Started.barrier
    /\ copy' = Started.copy /\ stale' = Started.stale /\ epoch' = 1 /\ replay' = Started.replay
    /\ ready' = FALSE /\ open' = Started.no /\ reading' = Started.reading
    /\ load' = Started.load /\ restored' = Started.no
    /\ UNCHANGED <<head, disk>>

-----------------------------------------------------------------------------
Daemon(m) == ServeSubscribe(m) \/ ServeRead(m)
Stream(m) ==
    \/ StartFollowing(m) \/ ResumeFollowing(m) \/ Deliver(m)
    \/ (m = Home /\ HomeReady) \/ AwayReady(m)
Thread(t) ==
    \/ DiskShown(t) \/ EnsureResumes(t) \/ EnsureReads(t)
    \/ ReadAnswered(t) \/ ResumeAnswered(t) \/ ResumeTimesOut(t)
User(t) == Open(t) \/ Close(t) \/ Prefetch(t) \/ Evict(t) \/ Save(t)
Network(m) == LinkUp(m) \/ LinkDown(m) \/ Lagged(m)

Next ==
    \/ \E m \in Machines : NewEvent(m) \/ Daemon(m) \/ Stream(m) \/ Thread(m) \/ User(m) \/ Network(m)
    \/ Relaunch

Spec == Init /\ [][Next]_vars

\* A daemon serves its requests, frames are handled, a read of the disk ends.
FairSpec == Spec /\ \A m \in Machines : WF_vars(Daemon(m)) /\ WF_vars(Stream(m)) /\ WF_vars(Thread(m))

-----------------------------------------------------------------------------
(* Properties.                                                             *)

Copies == [last : Nat, whole : BOOLEAN]
Revisions == [epoch : Nat, count : Nat]

\* The type of the state, and that an evicted transcript leaves no mark behind.
TypeOK ==
    /\ head \in [Machines -> Nat] /\ barrier \in [Machines -> Nat]
    /\ link \in [Machines -> BOOLEAN] /\ ready \in BOOLEAN
    /\ stream \in [Machines -> {"none", "off", "asked", "heard", "start", "replay", "live"}]
    /\ cursor \in [Machines -> Nat \union {None}]
    /\ copy \in [Machines -> Copies \union {None}] /\ disk \in [Machines -> Copies \union {None}]
    /\ stale \in [Machines -> Nat] /\ epoch \in Nat
    /\ replay = None \/ replay \in [Machines -> Revisions \union {None}]
    /\ open \in [Machines -> BOOLEAN] /\ restored \in [Machines -> BOOLEAN]
    /\ reading \in [Machines -> {"no", "shown", "ensure"}]
    /\ load \in [Machines -> [kind : {"none", "get", "resume"}, rev : Revisions,
                              from : Nat, to : Nat, answer : Nat \union {None}]]
    /\ left \in Budget
    /\ \A t \in Machines : copy[t] = None => stale[t] = 0

Complete(t) == copy[t].whole /\ (cursor[t] # None => copy[t].last >= cursor[t])

\* A transcript of the computer the phone is at that counts as fresh misses
\* nothing the phone was sent, and one on disk has no gap, whatever was lost,
\* read, restored or evicted on the way.
NoGap ==
    /\ Fresh(Home) => Complete(Home)
    /\ disk[Home] # None => disk[Home].whole

\* A transcript in memory never goes back to an earlier state.
Forward == \A t \in Machines : copy[t] # None /\ copy'[t] # None => copy[t].last <= copy'[t].last
NeverBack == [][Forward]_vars

\* A thread on screen of the computer the phone is at is behind only while
\* something catches it up: it is read or resumed, or the disk is asked first.
Attended ==
    open[Home] /\ link[Home] /\ ready /\ ~Fresh(Home)
        => load[Home].kind # "none" \/ reading[Home] = "ensure"

ShowsAll(t) == copy[t] # None /\ copy[t] = [last |-> head[t], whole |-> TRUE]

\* Once every event was brought to the phone and nothing is read for the thread
\* on screen, it shows all of it: no break, lag, answer or start left it behind
\* for good (the safety half of CatchesUp).
AtRest ==
    /\ open[Home] /\ link[Home] /\ stream[Home] = "live" /\ cursor[Home] = head[Home]
    /\ load[Home].kind = "none" /\ reading[Home] # "ensure"
RestShows == AtRest => ShowsAll(Home) /\ Fresh(Home)

\* A thread of the computer the phone is at, on screen while it stays
\* connected, comes to show all of it.
CatchesUp == <>[](open[Home] /\ link[Home]) => <>[](ShowsAll(Home) /\ Fresh(Home))

\* A thread of another machine that is followed and shows all there is keeps to
\* its machine's events while it is on screen and that machine is connected,
\* whatever happens to the computer the phone is at.
AwayFollows ==
    \A t \in Machines \ {Home} :
        [](stream[t] = "live" /\ ShowsAll(t) /\ [](open[t] /\ link[t]) => <>[]ShowsAll(t))
=============================================================================
