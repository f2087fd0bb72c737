---------------------------- MODULE EventStream ----------------------------
(***************************************************************************)
(* The path of an event from the log to a client: Orchestrator::emit       *)
(* appends it to the store and publishes it on the bounded broadcast       *)
(* (BoundedBroadcast); the socket (crates/kybern-daemon/src/ws.rs) replays *)
(* the log to a new subscription and forwards what is published after; the *)
(* client (packages/kybern-client/src/client.ts) keeps a cursor and        *)
(* subscribes again when it reconnects or is told that it lagged.          *)
(*                                                                         *)
(* One client with one subscription to every thread.  An event is its seq. *)
(* The frames of a socket stay in order; the requests are handled by tasks *)
(* of their own, in any order.  A subscription's id is the generation of   *)
(* the client's request that made it.  A refusal (the socket already       *)
(* serves its limit of requests) and its arrival are one step: the socket  *)
(* does nothing for a request it refuses.  Left out: a restored database   *)
(* whose head moved back, tool outputs and the socket's send budget.       *)
(***************************************************************************)
EXTENDS BoundedBroadcast

CONSTANTS
    Emitters,     \* tasks of the daemon that emit events
    MaxEvents,    \* bound: events appended
    MaxFailures,  \* bound: replays that fail, requests refused, answers too late
    GapLimit,     \* a longer gap is answered with a snapshot (GAP_SNAPSHOT_EVENTS)
    None

\* A connection is a receiver of the broadcast; Connections are used in order.
ASSUME StreamAssumption ==
    /\ MaxEvents \in Nat /\ MaxFailures \in Nat /\ GapLimit \in Nat
    /\ Receivers = 1 .. Cardinality(Receivers) /\ Events = 1 .. MaxEvents
    /\ None \notin Nat
    /\ None \notin [sub : Nat, after : Nat \union {None}, head : Nat, pc : {"respond", "replay"}]

VARIABLES
    head,        \* the newest seq of the log
    emitting,    \* what each emitter has appended and not yet published
    conn,        \* the open connection, or None
    subs,        \* the socket's subscriptions: floor_seq by id
    calls,       \* requests on their way or waiting for their task
    establish,   \* establish_subscription, which holds the delivery lock
    hand,        \* the event recv returned and deliver_live waits to send
    frames,      \* frames on their way to the client
    lastSeq,     \* the client's cursor
    remote,      \* the subscription the client listens to (remoteId)
    generation,  \* of the client's subscription
    ready,       \* the head the client waits to be ready for
    seen,        \* history: the events the client has applied
    base,        \* history: where the client's view began
    stranded,    \* history: subscriptions that nobody will cancel any more
    failures

server == <<subs, calls, establish, hand>>
client == <<lastSeq, remote, generation, ready, seen, base, stranded>>
vars == <<queueVars, head, emitting, conn, server, frames, client, failures>>

Frame(kind, sub, seq) == [kind |-> kind, sub |-> sub, seq |-> seq]
SubscribeCall(sub, after) == [kind |-> "subscribe", sub |-> sub, after |-> after]
UnsubscribeCall(sub) == [kind |-> "unsubscribe", sub |-> sub, after |-> None]

\* A client begins with a snapshot of an empty log, or live-only.
Init ==
    /\ values = << >> /\ next = 0 /\ bytes = 0
    /\ receivers = << >> /\ born = {}
    /\ head = 0 /\ emitting = [e \in Emitters |-> None]
    /\ conn = None /\ subs = << >> /\ calls = {} /\ establish = None /\ hand = None
    /\ frames = << >>
    /\ lastSeq \in {None, 0} /\ base = lastSeq
    /\ remote = None /\ generation = 0 /\ ready = None /\ seen = {} /\ stranded = {}
    /\ failures = 0

-----------------------------------------------------------------------------
(* Orchestrator::emit: append, then publish outside any lock.              *)

AppendEvent(e) ==
    /\ emitting[e] = None /\ head < MaxEvents
    /\ head' = head + 1
    /\ emitting' = [emitting EXCEPT ![e] = head + 1]
    /\ UNCHANGED <<queueVars, conn, server, frames, client, failures>>

\* Nobody hears an event published while no socket is open.
Publish(e) ==
    /\ emitting[e] # None
    /\ IF DOMAIN receivers = {} THEN UNCHANGED queueVars ELSE Send(emitting[e])
    /\ emitting' = [emitting EXCEPT ![e] = None]
    /\ UNCHANGED <<head, conn, server, frames, client, failures>>

-----------------------------------------------------------------------------
(* Connections and the client's requests.                                  *)

\* Mutant: the old subscription is not cancelled.
ResubscribeOnly ==
    /\ generation' = generation + 1
    /\ remote' = None /\ ready' = None
    /\ calls' = calls \union {SubscribeCall(generation + 1, lastSeq)}

\* issueSubscribe: a new generation, the old subscription given up.
Resubscribe ==
    /\ generation' = generation + 1
    /\ remote' = None /\ ready' = None
    /\ calls' = calls \union {SubscribeCall(generation + 1, lastSeq)}
                      \union (IF remote = None THEN {} ELSE {UnsubscribeCall(remote)})

\* The socket hears the broadcast from its first moment; the client subscribes.
Connect ==
    /\ conn = None /\ Cardinality(born) + 1 \in Receivers
    /\ conn' = Cardinality(born) + 1
    /\ Subscribe(conn')
    /\ Resubscribe
    /\ UNCHANGED <<head, emitting, subs, establish, hand, frames, lastSeq, seen, base, stranded, failures>>

\* dropSocket: all that the connection carried is lost.  Bound: not the last
\* connection of this run.
DropSocket ==
    /\ conn # None /\ conn + 1 \in Receivers
    /\ DropReceiver(conn)
    /\ conn' = None
    /\ subs' = << >> /\ calls' = {} /\ establish' = None /\ hand' = None /\ frames' = << >>
    /\ generation' = generation + 1 /\ remote' = None /\ ready' = None /\ stranded' = {}
    /\ UNCHANGED <<head, emitting, lastSeq, seen, base>>

\* The connection breaks, or a request of the client found no answer in time.
Disconnect == DropSocket /\ UNCHANGED failures

-----------------------------------------------------------------------------
(* The socket.                                                             *)

\* Mutant: off by one.
FloorNext(h) == h + 1

\* The floor of a subscription established at head h.
Floor(h) == h

\* establish_subscription takes the delivery lock and fixes the head; the
\* subscription is in the table from here on.  (A cursor above the head, which
\* it refuses, comes only from a database that was restored.)
HandleSubscribe(c) ==
    /\ c \in calls /\ c.kind = "subscribe"
    /\ establish = None
    /\ calls' = calls \ {c}
    /\ subs' = [s \in DOMAIN subs \union {c.sub} |-> IF s = c.sub THEN Floor(head) ELSE subs[s]]
    /\ establish' = [sub |-> c.sub, after |-> c.after, head |-> head, pc |-> "respond"]
    /\ UNCHANGED <<queueVars, head, emitting, conn, hand, frames, client, failures>>

HandleUnsubscribe(c) ==
    /\ c \in calls /\ c.kind = "unsubscribe"
    /\ calls' = calls \ {c}
    /\ subs' = [s \in DOMAIN subs \ {c.sub} |-> subs[s]]
    /\ UNCHANGED <<queueVars, head, emitting, conn, establish, hand, frames, client, failures>>

\* The socket already serves its limit of requests.  A subscription that is
\* refused makes the client drop the connection, if it still wants it ...
RefuseSubscribe(c) ==
    /\ c \in calls /\ c.kind = "subscribe" /\ failures < MaxFailures
    /\ failures' = failures + 1
    /\ \/ c.sub = generation /\ DropSocket
       \/ /\ c.sub # generation
          /\ calls' = calls \ {c}
          /\ UNCHANGED <<queueVars, head, emitting, conn, subs, establish, hand, frames, client>>

\* ... but nobody cancels again a subscription whose cancelling is refused.
RefuseUnsubscribe(c) ==
    /\ c \in calls /\ c.kind = "unsubscribe" /\ failures < MaxFailures
    /\ failures' = failures + 1
    /\ calls' = calls \ {c}
    /\ stranded' = stranded \union {c.sub}
    /\ UNCHANGED <<queueVars, head, emitting, conn, subs, establish, hand, frames,
                   lastSeq, remote, generation, ready, seen, base>>

\* The response; a long gap may be answered with a snapshot through the head,
\* which replaces the replay.
Respond ==
    /\ establish # None /\ establish.pc = "respond"
    /\ \E snapshot \in BOOLEAN :
         /\ snapshot => establish.after # None /\ establish.head > establish.after + GapLimit
         /\ frames' = Append(frames, Frame(IF snapshot THEN "snapshot" ELSE "response", establish.sub, establish.head))
         /\ establish' = [establish EXCEPT !.pc = "replay",
                                           !.after = IF snapshot \/ @ = None THEN establish.head ELSE @]
    /\ UNCHANGED <<queueVars, head, emitting, conn, subs, calls, hand, client, failures>>

\* replay sends the log's events above `after`, one by one, up to the head.
Replay ==
    /\ establish # None /\ establish.pc = "replay"
    /\ establish.after < establish.head
    /\ establish' = [establish EXCEPT !.after = @ + 1]
    /\ frames' = Append(frames, Frame("event", establish.sub, establish.after + 1))
    /\ UNCHANGED <<queueVars, head, emitting, conn, subs, calls, hand, client, failures>>

\* The log cannot be read: the client is asked to subscribe again.
ReplayFails ==
    /\ establish # None /\ establish.pc = "replay"
    /\ establish.after < establish.head /\ failures < MaxFailures
    /\ failures' = failures + 1
    /\ frames' = Append(frames, Frame("lagged", None, None))
    /\ establish' = None
    /\ UNCHANGED <<queueVars, head, emitting, conn, subs, calls, hand, client>>

Ready ==
    /\ establish # None /\ establish.pc = "replay"
    /\ establish.after >= establish.head
    /\ frames' = Append(frames, Frame("ready", establish.sub, establish.head))
    /\ establish' = None
    /\ UNCHANGED <<queueVars, head, emitting, conn, subs, calls, hand, client, failures>>

\* The socket's loop receives the next event, or hears that it lagged ...
ReceiveLive ==
    /\ conn # None /\ hand = None
    /\ RecvValue(conn)
    /\ hand' = EventAt(conn)
    /\ UNCHANGED <<head, emitting, conn, subs, calls, establish, frames, client, failures>>

\* Mutant: a lag is not reported.
ReceiveLaggedQuiet ==
    /\ conn # None /\ hand = None
    /\ RecvLagged(conn)
    /\ UNCHANGED <<head, emitting, conn, server, frames, client, failures>>

ReceiveLagged ==
    /\ conn # None /\ hand = None
    /\ RecvLagged(conn)
    /\ frames' = Append(frames, Frame("lagged", None, None))
    /\ UNCHANGED <<head, emitting, conn, server, client, failures>>

\* ... and deliver_live, under the delivery lock, sends it to every
\* subscription whose floor is below it.
DeliverLive ==
    /\ hand # None /\ establish = None
    /\ LET targets == {s \in DOMAIN subs : hand > subs[s]} IN
         frames' = frames \o [i \in 1 .. Cardinality(targets) |->
                                Frame("event", SetToSeq(targets)[i], hand)]
    /\ hand' = None
    /\ UNCHANGED <<queueVars, head, emitting, conn, subs, calls, establish, client, failures>>

-----------------------------------------------------------------------------
(* The client's frame handler.                                             *)

Next1(kind) == frames # << >> /\ Head(frames).kind = kind

Consume == frames' = Tail(frames)

\* The result of events.subscribe: of an older generation it is cancelled.
ClientSubscribed ==
    /\ \E kind \in {"response", "snapshot"} : Next1(kind)
    /\ Consume
    /\ LET f == Head(frames) IN
         IF f.sub = generation
           THEN /\ remote' = f.sub
                /\ ready' = f.seq
                /\ lastSeq' = IF lastSeq = None \/ (f.kind = "snapshot" /\ f.seq > lastSeq) THEN f.seq ELSE lastSeq
                /\ seen' = IF f.kind = "snapshot" THEN seen \union 1 .. f.seq ELSE seen
                /\ base' = IF base = None THEN f.seq ELSE base
                /\ UNCHANGED calls
           ELSE /\ calls' = calls \union {UnsubscribeCall(f.sub)}
                /\ UNCHANGED <<remote, ready, lastSeq, seen, base>>
    /\ UNCHANGED <<queueVars, head, emitting, conn, subs, establish, hand, generation, stranded, failures>>

\* The client gives a request up after two minutes: if it still wanted the
\* subscription it drops the connection (Disconnect), if not nobody hears the
\* answer that comes later, and nobody cancels.
ClientGaveUp ==
    /\ \E kind \in {"response", "snapshot"} : Next1(kind)
    /\ Head(frames).sub # generation /\ failures < MaxFailures
    /\ Consume
    /\ failures' = failures + 1
    /\ stranded' = stranded \union {Head(frames).sub}
    /\ UNCHANGED <<queueVars, head, emitting, conn, server, lastSeq, remote, generation, ready, seen, base>>

\* Mutant: the cursor moves for events of a subscription that was given up.
ClientEventAny ==
    /\ Next1("event") /\ Consume
    /\ LET f == Head(frames) IN
         IF lastSeq # None /\ f.seq > lastSeq
           THEN lastSeq' = f.seq /\ seen' = seen \union {f.seq}
           ELSE UNCHANGED <<lastSeq, seen>>
    /\ UNCHANGED <<queueVars, head, emitting, conn, server, remote, generation, ready, base, stranded, failures>>

\* An event counts for the subscription listened to, above the cursor.
ClientEvent ==
    /\ Next1("event") /\ Consume
    /\ LET f == Head(frames) IN
         IF f.sub = remote /\ f.seq > lastSeq
           THEN lastSeq' = f.seq /\ seen' = seen \union {f.seq}
           ELSE UNCHANGED <<lastSeq, seen>>
    /\ UNCHANGED <<queueVars, head, emitting, conn, server, remote, generation, ready, base, stranded, failures>>

ClientReady ==
    /\ Next1("ready") /\ Consume
    /\ LET f == Head(frames) IN
         IF f.sub = remote /\ ready = f.seq
           THEN ready' = None /\ lastSeq' = IF f.seq > lastSeq THEN f.seq ELSE lastSeq
           ELSE UNCHANGED <<ready, lastSeq>>
    /\ UNCHANGED <<queueVars, head, emitting, conn, server, remote, generation, seen, base, stranded, failures>>

ClientLagged ==
    /\ Next1("lagged") /\ Consume
    /\ Resubscribe
    /\ UNCHANGED <<queueVars, head, emitting, conn, subs, establish, hand, lastSeq, seen, base, stranded, failures>>

-----------------------------------------------------------------------------
Establish == Respond \/ Replay \/ ReplayFails \/ Ready
Live == ReceiveLive \/ ReceiveLagged \/ DeliverLive
Client == ClientSubscribed \/ ClientGaveUp \/ ClientEvent \/ ClientReady \/ ClientLagged
Handle == \E c \in calls :
    HandleSubscribe(c) \/ HandleUnsubscribe(c) \/ RefuseSubscribe(c) \/ RefuseUnsubscribe(c)

Next ==
    \/ \E e \in Emitters : AppendEvent(e) \/ Publish(e)
    \/ Connect \/ Disconnect
    \/ Handle \/ Establish \/ Live \/ Client

Spec == Init /\ [][Next]_vars

\* The daemon's tasks and the client run on, and a client that lost its
\* connection connects again.  Events and disconnects are not owed.
FairSpec ==
    /\ Spec
    /\ \A e \in Emitters : WF_vars(Publish(e))
    /\ WF_vars(Connect) /\ WF_vars(Handle) /\ WF_vars(Establish) /\ WF_vars(Live) /\ WF_vars(Client)

-----------------------------------------------------------------------------
Seqs == 0 .. MaxEvents

\* Type correctness of the log, the socket and the client.
TypeOK ==
    /\ head \in Seqs
    /\ emitting \in [Emitters -> (1 .. MaxEvents) \union {None}]
    /\ conn \in Receivers \union {None} /\ DOMAIN receivers = {conn} \ {None}
    /\ \A s \in DOMAIN subs : s \in 1 .. generation /\ subs[s] \in Seqs
    /\ \A c \in calls : c.kind \in {"subscribe", "unsubscribe"} /\ c.sub \in 1 .. generation
    /\ establish = None \/ (establish.sub \in 1 .. generation /\ establish.head \in 0 .. head)
    /\ hand \in (1 .. head) \union {None}
    /\ \A i \in DOMAIN frames : frames[i].kind \in {"response", "snapshot", "event", "ready", "lagged"}
    /\ lastSeq \in Seqs \union {None} /\ base \in Seqs \union {None}
    /\ remote \in 1 .. generation \union {None} /\ generation \in Nat
    /\ ready \in Seqs \union {None}
    /\ seen \subseteq 1 .. MaxEvents /\ stranded \subseteq 1 .. generation /\ failures \in 0 .. MaxFailures

\* "No gap and no duplicate" (ws.rs, gap_snapshot): when the client's cursor is
\* at n it has applied every event of the log up to n since its view began,
\* through any replay, live event, lag, snapshot and reconnect.
NoGap == lastSeq # None => \A n \in base + 1 .. lastSeq : n \in seen

\* A subscription that was given up does not stay with the socket: when
\* everything sent has been handled, the socket serves the one the client
\* listens to, and no other but those whose cancelling was refused and those
\* whose answer came after the client had given the request up.
Quiet == conn # None /\ calls = {} /\ frames = << >> /\ establish = None
NoLeakedSubscription == Quiet => remote \in DOMAIN subs /\ DOMAIN subs \ {remote} \subseteq stranded

\* When nothing is under way any more, neither on the daemon nor on the wire, the
\* client is at the end of the log and has applied everything since its view
\* began: no event is left behind for good with the client waiting for it.
Settled ==
    /\ Quiet /\ hand = None /\ receivers[conn] = next
    /\ \A e \in Emitters : emitting[e] = None
UpToDate == Settled => lastSeq = head /\ \A n \in base + 1 .. head : n \in seen

\* Every event reaches the client, whatever it missed on the way: a lag and a
\* lost connection end in a replay.
EventsArrive == \A n \in 1 .. MaxEvents : head >= n ~> (n \in seen \/ (base # None /\ n <= base))

=============================================================================
