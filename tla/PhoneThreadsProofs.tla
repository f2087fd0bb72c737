------------------------- MODULE PhoneThreadsProofs -------------------------
(* The safety properties of PhoneThreads, for any machines and budgets: no *)
(* transcript goes back, and a fresh one of the computer the phone is at   *)
(* misses nothing, and one on screen shows everything once nothing is      *)
(* under way (Attended).                                                   *)
EXTENDS PhoneThreads, TLAPS

(* The type invariant in parts.                                            *)
Streams == {"none", "off", "asked", "heard", "start", "replay", "live"}
LoadsOut == [kind : {"none", "get", "resume"}, rev : Revisions,
             from : Nat, to : Nat, answer : Nat \union {None}]

LogOK == head \in [Machines -> Nat] /\ barrier \in [Machines -> Nat]
LeftOK == left \in Budget
LinkOK == link \in [Machines -> BOOLEAN] /\ ready \in BOOLEAN /\ open \in [Machines -> BOOLEAN]
StreamOK == stream \in [Machines -> Streams]
CursorOK == cursor \in [Machines -> Nat \union {None}]
CopyOK == copy \in [Machines -> Copies \union {None}]
DiskOK == disk \in [Machines -> Copies \union {None}]
MarkOK == stale \in [Machines -> Nat] /\ epoch \in Nat
NoMark == \A t \in Machines : copy[t] = None => stale[t] = 0
KeptOK == replay = None \/ replay \in [Machines -> Revisions \union {None}]
RestoredOK == restored \in [Machines -> BOOLEAN]
ReadingOK == reading \in [Machines -> {"no", "shown", "ensure"}]
LoadOK == load \in [Machines -> LoadsOut]

\* A stream that brings events has a cursor; a resume, and a replay, have something
\* to go on from.
Followed == \A m \in Machines : stream[m] \in Following => cursor[m] # None
Resumable == \A t \in Machines : load[t].kind = "resume" => copy[t] # None
Replayable == \A t \in Machines : replay # None /\ replay[t] # None => copy[t] # None

Typed == TypeOK /\ Followed /\ Resumable /\ Replayable

LEMMA Parts ==
    TypeOK <=> /\ LogOK /\ LeftOK /\ LinkOK /\ StreamOK /\ CursorOK /\ CopyOK /\ DiskOK
               /\ MarkOK /\ NoMark /\ KeptOK /\ RestoredOK /\ ReadingOK /\ LoadOK
  BY Zenon DEF TypeOK, LogOK, LeftOK, LinkOK, StreamOK, Streams, CursorOK, CopyOK, DiskOK, MarkOK,
     NoMark, KeptOK, RestoredOK, ReadingOK, LoadOK, LoadsOut

-----------------------------------------------------------------------------
(* What the helpers return.                                                *)

LEMMA ApplyType ==
    ASSUME NEW c \in Copies, NEW from \in Nat, NEW to \in Nat
    PROVE  Apply(c, from, to) \in Copies
<1>1. CASE to <= c.last
    BY <1>1 DEF Apply
<1>2. CASE ~(to <= c.last)
  <2> DEFINE w == c.whole /\ from <= c.last + 1
  <2>1. w \in BOOLEAN
      BY Zenon
  <2>2. Apply(c, from, to) = [last |-> to, whole |-> w]
      BY <1>2, Zenon DEF Apply
  <2> HIDE DEF w
  <2> QED BY <2>1, <2>2 DEF Copies
<1> QED BY <1>1, <1>2

LEMMA ApplyFacts ==
    ASSUME NEW c \in Copies, NEW from \in Nat, NEW to \in Nat
    PROVE  /\ c.last <= Apply(c, from, to).last /\ to <= Apply(c, from, to).last
           /\ Apply(c, from, to).last \in {c.last, to}
           /\ c.whole /\ from <= c.last + 1 => Apply(c, from, to).whole
<1>1. CASE to <= c.last
    BY <1>1 DEF Apply, Copies
<1>2. CASE ~(to <= c.last)
  <2> DEFINE w == c.whole /\ from <= c.last + 1
  <2>1. Apply(c, from, to) = [last |-> to, whole |-> w]
      BY <1>2, Zenon DEF Apply
  <2> HIDE DEF w
  <2>2. Apply(c, from, to).last = to /\ Apply(c, from, to).whole = w
      BY <2>1
  <2>3. c.whole /\ from <= c.last + 1 => Apply(c, from, to).whole
      BY <2>2, Zenon DEF w
  <2> QED BY <1>2, <2>2, <2>3 DEF Copies
<1> QED BY <1>1, <1>2

LEMMA BufferedType ==
    ASSUME NEW l \in LoadsOut, NEW e \in Nat PROVE Buffered(l, e) \in LoadsOut
<1>1. CASE l.kind = "none"
    BY <1>1 DEF Buffered
<1>2. CASE l.kind # "none" /\ l.to = 0
    BY <1>2 DEF Buffered, LoadsOut
<1>3. CASE l.kind # "none" /\ l.to # 0
    BY <1>3 DEF Buffered, LoadsOut
<1> QED BY <1>1, <1>2, <1>3

LEMMA OutType ==
    ASSUME NEW kind \in {"get", "resume"}, NEW rev \in Revisions
    PROVE  NoLoad \in LoadsOut /\ Out(kind, rev) \in LoadsOut
  BY DEF Out, NoLoad, LoadsOut, Revisions

-----------------------------------------------------------------------------
(* Every step keeps the types, one variable after the other.               *)

\* The logs and barriers.
LEMMA LogStep == LogOK /\ [Next]_vars => LogOK'
<1> SUFFICES ASSUME LogOK, [Next]_vars PROVE LogOK'
    OBVIOUS
<1> USE DEF LogOK, connection
<1>1. CASE UNCHANGED vars
    BY <1>1 DEF vars
<1>2. CASE Relaunch
    BY <1>2 DEF Relaunch, Started
<1>3. ASSUME NEW m \in Machines, NewEvent(m) \/ Daemon(m) PROVE LogOK'
    BY <1>3 DEF NewEvent, Daemon, ServeSubscribe, ServeRead
<1>4. ASSUME NEW m \in Machines, Stream(m) PROVE LogOK'
    BY <1>4 DEF Stream, StartFollowing, ResumeFollowing, Deliver, HomeReady, AwayReady
<1>5. ASSUME NEW m \in Machines, Thread(m) PROVE LogOK'
    BY <1>5 DEF Thread, DiskShown, EnsureResumes, EnsureReads, ReadAnswered, ResumeAnswered, ResumeTimesOut
<1>6. ASSUME NEW m \in Machines, User(m) PROVE LogOK'
    BY <1>6 DEF User, Open, Close, Prefetch, Evict, Save
<1>7. ASSUME NEW m \in Machines, Network(m) PROVE LogOK'
    BY <1>7 DEF Network, LinkUp, LinkDown, Lagged
<1> QED BY <1>1, <1>2, <1>3, <1>4, <1>5, <1>6, <1>7, Zenon DEF Next

\* The budget.
LEMMA LeftStep == LeftOK /\ [Next]_vars => LeftOK'
<1> SUFFICES ASSUME LeftOK, [Next]_vars PROVE LeftOK'
    OBVIOUS
<1> USE DEF LeftOK, Budget
<1>1. CASE UNCHANGED vars
    BY <1>1 DEF vars
<1>2. CASE Relaunch
    BY <1>2 DEF Relaunch, Started
<1>3. ASSUME NEW m \in Machines, NewEvent(m) \/ Daemon(m) PROVE LeftOK'
    BY <1>3 DEF NewEvent, Daemon, ServeSubscribe, ServeRead
<1>4. ASSUME NEW m \in Machines, Stream(m) PROVE LeftOK'
    BY <1>4 DEF Stream, StartFollowing, ResumeFollowing, Deliver, HomeReady, AwayReady
<1>5. ASSUME NEW m \in Machines, Thread(m) PROVE LeftOK'
    BY <1>5 DEF Thread, DiskShown, EnsureResumes, EnsureReads, ReadAnswered, ResumeAnswered, ResumeTimesOut
<1>6. ASSUME NEW m \in Machines, User(m) PROVE LeftOK'
    BY <1>6 DEF User, Open, Close, Prefetch, Evict, Save
<1>7. ASSUME NEW m \in Machines, Network(m) PROVE LeftOK'
    BY <1>7 DEF Network, LinkUp, LinkDown, Lagged
<1> QED BY <1>1, <1>2, <1>3, <1>4, <1>5, <1>6, <1>7, Zenon DEF Next

\* Connections and screens.
LEMMA LinkStep == LinkOK /\ [Next]_vars => LinkOK'
<1> SUFFICES ASSUME LinkOK, [Next]_vars PROVE LinkOK'
    OBVIOUS
<1> USE DEF LinkOK, connection, screen
<1>1. CASE UNCHANGED vars
    BY <1>1, Zenon DEF vars
<1>2. CASE Relaunch
    BY <1>2, Zenon DEF Relaunch, Started
<1>3. ASSUME NEW m \in Machines, NewEvent(m) \/ Daemon(m) PROVE LinkOK'
    BY <1>3, Zenon DEF NewEvent, Daemon, ServeSubscribe, ServeRead
<1>4. ASSUME NEW m \in Machines, Stream(m) PROVE LinkOK'
    BY <1>4, Zenon DEF Stream, StartFollowing, ResumeFollowing, Deliver, HomeReady, AwayReady
<1>5. ASSUME NEW m \in Machines, Thread(m) PROVE LinkOK'
    BY <1>5, Zenon DEF Thread, DiskShown, EnsureResumes, EnsureReads, ReadAnswered, ResumeAnswered, ResumeTimesOut
<1>6. ASSUME NEW m \in Machines, User(m) PROVE LinkOK'
    BY <1>6, Zenon DEF User, Open, Close, Prefetch, Evict, Save
<1>7. ASSUME NEW m \in Machines, Network(m) PROVE LinkOK'
    BY <1>7, Zenon DEF Network, LinkUp, LinkDown, Lagged
<1> QED BY <1>1, <1>2, <1>3, <1>4, <1>5, <1>6, <1>7, Zenon DEF Next

\* The subscriptions.
LEMMA StreamStep == StreamOK /\ [Next]_vars => StreamOK'
<1> SUFFICES ASSUME StreamOK, [Next]_vars PROVE StreamOK'
    OBVIOUS
<1> USE DEF StreamOK, Streams, connection
<1>1. CASE UNCHANGED vars
    BY <1>1 DEF vars
<1>2. CASE Relaunch
    BY <1>2 DEF Relaunch, Started
<1>3. ASSUME NEW m \in Machines, NewEvent(m) \/ Daemon(m) PROVE StreamOK'
    BY <1>3 DEF NewEvent, Daemon, ServeSubscribe, ServeRead
<1>4. ASSUME NEW m \in Machines, Stream(m) PROVE StreamOK'
    BY <1>4 DEF Stream, StartFollowing, ResumeFollowing, Deliver, HomeReady, AwayReady, Loads, Subscribed
<1>5. ASSUME NEW m \in Machines, Thread(m) PROVE StreamOK'
    BY <1>5 DEF Thread, DiskShown, EnsureResumes, EnsureReads, ReadAnswered, ResumeAnswered, ResumeTimesOut, Loads, Subscribed
<1>6. ASSUME NEW m \in Machines, User(m) PROVE StreamOK'
    BY <1>6 DEF User, Open, Close, Prefetch, Evict, Save, Loads, Subscribed
<1>7. ASSUME NEW m \in Machines, Network(m) PROVE StreamOK'
    BY <1>7 DEF Network, LinkUp, LinkDown, Lagged
<1> QED BY <1>1, <1>2, <1>3, <1>4, <1>5, <1>6, <1>7, Zenon DEF Next

\* The cursors.
LEMMA CursorStep == CursorOK /\ StreamOK /\ LogOK /\ Followed /\ [Next]_vars => CursorOK' /\ Followed'
<1> SUFFICES ASSUME CursorOK, StreamOK, LogOK, Followed, [Next]_vars PROVE CursorOK' /\ Followed'
    OBVIOUS
<1> USE PhoneAssumption DEF CursorOK, StreamOK, Streams, LogOK, Followed, Following, connection
<1>1. CASE UNCHANGED vars
    BY <1>1 DEF vars
<1>2. CASE Relaunch
    BY <1>2 DEF Relaunch, Started
<1>3. ASSUME NEW m \in Machines, NewEvent(m) \/ Daemon(m) PROVE CursorOK' /\ Followed'
    BY <1>3 DEF NewEvent, Daemon, ServeSubscribe, ServeRead
<1>4. ASSUME NEW m \in Machines, Stream(m) PROVE CursorOK' /\ Followed'
    BY <1>4 DEF Stream, StartFollowing, ResumeFollowing, Deliver, HomeReady, AwayReady, AtBarrier, Loads, Subscribed
<1>5. ASSUME NEW m \in Machines, Thread(m) PROVE CursorOK' /\ Followed'
    BY <1>5 DEF Thread, DiskShown, EnsureResumes, EnsureReads, ReadAnswered, ResumeAnswered, ResumeTimesOut, Loads, Subscribed
<1>6. ASSUME NEW m \in Machines, User(m) PROVE CursorOK' /\ Followed'
    BY <1>6 DEF User, Open, Close, Prefetch, Evict, Save, Loads, Subscribed
<1>7. ASSUME NEW m \in Machines, Network(m) PROVE CursorOK' /\ Followed'
    BY <1>7 DEF Network, LinkUp, LinkDown, Lagged
<1> QED BY <1>1, <1>2, <1>3, <1>4, <1>5, <1>6, <1>7, Zenon DEF Next

\* Where a copy is from.
LEMMA RestoredStep == RestoredOK /\ [Next]_vars => RestoredOK'
<1> SUFFICES ASSUME RestoredOK, [Next]_vars PROVE RestoredOK'
    OBVIOUS
<1> USE DEF RestoredOK
<1>1. CASE UNCHANGED vars
    BY <1>1, Zenon DEF vars
<1>2. CASE Relaunch
    BY <1>2, Zenon DEF Relaunch, Started
<1>3. ASSUME NEW m \in Machines, NewEvent(m) \/ Daemon(m) PROVE RestoredOK'
    BY <1>3, Zenon DEF NewEvent, Daemon, ServeSubscribe, ServeRead
<1>4. ASSUME NEW m \in Machines, Stream(m) PROVE RestoredOK'
    BY <1>4, Zenon DEF Stream, StartFollowing, ResumeFollowing, Deliver, HomeReady, AwayReady
<1>5. ASSUME NEW m \in Machines, Thread(m) PROVE RestoredOK'
    BY <1>5, Zenon DEF Thread, DiskShown, EnsureResumes, EnsureReads, ReadAnswered, ResumeAnswered, ResumeTimesOut, Restore
<1>6. ASSUME NEW m \in Machines, User(m) PROVE RestoredOK'
    BY <1>6, Zenon DEF User, Open, Close, Prefetch, Evict, Save
<1>7. ASSUME NEW m \in Machines, Network(m) PROVE RestoredOK'
    BY <1>7, Zenon DEF Network, LinkUp, LinkDown, Lagged
<1> QED BY <1>1, <1>2, <1>3, <1>4, <1>5, <1>6, <1>7, Zenon DEF Next

\* Reads of the disk.
LEMMA ReadingStep == ReadingOK /\ [Next]_vars => ReadingOK'
<1> SUFFICES ASSUME ReadingOK, [Next]_vars PROVE ReadingOK'
    OBVIOUS
<1> USE DEF ReadingOK, screen, Ensures
<1>1. CASE UNCHANGED vars
    BY <1>1 DEF vars
<1>2. CASE Relaunch
    BY <1>2 DEF Relaunch, Started
<1>3. ASSUME NEW m \in Machines, NewEvent(m) \/ Daemon(m) PROVE ReadingOK'
    BY <1>3 DEF NewEvent, Daemon, ServeSubscribe, ServeRead
<1>4. ASSUME NEW m \in Machines, Stream(m) PROVE ReadingOK'
    BY <1>4 DEF Stream, StartFollowing, ResumeFollowing, Deliver, HomeReady, AwayReady
<1>5. ASSUME NEW m \in Machines, Thread(m) PROVE ReadingOK'
    BY <1>5 DEF Thread, DiskShown, EnsureResumes, EnsureReads, ReadAnswered, ResumeAnswered, ResumeTimesOut
<1>6. ASSUME NEW m \in Machines, User(m) PROVE ReadingOK'
    BY <1>6 DEF User, Open, Close, Prefetch, Evict, Save
<1>7. ASSUME NEW m \in Machines, Network(m) PROVE ReadingOK'
    BY <1>7 DEF Network, LinkUp, LinkDown, Lagged
<1> QED BY <1>1, <1>2, <1>3, <1>4, <1>5, <1>6, <1>7, Zenon DEF Next

\* What a step does to the transcript in memory.
Moves(t) ==
    \/ copy'[t] = copy[t]
    \/ copy'[t] = None /\ (Relaunch \/ Evict(t))
    \/ copy[t] = None /\ copy'[t] = disk[t] /\ (DiskShown(t) \/ EnsureResumes(t) \/ EnsureReads(t))
    \/ /\ Deliver(t) /\ copy[t] # None
       /\ copy'[t] = Apply(copy[t], cursor[t] + 1, cursor[t] + 1)
    \/ /\ ReadAnswered(t)
       /\ copy'[t] = Apply([last |-> load[t].answer, whole |-> TRUE], load[t].from, load[t].to)
    \/ /\ ResumeAnswered(t)
       /\ copy'[t] = Apply(Apply(copy[t], copy[t].last + 1, load[t].answer), load[t].from, load[t].to)
    \/ /\ ResumeTimesOut(t)
       /\ \E last \in 0 .. head[t] : copy'[t] = Apply(copy[t], copy[t].last + 1, last)

LEMMA CopyMoves == ASSUME CopyOK, [Next]_vars, NEW t \in Machines PROVE Moves(t)
<1> USE DEF CopyOK, cache, Restore
<1>1. CASE UNCHANGED vars
    BY <1>1 DEF vars, Moves
<1>2. CASE Relaunch
    BY <1>2 DEF Relaunch, Started, Moves
<1>3. ASSUME NEW m \in Machines, NewEvent(m) \/ Daemon(m) PROVE Moves(t)
    BY <1>3 DEF NewEvent, Daemon, ServeSubscribe, ServeRead, Moves
<1>4. ASSUME NEW m \in Machines, Stream(m) PROVE Moves(t)
  <2>1. CASE Deliver(m)
    <3>1. copy' = copy \/ (copy[m] # None /\ copy' = [copy EXCEPT ![m] = Apply(@, cursor[m] + 1, cursor[m] + 1)])
        BY <2>1 DEF Deliver, Fresh, CanReplay
    <3> QED BY <2>1, <3>1 DEF Moves
  <2>2. CASE StartFollowing(m) \/ ResumeFollowing(m) \/ (m = Home /\ HomeReady) \/ AwayReady(m)
    <3>1. copy' = copy
        BY <2>2 DEF StartFollowing, ResumeFollowing, HomeReady, AwayReady
    <3> QED BY <3>1 DEF Moves
  <2> QED BY <1>4, <2>1, <2>2, Zenon DEF Stream
<1>5. ASSUME NEW m \in Machines, Thread(m) PROVE Moves(t)
  <2>1. CASE DiskShown(m) \/ EnsureResumes(m) \/ EnsureReads(m)
    <3>1. copy' = copy \/ (copy[m] = None /\ copy' = [copy EXCEPT ![m] = disk[m]])
        BY <2>1 DEF DiskShown, EnsureResumes, EnsureReads
    <3> QED BY <2>1, <3>1 DEF Moves
  <2>2. CASE ReadAnswered(m)
    <3>1. copy' = [copy EXCEPT ![m] = Apply([last |-> load[m].answer, whole |-> TRUE], load[m].from, load[m].to)]
        BY <2>2 DEF ReadAnswered
    <3> QED BY <2>2, <3>1 DEF Moves
  <2>3. CASE ResumeAnswered(m)
    <3>1. copy' = [copy EXCEPT ![m] = Apply(Apply(@, @.last + 1, load[m].answer), load[m].from, load[m].to)]
        BY <2>3 DEF ResumeAnswered
    <3> QED BY <2>3, <3>1 DEF Moves
  <2>4. CASE ResumeTimesOut(m)
    <3>1. PICK last \in 0 .. head[m] : copy' = [copy EXCEPT ![m] = Apply(@, @.last + 1, last)]
        BY <2>4 DEF ResumeTimesOut
    <3> QED BY <2>4, <3>1 DEF Moves
  <2> QED BY <1>5, <2>1, <2>2, <2>3, <2>4, Zenon DEF Thread
<1>6. ASSUME NEW m \in Machines, User(m) PROVE Moves(t)
  <2>1. CASE Evict(m)
      BY <2>1 DEF Evict, Moves
  <2>2. CASE Open(m) \/ Close(m) \/ Prefetch(m) \/ Save(m)
      BY <2>2 DEF Open, Close, Prefetch, Save, Moves
  <2> QED BY <1>6, <2>1, <2>2, Zenon DEF User
<1>7. ASSUME NEW m \in Machines, Network(m) PROVE Moves(t)
    BY <1>7 DEF Network, LinkUp, LinkDown, Lagged, Moves
<1> QED BY <1>1, <1>2, <1>3, <1>4, <1>5, <1>6, <1>7, Zenon DEF Next

\* The transcripts in memory.
LEMMA CopyStep == CopyOK /\ DiskOK /\ LogOK /\ CursorOK /\ Followed /\ LoadOK /\ Resumable /\ [Next]_vars => CopyOK'
<1> SUFFICES ASSUME CopyOK, DiskOK, LogOK, CursorOK, Followed, LoadOK, Resumable, [Next]_vars PROVE CopyOK'
    OBVIOUS
<1> USE PhoneAssumption DEF CopyOK, DiskOK, LogOK, CursorOK, LoadOK, LoadsOut, cache, Restore
<1>1. CASE UNCHANGED vars
    BY <1>1 DEF vars
<1>2. CASE Relaunch
    BY <1>2 DEF Relaunch, Started
<1>3. ASSUME NEW m \in Machines, NewEvent(m) \/ Daemon(m) PROVE CopyOK'
    BY <1>3 DEF NewEvent, Daemon, ServeSubscribe, ServeRead
<1>4. ASSUME NEW m \in Machines, Stream(m) PROVE CopyOK'
  <2>1. CASE Deliver(m)
    <3>1. cursor[m] \in Nat
      BY <2>1 DEF Deliver, Followed
    <3>2. ASSUME copy[m] # None PROVE Apply(copy[m], cursor[m] + 1, cursor[m] + 1) \in Copies
      <4>1. copy[m] \in Copies /\ cursor[m] + 1 \in Nat
          BY <3>1, <3>2
      <4> QED BY <4>1, ApplyType
    <3>3. Fresh(m) \/ CanReplay(m) => copy[m] # None
      BY DEF Fresh, CanReplay
    <3> QED BY <2>1, <3>2, <3>3 DEF Deliver
  <2>2. CASE StartFollowing(m) \/ ResumeFollowing(m) \/ HomeReady \/ AwayReady(m)
    BY <2>2 DEF StartFollowing, ResumeFollowing, HomeReady, AwayReady
  <2> QED BY <1>4, <2>1, <2>2, Zenon DEF Stream
<1>5. ASSUME NEW m \in Machines, Thread(m) PROVE CopyOK'
  <2>1. CASE DiskShown(m) \/ EnsureResumes(m) \/ EnsureReads(m)
    BY <2>1 DEF DiskShown, EnsureResumes, EnsureReads
  <2>3. CASE ReadAnswered(m)
    <3>1. load[m].answer \in Nat /\ load[m].from \in Nat /\ load[m].to \in Nat
      BY <2>3 DEF ReadAnswered
    <3>2. [last |-> load[m].answer, whole |-> TRUE] \in Copies
      BY <3>1 DEF Copies
    <3>3. Apply([last |-> load[m].answer, whole |-> TRUE], load[m].from, load[m].to) \in Copies
      BY <3>1, <3>2, ApplyType
    <3> QED BY <2>3, <3>3 DEF ReadAnswered
  <2>4. CASE ResumeAnswered(m)
    <3>1. load[m].answer \in Nat /\ load[m].from \in Nat /\ load[m].to \in Nat
      BY <2>4 DEF ResumeAnswered
    <3>2. copy[m] \in Copies
      BY <2>4 DEF ResumeAnswered, Resumable
    <3>3. copy[m].last + 1 \in Nat
      BY <3>2 DEF Copies
    <3>4. Apply(copy[m], copy[m].last + 1, load[m].answer) \in Copies
      BY <3>1, <3>2, <3>3, ApplyType
    <3>5. Apply(Apply(copy[m], copy[m].last + 1, load[m].answer), load[m].from, load[m].to) \in Copies
      BY <3>1, <3>4, ApplyType
    <3> QED BY <2>4, <3>5 DEF ResumeAnswered
  <2>5. CASE ResumeTimesOut(m)
    <3>1. copy[m] \in Copies /\ head[m] \in Nat
      BY <2>5 DEF ResumeTimesOut, Resumable
    <3>2. copy[m].last + 1 \in Nat
      BY <3>1 DEF Copies
    <3>3. PICK last \in 0 .. head[m] : copy' = [copy EXCEPT ![m] = Apply(@, @.last + 1, last)]
      BY <2>5 DEF ResumeTimesOut
    <3>4. last \in Nat
      BY <3>1
    <3>5. Apply(copy[m], copy[m].last + 1, last) \in Copies
      BY <3>1, <3>2, <3>4, ApplyType
    <3> QED BY <3>1, <3>3, <3>5
  <2> QED BY <1>5, <2>1, <2>3, <2>4, <2>5, Zenon DEF Thread
<1>6. ASSUME NEW m \in Machines, User(m) PROVE CopyOK'
    BY <1>6 DEF User, Open, Close, Prefetch, Evict, Save
<1>7. ASSUME NEW m \in Machines, Network(m) PROVE CopyOK'
    BY <1>7 DEF Network, LinkUp, LinkDown, Lagged
<1> QED BY <1>1, <1>2, <1>3, <1>4, <1>5, <1>6, <1>7, Zenon DEF Next

\* The transcripts on disk.
LEMMA DiskStep == DiskOK /\ CopyOK /\ [Next]_vars => DiskOK'
<1> SUFFICES ASSUME DiskOK, CopyOK, [Next]_vars PROVE DiskOK'
    OBVIOUS
<1> USE DEF DiskOK, CopyOK, Fresh
<1>1. CASE UNCHANGED vars
    BY <1>1 DEF vars
<1>2. CASE Relaunch
    BY <1>2 DEF Relaunch, Started
<1>3. ASSUME NEW m \in Machines, NewEvent(m) \/ Daemon(m) PROVE DiskOK'
    BY <1>3 DEF NewEvent, Daemon, ServeSubscribe, ServeRead
<1>4. ASSUME NEW m \in Machines, Stream(m) PROVE DiskOK'
    BY <1>4 DEF Stream, StartFollowing, ResumeFollowing, Deliver, HomeReady, AwayReady
<1>5. ASSUME NEW m \in Machines, Thread(m) PROVE DiskOK'
    BY <1>5 DEF Thread, DiskShown, EnsureResumes, EnsureReads, ReadAnswered, ResumeAnswered, ResumeTimesOut
<1>6. ASSUME NEW m \in Machines, User(m) PROVE DiskOK'
    BY <1>6 DEF User, Open, Close, Prefetch, Evict, Save
<1>7. ASSUME NEW m \in Machines, Network(m) PROVE DiskOK'
    BY <1>7 DEF Network, LinkUp, LinkDown, Lagged
<1> QED BY <1>1, <1>2, <1>3, <1>4, <1>5, <1>6, <1>7, Zenon DEF Next

\* Only an eviction, or a new start, takes a transcript out of memory.
LEMMA CopyStays ==
    ASSUME CopyOK, LoadOK, CursorOK, Followed, Resumable, [Next]_vars,
           NEW t \in Machines, copy'[t] = None
    PROVE  Relaunch \/ Evict(t) \/ (copy[t] = None /\ ~ReadAnswered(t) /\ ~ResumeAnswered(t))
<1> USE PhoneAssumption DEF CopyOK, LoadOK, LoadsOut
<1>1. None \notin Copies
    BY DEF Copies
<1>2. CASE Deliver(t) /\ copy[t] # None /\ copy'[t] = Apply(copy[t], cursor[t] + 1, cursor[t] + 1)
  <2>1. copy[t] \in Copies /\ cursor[t] + 1 \in Nat
      BY <1>2 DEF Deliver, Followed, CursorOK
  <2> QED BY <1>1, <1>2, <2>1, ApplyType
<1>3. CASE ReadAnswered(t)
  <2>1. load[t].from \in Nat /\ load[t].to \in Nat /\ load[t].answer \in Nat
      BY <1>3 DEF ReadAnswered
  <2>2. [last |-> load[t].answer, whole |-> TRUE] \in Copies
      BY <2>1 DEF Copies
  <2>3. copy'[t] = Apply([last |-> load[t].answer, whole |-> TRUE], load[t].from, load[t].to)
      BY <1>3 DEF ReadAnswered
  <2> QED BY <1>1, <2>1, <2>2, <2>3, ApplyType
<1>4. CASE ResumeAnswered(t)
  <2>1. load[t].from \in Nat /\ load[t].to \in Nat /\ load[t].answer \in Nat
      BY <1>4 DEF ResumeAnswered
  <2>2. copy[t] \in Copies /\ copy[t].last + 1 \in Nat
      BY <1>4 DEF ResumeAnswered, Resumable, Copies
  <2>3. Apply(copy[t], copy[t].last + 1, load[t].answer) \in Copies
      BY <2>1, <2>2, ApplyType
  <2>4. copy'[t] = Apply(Apply(copy[t], copy[t].last + 1, load[t].answer), load[t].from, load[t].to)
      BY <1>4 DEF ResumeAnswered
  <2> QED BY <1>1, <2>1, <2>3, <2>4, ApplyType
<1>5. CASE ResumeTimesOut(t) /\ \E last \in 0 .. head[t] : copy'[t] = Apply(copy[t], copy[t].last + 1, last)
  <2>1. PICK last \in 0 .. head[t] : copy'[t] = Apply(copy[t], copy[t].last + 1, last)
      BY <1>5
  <2>2. copy[t] \in Copies /\ copy[t].last + 1 \in Nat
      BY <1>5 DEF ResumeTimesOut, Resumable, Copies
  <2>3. copy'[t] \in {copy[t]} \union {[last |-> last, whole |-> w] : w \in BOOLEAN}
      BY <2>1, Zenon DEF Apply
  <2>4. last \in Nat \/ copy'[t] = copy[t]
      BY <2>1, <2>2 DEF Apply, Copies
  <2> QED BY <1>1, <2>2, <2>3, <2>4 DEF Copies
<1>6. CASE copy'[t] = copy[t] /\ ~ReadAnswered(t) /\ ~ResumeAnswered(t)
    BY <1>6
<1>7. CASE copy[t] = None /\ copy'[t] = disk[t] /\ ~ReadAnswered(t) /\ ~ResumeAnswered(t)
    BY <1>7
<1> QED BY <1>2, <1>3, <1>4, <1>5, <1>6, <1>7, CopyMoves, Zenon DEF Moves

\* The marks of ThreadCache.
LEMMA MarkStep == MarkOK /\ [Next]_vars => MarkOK'
<1> SUFFICES ASSUME MarkOK, [Next]_vars PROVE MarkOK'
    OBVIOUS
<1> USE DEF MarkOK, cache, InvalidateAll, Bumped, BeginReplay, FinishReplay, Marked, Restore
<1>1. CASE UNCHANGED vars
    BY <1>1 DEF vars
<1>2. CASE Relaunch
    BY <1>2 DEF Relaunch, Started
<1>3. ASSUME NEW m \in Machines, NewEvent(m) \/ Daemon(m) PROVE MarkOK'
    BY <1>3 DEF NewEvent, Daemon, ServeSubscribe, ServeRead
<1>4. ASSUME NEW m \in Machines, Stream(m) PROVE MarkOK'
    BY <1>4 DEF Stream, StartFollowing, ResumeFollowing, Deliver, HomeReady, AwayReady
<1>5. ASSUME NEW m \in Machines, Thread(m) PROVE MarkOK'
    BY <1>5 DEF Thread, DiskShown, EnsureResumes, EnsureReads, ReadAnswered, ResumeAnswered, ResumeTimesOut
<1>6. ASSUME NEW m \in Machines, User(m) PROVE MarkOK'
    BY <1>6 DEF User, Open, Close, Prefetch, Evict, Save
<1>7. ASSUME NEW m \in Machines, Network(m) PROVE MarkOK'
    BY <1>7 DEF Network, LinkUp, LinkDown, Lagged
<1> QED BY <1>1, <1>2, <1>3, <1>4, <1>5, <1>6, <1>7, Zenon DEF Next

\* What is not in memory has no mark, and nothing takes it up.
LEMMA NoMarkStep ==
    ASSUME CopyOK, LoadOK, CursorOK, MarkOK, KeptOK, Followed, Resumable, Replayable, NoMark, [Next]_vars
    PROVE  NoMark' /\ Replayable'
<1> SUFFICES ASSUME NEW t \in Machines, copy'[t] = None
             PROVE  stale'[t] = 0 /\ (replay' # None => replay'[t] = None)
    BY DEF NoMark, Replayable
<1>1. CASE Relaunch
    BY <1>1 DEF Relaunch, Started
<1>2. CASE Evict(t)
    BY <1>2, PhoneAssumption DEF Evict, MarkOK, KeptOK
<1> SUFFICES ASSUME copy[t] = None, ~Relaunch, ~ReadAnswered(t), ~ResumeAnswered(t)
             PROVE  stale'[t] = 0 /\ (replay' # None => replay'[t] = None)
    BY <1>1, <1>2, CopyStays, Zenon
<1>0. stale[t] = 0 /\ (replay # None => replay[t] = None) /\ ~Fresh(t) /\ ~CanReplay(t)
    BY DEF NoMark, Replayable, Fresh, CanReplay
<1> USE <1>0, PhoneAssumption DEF MarkOK, KeptOK, cache, InvalidateAll, Bumped, BeginReplay, FinishReplay, Marked,
        Restore
<1>3. CASE UNCHANGED vars
    BY <1>3 DEF vars
<1>4. ASSUME NEW m \in Machines, NewEvent(m) \/ Daemon(m) PROVE stale'[t] = 0 /\ (replay' # None => replay'[t] = None)
    BY <1>4 DEF NewEvent, Daemon, ServeSubscribe, ServeRead
<1>5. ASSUME NEW m \in Machines, Stream(m) PROVE stale'[t] = 0 /\ (replay' # None => replay'[t] = None)
    BY <1>5 DEF Stream, StartFollowing, ResumeFollowing, Deliver, HomeReady, AwayReady
<1>6. ASSUME NEW m \in Machines, Thread(m) PROVE stale'[t] = 0 /\ (replay' # None => replay'[t] = None)
  <2>1. CASE ReadAnswered(m) \/ ResumeAnswered(m)
    <3>1. m # t
        BY <2>1
    <3> QED BY <2>1, <3>1 DEF ReadAnswered, ResumeAnswered
  <2>2. CASE DiskShown(m) \/ EnsureResumes(m) \/ EnsureReads(m) \/ ResumeTimesOut(m)
      BY <2>2 DEF DiskShown, EnsureResumes, EnsureReads, ResumeTimesOut, CopyOK
  <2> QED BY <1>6, <2>1, <2>2, Zenon DEF Thread
<1>7. ASSUME NEW m \in Machines, User(m) PROVE stale'[t] = 0 /\ (replay' # None => replay'[t] = None)
    BY <1>7 DEF User, Open, Close, Prefetch, Evict, Save
<1>8. ASSUME NEW m \in Machines, Network(m) PROVE stale'[t] = 0 /\ (replay' # None => replay'[t] = None)
    BY <1>8 DEF Network, LinkUp, LinkDown, Lagged
<1> QED BY <1>3, <1>4, <1>5, <1>6, <1>7, <1>8, Zenon DEF Next

\* What a replay may take up.
LEMMA KeptStep == KeptOK /\ MarkOK /\ [Next]_vars => KeptOK'
<1> SUFFICES ASSUME KeptOK, MarkOK, [Next]_vars PROVE KeptOK'
    OBVIOUS
<1> USE PhoneAssumption DEF KeptOK, MarkOK, Revisions, cache, InvalidateAll, BeginReplay, FinishReplay
<1>1. CASE UNCHANGED vars
    BY <1>1 DEF vars
<1>2. CASE Relaunch
    BY <1>2 DEF Relaunch, Started
<1>3. ASSUME NEW m \in Machines, NewEvent(m) \/ Daemon(m) PROVE KeptOK'
    BY <1>3 DEF NewEvent, Daemon, ServeSubscribe, ServeRead
<1>4. ASSUME NEW m \in Machines, Stream(m) PROVE KeptOK'
    BY <1>4 DEF Stream, StartFollowing, ResumeFollowing, Deliver, HomeReady, AwayReady
<1>5. ASSUME NEW m \in Machines, Thread(m) PROVE KeptOK'
    BY <1>5 DEF Thread, DiskShown, EnsureResumes, EnsureReads, ReadAnswered, ResumeAnswered, ResumeTimesOut
<1>6. ASSUME NEW m \in Machines, User(m) PROVE KeptOK'
    BY <1>6 DEF User, Open, Close, Prefetch, Evict, Save
<1>7. ASSUME NEW m \in Machines, Network(m) PROVE KeptOK'
    BY <1>7 DEF Network, LinkUp, LinkDown, Lagged
<1> QED BY <1>1, <1>2, <1>3, <1>4, <1>5, <1>6, <1>7, Zenon DEF Next

\* A read that goes out anew, from a mark of after the step.
LEMMA OutStep ==
    ASSUME MarkOK', NEW t \in Machines, NEW kind \in {"get", "resume"}
    PROVE  NoLoad \in LoadsOut /\ Out(kind, Revision(t)') \in LoadsOut
<1>1. Revision(t)' \in Revisions
    BY DEF Revision, Revisions, MarkOK
<1> QED BY <1>1, OutType

LEMMA LoadsType ==
    ASSUME LoadOK, MarkOK', NEW threads, NEW streams, Loads(threads, streams) PROVE LoadOK'
<1>1. \A t \in Machines : Out("get", Revision(t)') \in LoadsOut
    BY OutStep
<1> QED BY <1>1 DEF Loads, LoadOK

LEMMA Kinds ==
    /\ NoLoad.kind = "none"
    /\ \A kind, rev : Out(kind, rev).kind = kind
    /\ \A l \in LoadsOut, e \in Nat : Buffered(l, e).kind = l.kind
  BY DEF NoLoad, Out, Buffered, LoadsOut

\* Reads and resumes.
LEMMA LoadStep ==
    LoadOK /\ LogOK /\ CursorOK /\ Followed /\ MarkOK' /\ [Next]_vars => LoadOK'
<1> SUFFICES ASSUME LoadOK, LogOK, CursorOK, Followed, MarkOK', [Next]_vars PROVE LoadOK'
    OBVIOUS
<1> USE PhoneAssumption DEF LoadOK
<1>0. NoLoad \in LoadsOut
    BY DEF NoLoad, LoadsOut, Revisions
<1>1. CASE UNCHANGED vars
    BY <1>1 DEF vars
<1>2. CASE Relaunch
    BY <1>0, <1>2 DEF Relaunch, Started
<1>3. ASSUME NEW m \in Machines, NewEvent(m) \/ Daemon(m) PROVE LoadOK'
  <2>1. CASE NewEvent(m) \/ ServeSubscribe(m)
      BY <2>1 DEF NewEvent, ServeSubscribe
  <2>2. CASE ServeRead(m)
    <3>1. [load[m] EXCEPT !.answer = head[m]] \in LoadsOut
        BY DEF LogOK, LoadsOut
    <3> QED BY <2>2, <3>1 DEF ServeRead
  <2> QED BY <1>3, <2>1, <2>2 DEF Daemon
<1>4. ASSUME NEW m \in Machines, Stream(m) PROVE LoadOK'
  <2>1. CASE StartFollowing(m)
      BY <2>1, LoadsType DEF StartFollowing
  <2>2. CASE ResumeFollowing(m) \/ (m = Home /\ HomeReady)
      BY <2>2 DEF ResumeFollowing, HomeReady
  <2>3. CASE Deliver(m)
    <3>1. cursor[m] + 1 \in Nat
        BY <2>3 DEF Deliver, Followed, CursorOK
    <3>2. Buffered(load[m], cursor[m] + 1) \in LoadsOut
        BY <3>1, BufferedType
    <3> QED BY <2>3, <3>2 DEF Deliver
  <2>4. CASE AwayReady(m)
      BY <2>4, LoadsType DEF AwayReady
  <2> QED BY <1>4, <2>1, <2>2, <2>3, <2>4, Zenon DEF Stream
<1>5. ASSUME NEW m \in Machines, Thread(m) PROVE LoadOK'
  <2>1. CASE DiskShown(m)
      BY <2>1 DEF DiskShown
  <2>2. CASE EnsureResumes(m)
    <3>1. Out("resume", Revision(m)') \in LoadsOut
        BY OutStep
    <3> QED BY <2>2, <3>1 DEF EnsureResumes
  <2>3. CASE EnsureReads(m)
      BY <2>3, LoadsType DEF EnsureReads
  <2>4. CASE ReadAnswered(m)
      BY <1>0, <2>4 DEF ReadAnswered
  <2>5. CASE ResumeAnswered(m) \/ ResumeTimesOut(m)
    <3>1. Out("get", Revision(m)') \in LoadsOut
        BY OutStep
    <3> QED BY <1>0, <2>5, <3>1 DEF ResumeAnswered, ResumeTimesOut, ReadInstead
  <2> QED BY <1>5, <2>1, <2>2, <2>3, <2>4, <2>5, Zenon DEF Thread
<1>6. ASSUME NEW m \in Machines, User(m) PROVE LoadOK'
  <2>1. CASE Prefetch(m)
      BY <2>1, LoadsType DEF Prefetch
  <2>2. CASE Open(m) \/ Close(m) \/ Evict(m) \/ Save(m)
      BY <2>2 DEF Open, Close, Evict, Save
  <2> QED BY <1>6, <2>1, <2>2, Zenon DEF User
<1>7. ASSUME NEW m \in Machines, Network(m) PROVE LoadOK'
  <2>1. CASE LinkUp(m) \/ Lagged(m)
      BY <2>1 DEF LinkUp, Lagged
  <2>2. CASE LinkDown(m)
    <3>1. [load[m] EXCEPT !.answer = None] \in LoadsOut
        BY DEF LoadsOut
    <3> QED BY <1>0, <2>2, <3>1 DEF LinkDown
  <2> QED BY <1>7, <2>1, <2>2, Zenon DEF Network
<1> QED BY <1>1, <1>2, <1>3, <1>4, <1>5, <1>6, <1>7, Zenon DEF Next

\* A resume has a transcript to go on from.
LEMMA ResumableStep ==
    ASSUME CopyOK, LoadOK, CursorOK, Followed, Resumable, [Next]_vars PROVE Resumable'
<1> SUFFICES ASSUME NEW t \in Machines, load'[t].kind = "resume", copy'[t] = None PROVE FALSE
    BY DEF Resumable
<1> USE PhoneAssumption, Kinds DEF LoadOK
<1>1. CASE Relaunch
    BY <1>1 DEF Relaunch, Started
<1>2. CASE Evict(t)
    BY <1>2 DEF Evict
<1> SUFFICES ASSUME load[t].kind # "resume", ~Relaunch PROVE FALSE
    BY <1>1, <1>2, CopyStays, Zenon DEF Resumable
<1>3. CASE UNCHANGED vars
    BY <1>3 DEF vars
<1>4. ASSUME NEW m \in Machines, NewEvent(m) \/ Daemon(m) PROVE FALSE
    BY <1>4 DEF NewEvent, Daemon, ServeSubscribe, ServeRead, LoadsOut
<1>5. ASSUME NEW m \in Machines, Stream(m) PROVE FALSE
  <2>1. CASE Deliver(m)
    <3>1. cursor[m] + 1 \in Nat
        BY <2>1 DEF Deliver, Followed, CursorOK
    <3>2. load' = [load EXCEPT ![m] = Buffered(@, cursor[m] + 1)]
        BY <2>1 DEF Deliver
    <3> QED BY <3>1, <3>2
  <2>2. CASE StartFollowing(m) \/ AwayReady(m)
      BY <2>2 DEF StartFollowing, AwayReady, Loads
  <2>3. CASE ResumeFollowing(m) \/ (m = Home /\ HomeReady)
      BY <2>3 DEF ResumeFollowing, HomeReady
  <2> QED BY <1>5, <2>1, <2>2, <2>3, Zenon DEF Stream
<1>6. ASSUME NEW m \in Machines, Thread(m) PROVE FALSE
  <2>1. CASE EnsureResumes(m)
    <3>1. copy'[m] # None /\ load' = [load EXCEPT ![m] = Out("resume", Revision(m)')]
        BY <2>1 DEF EnsureResumes
    <3> QED BY <3>1
  <2>2. CASE EnsureReads(m)
      BY <2>2 DEF EnsureReads, Loads
  <2>3. CASE DiskShown(m) \/ ReadAnswered(m)
      BY <2>3 DEF DiskShown, ReadAnswered
  <2>4. CASE ResumeAnswered(m) \/ ResumeTimesOut(m)
      BY <2>4 DEF ResumeAnswered, ResumeTimesOut, ReadInstead
  <2> QED BY <1>6, <2>1, <2>2, <2>3, <2>4, Zenon DEF Thread
<1>7. ASSUME NEW m \in Machines, User(m) PROVE FALSE
  <2>1. CASE Prefetch(m)
      BY <2>1 DEF Prefetch, Loads
  <2>2. CASE Open(m) \/ Close(m) \/ Evict(m) \/ Save(m)
      BY <2>2 DEF Open, Close, Evict, Save
  <2> QED BY <1>7, <2>1, <2>2, Zenon DEF User
<1>8. ASSUME NEW m \in Machines, Network(m) PROVE FALSE
    BY <1>8 DEF Network, LinkUp, LinkDown, Lagged
<1> QED BY <1>3, <1>4, <1>5, <1>6, <1>7, <1>8, Zenon DEF Next

\* All of it.
LEMMA TypedStep == Typed /\ [Next]_vars => Typed'
<1> SUFFICES ASSUME Typed, [Next]_vars PROVE Typed'
    OBVIOUS
<1>1. /\ LogOK /\ LeftOK /\ LinkOK /\ StreamOK /\ CursorOK /\ CopyOK /\ DiskOK
      /\ MarkOK /\ NoMark /\ KeptOK /\ RestoredOK /\ ReadingOK /\ LoadOK
      /\ Followed /\ Resumable /\ Replayable
    BY Parts, Zenon DEF Typed
<1>2. LogOK' /\ LeftOK' /\ LinkOK' /\ StreamOK' /\ CursorOK' /\ Followed' /\ RestoredOK' /\ ReadingOK'
    BY <1>1, LogStep, LeftStep, LinkStep, StreamStep, CursorStep, RestoredStep, ReadingStep, Zenon
<1>3. CopyOK' /\ DiskOK' /\ MarkOK' /\ KeptOK'
    BY <1>1, CopyStep, DiskStep, MarkStep, KeptStep, Zenon
<1>4. LoadOK'
    BY <1>1, <1>3, LoadStep, Zenon
<1>5. NoMark' /\ Replayable' /\ Resumable'
    BY <1>1, NoMarkStep, ResumableStep
<1>6. TypeOK'
    BY <1>2, <1>3, <1>4, <1>5, Zenon DEF TypeOK, LogOK, LeftOK, LinkOK, StreamOK, Streams, CursorOK, CopyOK,
       DiskOK, MarkOK, NoMark, KeptOK, RestoredOK, ReadingOK, LoadOK, LoadsOut
<1> QED BY <1>2, <1>5, <1>6, Zenon DEF Typed

-----------------------------------------------------------------------------
(* The invariant of the transcripts.                                       *)

\* Nothing is known that has not happened.
Known ==
    \A t \in Machines :
        /\ barrier[t] <= head[t]
        /\ cursor[t] # None => cursor[t] <= head[t]
        /\ copy[t] # None => copy[t].last <= head[t]
        /\ disk[t] # None => disk[t].last <= head[t]
        /\ load[t].answer # None => load[t].answer <= head[t]
        /\ load[t].to # 0 => cursor[t] # None /\ load[t].to <= cursor[t]

\* A read that is answered, with what came meanwhile, is ahead of the copies.
Newer ==
    \A t \in Machines : load[t].kind = "get" /\ load[t].answer # None =>
        /\ copy[t] # None => copy[t].last <= load[t].answer \/ copy[t].last <= load[t].to
        /\ disk[t] # None => disk[t].last <= load[t].answer

-----------------------------------------------------------------------------
(* What a step does, seen from one thread.                                 *)


LEMMA TypedParts ==
    Typed => /\ LogOK /\ LeftOK /\ LinkOK /\ StreamOK /\ CursorOK /\ CopyOK /\ DiskOK
             /\ MarkOK /\ NoMark /\ KeptOK /\ RestoredOK /\ ReadingOK /\ LoadOK
             /\ Followed /\ Resumable /\ Replayable
  BY Parts, Zenon DEF Typed

\* Logs only grow.
LEMMA HeadGrows == ASSUME LogOK, [Next]_vars, NEW t \in Machines PROVE head[t] <= head'[t] /\ head'[t] \in Nat
<1> USE DEF LogOK, connection
<1>1. CASE UNCHANGED vars
    BY <1>1 DEF vars
<1>2. CASE Relaunch
    BY <1>2 DEF Relaunch
<1>3. ASSUME NEW m \in Machines, NewEvent(m) \/ Daemon(m) PROVE head[t] <= head'[t] /\ head'[t] \in Nat
    BY <1>3 DEF NewEvent, Daemon, ServeSubscribe, ServeRead
<1>4. ASSUME NEW m \in Machines, Stream(m) \/ Thread(m) \/ User(m) \/ Network(m) PROVE head' = head
    BY <1>4, Zenon DEF Stream, StartFollowing, ResumeFollowing, Deliver, HomeReady, AwayReady,
       Thread, DiskShown, EnsureResumes, EnsureReads, ReadAnswered, ResumeAnswered, ResumeTimesOut,
       User, Open, Close, Prefetch, Evict, Save, Network, LinkUp, LinkDown, Lagged
<1> QED BY <1>1, <1>2, <1>3, <1>4 DEF Next

\* What a step does to the read that is out.
LoadMoves(t) ==
    \/ load'[t] = load[t]
    \/ load'[t] = NoLoad
    \/ load'[t] = Out("get", Revision(t)') /\ load[t].kind \in {"none", "resume"} /\ Served(t)
    \/ load'[t] = Out("resume", Revision(t)') /\ EnsureResumes(t)
    \/ load'[t] = [load[t] EXCEPT !.answer = head[t]] /\ ServeRead(t)
    \/ load'[t] = [load[t] EXCEPT !.answer = None] /\ LinkDown(t)
    \/ load'[t] = Buffered(load[t], cursor[t] + 1) /\ Deliver(t)

LEMMA LoadMovesStep == ASSUME LoadOK, [Next]_vars, NEW t \in Machines PROVE LoadMoves(t)
<1> USE DEF LoadOK, LoadMoves
<1>1. CASE UNCHANGED vars
    BY <1>1 DEF vars
<1>2. CASE Relaunch
    BY <1>2 DEF Relaunch, Started
<1>3. ASSUME NEW m \in Machines, NewEvent(m) \/ Daemon(m) PROVE LoadMoves(t)
    BY <1>3 DEF NewEvent, Daemon, ServeSubscribe, ServeRead
<1>4. ASSUME NEW m \in Machines, Stream(m) PROVE LoadMoves(t)
  <2>1. CASE Deliver(m)
    <3>1. load' = [load EXCEPT ![m] = Buffered(@, cursor[m] + 1)]
        BY <2>1 DEF Deliver
    <3> QED BY <2>1, <3>1
  <2>2. CASE StartFollowing(m) \/ AwayReady(m)
      BY <2>2 DEF StartFollowing, AwayReady, Loads
  <2>3. CASE ResumeFollowing(m) \/ (m = Home /\ HomeReady)
      BY <2>3 DEF ResumeFollowing, HomeReady
  <2> QED BY <1>4, <2>1, <2>2, <2>3, Zenon DEF Stream
<1>5. ASSUME NEW m \in Machines, Thread(m) PROVE LoadMoves(t)
  <2>1. CASE EnsureResumes(m)
    <3>1. load' = [load EXCEPT ![m] = Out("resume", Revision(m)')]
        BY <2>1 DEF EnsureResumes
    <3> QED BY <2>1, <3>1
  <2>2. CASE EnsureReads(m)
      BY <2>2 DEF EnsureReads, Loads
  <2>3. CASE DiskShown(m) \/ ReadAnswered(m)
      BY <2>3 DEF DiskShown, ReadAnswered
  <2>4. CASE ResumeAnswered(m) \/ ResumeTimesOut(m)
    <3>1. load[m].kind = "resume" /\ (load' = [load EXCEPT ![m] = NoLoad] \/ ReadInstead(m))
        BY <2>4 DEF ResumeAnswered, ResumeTimesOut
    <3> QED BY <3>1 DEF ReadInstead
  <2> QED BY <1>5, <2>1, <2>2, <2>3, <2>4, Zenon DEF Thread
<1>6. ASSUME NEW m \in Machines, User(m) PROVE LoadMoves(t)
    BY <1>6 DEF User, Open, Close, Prefetch, Evict, Save, Loads
<1>7. ASSUME NEW m \in Machines, Network(m) PROVE LoadMoves(t)
  <2>1. CASE LinkUp(m) \/ Lagged(m)
      BY <2>1 DEF LinkUp, Lagged
  <2>2. CASE LinkDown(m)
    <3>1. load' = [load EXCEPT ![m] = IF @.kind = "resume" THEN [@ EXCEPT !.answer = None] ELSE NoLoad]
        BY <2>2 DEF LinkDown
    <3> QED BY <2>2, <3>1
  <2> QED BY <1>7, <2>1, <2>2, Zenon DEF Network
<1> QED BY <1>1, <1>2, <1>3, <1>4, <1>5, <1>6, <1>7, Zenon DEF Next

\* What a step does to a cursor.
LEMMA CursorMoves ==
    ASSUME CursorOK, StreamOK, [Next]_vars, NEW t \in Machines
    PROVE  \/ cursor'[t] = cursor[t]
           \/ Relaunch
           \/ StartFollowing(t) /\ cursor[t] = None /\ cursor'[t] = barrier[t]
           \/ Deliver(t) /\ cursor'[t] = cursor[t] + 1 /\ cursor[t] < head[t]
<1> USE DEF CursorOK, connection
<1>1. CASE UNCHANGED vars
    BY <1>1 DEF vars
<1>2. CASE Relaunch
    BY <1>2
<1>3. ASSUME NEW m \in Machines, NewEvent(m) \/ Daemon(m) \/ User(m) \/ Network(m) \/ Thread(m) PROVE cursor' = cursor
    BY <1>3, Zenon DEF NewEvent, Daemon, ServeSubscribe, ServeRead,
       Thread, DiskShown, EnsureResumes, EnsureReads, ReadAnswered, ResumeAnswered, ResumeTimesOut,
       User, Open, Close, Prefetch, Evict, Save, Network, LinkUp, LinkDown, Lagged
<1>4. ASSUME NEW m \in Machines, StartFollowing(m)
      PROVE  cursor[m] = None /\ cursor' = [cursor EXCEPT ![m] = barrier[m]]
    BY <1>4 DEF StartFollowing
<1>5. ASSUME NEW m \in Machines, Deliver(m)
      PROVE  cursor[m] < head[m] /\ cursor' = [cursor EXCEPT ![m] = cursor[m] + 1]
    BY <1>5 DEF Deliver
<1>6. ASSUME NEW m \in Machines, ResumeFollowing(m) \/ (m = Home /\ HomeReady) \/ AwayReady(m) PROVE cursor' = cursor
    BY <1>6, Zenon DEF ResumeFollowing, HomeReady, AwayReady
<1> QED BY <1>1, <1>2, <1>3, <1>4, <1>5, <1>6 DEF Next, Stream

\* What a step does to the copy on disk, and to the barrier.
LEMMA DiskMoves ==
    ASSUME LogOK, DiskOK, [Next]_vars, NEW t \in Machines
    PROVE  /\ disk'[t] = disk[t] \/ (Save(t) /\ disk'[t] = copy[t])
           /\ barrier'[t] = barrier[t] \/ barrier'[t] = head[t] \/ barrier'[t] = 0
<1> USE DEF LogOK, DiskOK, connection
<1>1. CASE UNCHANGED vars
    BY <1>1 DEF vars
<1>2. CASE Relaunch
    BY <1>2 DEF Relaunch, Started
<1>3. ASSUME NEW m \in Machines, ServeSubscribe(m)
      PROVE  barrier' = [barrier EXCEPT ![m] = head[m]] /\ disk' = disk
    BY <1>3 DEF ServeSubscribe
<1>4. ASSUME NEW m \in Machines, Save(m) PROVE barrier' = barrier /\ disk' = [disk EXCEPT ![m] = copy[m]]
    BY <1>4 DEF Save
<1>5. ASSUME NEW m \in Machines, NewEvent(m) \/ ServeRead(m) \/ Stream(m) \/ Thread(m) \/ Network(m)
      PROVE  barrier' = barrier /\ disk' = disk
    BY <1>5, Zenon DEF NewEvent, ServeRead, Stream, StartFollowing, ResumeFollowing, Deliver, HomeReady,
       AwayReady, Thread, DiskShown, EnsureResumes, EnsureReads, ReadAnswered, ResumeAnswered, ResumeTimesOut,
       Network, LinkUp, LinkDown, Lagged
<1>6. ASSUME NEW m \in Machines, Open(m) \/ Close(m) \/ Prefetch(m) \/ Evict(m)
      PROVE  barrier' = barrier /\ disk' = disk
    BY <1>6, Zenon DEF Open, Close, Prefetch, Evict
<1> QED BY <1>1, <1>2, <1>3, <1>4, <1>5, <1>6 DEF Next, Daemon, User

LEMMA BufferedFacts ==
    ASSUME NEW l \in LoadsOut, NEW e \in Nat
    PROVE  /\ Buffered(l, e).kind = l.kind /\ Buffered(l, e).answer = l.answer
           /\ l.kind = "none" => Buffered(l, e) = l
           /\ l.kind # "none" => /\ Buffered(l, e).to = e
                                 /\ l.to = 0 => Buffered(l, e).from = e
                                 /\ l.to # 0 => Buffered(l, e).from = l.from
<1>1. CASE l.kind = "none"
    BY <1>1 DEF Buffered
<1>2. CASE l.kind # "none" /\ l.to = 0
    BY <1>2 DEF Buffered, LoadsOut
<1>3. CASE l.kind # "none" /\ l.to # 0
    BY <1>3 DEF Buffered, LoadsOut
<1> QED BY <1>1, <1>2, <1>3

LEMMA OutFacts ==
    /\ NoLoad.kind = "none" /\ NoLoad.answer = None /\ NoLoad.to = 0
    /\ \A kind, rev : /\ Out(kind, rev).kind = kind /\ Out(kind, rev).answer = None
                      /\ Out(kind, rev).to = 0
  BY DEF NoLoad, Out

\* Nothing is known before it happened.
LEMMA KnownStep == Typed /\ Known /\ [Next]_vars => Known'
<1> SUFFICES ASSUME Typed, Known, [Next]_vars, NEW t \in Machines
             PROVE  /\ barrier'[t] <= head'[t]
                    /\ cursor'[t] # None => cursor'[t] <= head'[t]
                    /\ copy'[t] # None => copy'[t].last <= head'[t]
                    /\ disk'[t] # None => disk'[t].last <= head'[t]
                    /\ load'[t].answer # None => load'[t].answer <= head'[t]
                    /\ load'[t].to # 0 => cursor'[t] # None /\ load'[t].to <= cursor'[t]
    BY DEF Known
<1> USE PhoneAssumption
<1>0. /\ head[t] \in Nat /\ head'[t] \in Nat /\ head[t] <= head'[t] /\ barrier[t] \in Nat
      /\ cursor[t] \in Nat \union {None} /\ copy[t] \in Copies \union {None}
      /\ disk[t] \in Copies \union {None} /\ load[t] \in LoadsOut
    BY TypedParts, HeadGrows DEF LogOK, CursorOK, CopyOK, DiskOK, LoadOK
<1>1. barrier[t] <= head[t] /\ (cursor[t] # None => cursor[t] <= head[t])
    BY DEF Known
<1>2. (copy[t] # None => copy[t].last <= head[t]) /\ (disk[t] # None => disk[t].last <= head[t])
    BY DEF Known
<1>3. /\ load[t].answer # None => load[t].answer <= head[t]
      /\ load[t].to # 0 => cursor[t] # None /\ load[t].to <= cursor[t]
    BY DEF Known
<1>4. barrier'[t] <= head'[t]
    BY <1>0, <1>1, TypedParts, DiskMoves
<1>5. CASE Relaunch
    BY <1>0, <1>2, <1>4, <1>5, OutFacts DEF Relaunch, Started
<1> SUFFICES ASSUME ~Relaunch
             PROVE  /\ cursor'[t] # None => cursor'[t] <= head'[t]
                    /\ copy'[t] # None => copy'[t].last <= head'[t]
                    /\ disk'[t] # None => disk'[t].last <= head'[t]
                    /\ load'[t].answer # None => load'[t].answer <= head'[t]
                    /\ load'[t].to # 0 => cursor'[t] # None /\ load'[t].to <= cursor'[t]
    BY <1>4, <1>5, Zenon
<1>6. cursor'[t] # None => cursor'[t] <= head'[t]
  <2>1. CASE Deliver(t) /\ cursor'[t] = cursor[t] + 1 /\ cursor[t] < head[t]
    <3>1. cursor[t] \in Nat
        BY <1>0, <2>1, TypedParts DEF Deliver, Followed
    <3> QED BY <1>0, <2>1, <3>1
  <2>2. CASE cursor'[t] \in {cursor[t], barrier[t]}
      BY <1>0, <1>1, <2>2
  <2> QED BY <2>1, <2>2, TypedParts, CursorMoves
<1>7. disk'[t] # None => disk'[t].last <= head'[t]
    BY <1>0, <1>2, TypedParts, DiskMoves DEF Copies
<1>8. load'[t].answer # None => load'[t].answer <= head'[t]
  <2>1. LoadMoves(t)
      BY TypedParts, LoadMovesStep
  <2>2. CASE load'[t] = [load[t] EXCEPT !.answer = head[t]] \/ load'[t] = [load[t] EXCEPT !.answer = None]
      BY <1>0, <1>3, <2>2 DEF LoadsOut
  <2>3. CASE load'[t] = Buffered(load[t], cursor[t] + 1) /\ Deliver(t)
    <3>1. cursor[t] + 1 \in Nat
        BY <1>0, <2>3, TypedParts DEF Deliver, Followed
    <3> QED BY <1>0, <1>3, <2>3, <3>1, BufferedFacts DEF LoadsOut
  <2> QED BY <1>0, <1>3, <2>1, <2>2, <2>3, OutFacts DEF LoadMoves, LoadsOut
<1>9. load'[t].to # 0 => cursor'[t] # None /\ load'[t].to <= cursor'[t]
  <2>1. cursor[t] # None => cursor'[t] # None /\ cursor[t] <= cursor'[t]
      BY <1>0, TypedParts, CursorMoves
  <2>2. LoadMoves(t)
      BY TypedParts, LoadMovesStep
  <2>3. CASE load'[t].to = load[t].to
      BY <1>0, <1>3, <2>1, <2>3, TypedParts, CursorMoves DEF LoadsOut
  <2>4. CASE load'[t] = Buffered(load[t], cursor[t] + 1) /\ Deliver(t)
    <3>1. cursor[t] + 1 \in Nat /\ cursor'[t] = cursor[t] + 1
        BY <1>0, <2>4, TypedParts DEF Deliver, Followed, CursorOK
    <3>2. load'[t].to \in {load[t].to, cursor[t] + 1}
        BY <1>0, <2>4, <3>1, BufferedFacts
    <3> QED BY <1>0, <1>3, <2>3, <3>1, <3>2
  <2>5. CASE load'[t] = [load[t] EXCEPT !.answer = head[t]] \/ load'[t] = [load[t] EXCEPT !.answer = None]
      BY <1>0, <2>3, <2>5 DEF LoadsOut
  <2> QED BY <2>2, <2>3, <2>4, <2>5, OutFacts DEF LoadMoves
<1>10. copy'[t] # None => copy'[t].last <= head'[t]
  <2>0. copy'[t] # None => copy'[t].last \in Nat
    <3>1. CopyOK'
        BY TypedParts, CopyStep
    <3> QED BY <3>1 DEF CopyOK, Copies
  <2> SUFFICES ASSUME copy'[t] # None PROVE copy'[t].last <= head[t]
      BY <1>0, <2>0
  <2>1. Moves(t)
      BY TypedParts, CopyMoves
  <2>2. CASE Deliver(t) /\ copy[t] # None /\ copy'[t] = Apply(copy[t], cursor[t] + 1, cursor[t] + 1)
    <3>1. cursor[t] + 1 \in Nat /\ cursor[t] + 1 <= head[t]
        BY <1>0, <2>2, TypedParts DEF Deliver, Followed
    <3> QED BY <1>0, <1>2, <2>2, <3>1, ApplyFacts
  <2>3. CASE ReadAnswered(t) /\ copy'[t] = Apply([last |-> load[t].answer, whole |-> TRUE], load[t].from, load[t].to)
    <3>1. load[t].from \in Nat /\ load[t].to \in Nat /\ load[t].answer \in Nat /\ load[t].to <= head[t]
        BY <1>0, <1>1, <1>3, <2>3 DEF ReadAnswered, LoadsOut
    <3>2. [last |-> load[t].answer, whole |-> TRUE] \in Copies
        BY <3>1 DEF Copies
    <3> QED BY <1>3, <2>3, <3>1, <3>2, ApplyFacts
  <2>4. CASE /\ ResumeAnswered(t)
             /\ copy'[t] = Apply(Apply(copy[t], copy[t].last + 1, load[t].answer), load[t].from, load[t].to)
    <3>1. load[t].from \in Nat /\ load[t].to \in Nat /\ load[t].answer \in Nat /\ load[t].to <= head[t]
        BY <1>0, <1>1, <1>3, <2>4 DEF ResumeAnswered, LoadsOut
    <3>2. copy[t] \in Copies /\ copy[t].last + 1 \in Nat /\ copy[t].last <= head[t]
        BY <1>0, <1>2, <2>4, TypedParts DEF ResumeAnswered, Resumable, Copies
    <3>3. Apply(copy[t], copy[t].last + 1, load[t].answer) \in Copies
        BY <3>1, <3>2, ApplyType
    <3>4. Apply(copy[t], copy[t].last + 1, load[t].answer).last <= head[t]
        BY <1>3, <3>1, <3>2, ApplyFacts
    <3> QED BY <2>4, <3>1, <3>3, <3>4, ApplyFacts
  <2>5. CASE ResumeTimesOut(t) /\ \E last \in 0 .. head[t] : copy'[t] = Apply(copy[t], copy[t].last + 1, last)
    <3>1. PICK last \in 0 .. head[t] : copy'[t] = Apply(copy[t], copy[t].last + 1, last)
        BY <2>5
    <3>2. copy[t] \in Copies /\ copy[t].last + 1 \in Nat /\ copy[t].last <= head[t]
        BY <1>0, <1>2, <2>5, TypedParts DEF ResumeTimesOut, Resumable, Copies
    <3>3. last \in Nat /\ last <= head[t]
        BY <1>0
    <3> QED BY <3>1, <3>2, <3>3, ApplyFacts
  <2> QED BY <1>2, <2>1, <2>2, <2>3, <2>4, <2>5 DEF Moves
<1> QED BY <1>6, <1>7, <1>8, <1>9, <1>10

\* An answered read stays ahead.
LEMMA NewerStep == Typed /\ Known /\ Newer /\ [Next]_vars => Newer'
<1> SUFFICES ASSUME Typed, Known, Newer, [Next]_vars, NEW t \in Machines,
                    load'[t].kind = "get", load'[t].answer # None
             PROVE  /\ copy'[t] # None => copy'[t].last <= load'[t].answer \/ copy'[t].last <= load'[t].to
                    /\ disk'[t] # None => disk'[t].last <= load'[t].answer
    BY DEF Newer
<1> USE PhoneAssumption
<1>0. /\ head[t] \in Nat /\ cursor[t] \in Nat \union {None} /\ copy[t] \in Copies \union {None}
      /\ disk[t] \in Copies \union {None} /\ load[t] \in LoadsOut
    BY TypedParts DEF LogOK, CursorOK, CopyOK, DiskOK, LoadOK
<1>1. /\ cursor[t] # None => cursor[t] <= head[t]
      /\ (copy[t] # None => copy[t].last <= head[t]) /\ (disk[t] # None => disk[t].last <= head[t])
      /\ load[t].to # 0 => cursor[t] # None /\ load[t].to <= cursor[t]
    BY DEF Known
<1>2. load[t].kind = "get" /\ load[t].answer # None =>
          /\ copy[t] # None => copy[t].last <= load[t].answer \/ copy[t].last <= load[t].to
          /\ disk[t] # None => disk[t].last <= load[t].answer
    BY DEF Newer
<1>3. LoadMoves(t)
    BY TypedParts, LoadMovesStep
<1>4. CASE ServeRead(t)
  <2>1. load'[t] = [load[t] EXCEPT !.answer = head[t]] /\ copy' = copy /\ disk' = disk
      BY <1>4, TypedParts DEF ServeRead, cache, LoadOK
  <2> QED BY <1>0, <1>1, <2>1 DEF LoadsOut
<1>5. CASE Deliver(t)
  <2>1. load'[t] = Buffered(load[t], cursor[t] + 1) /\ disk' = disk
      BY <1>5, TypedParts DEF Deliver, LoadOK
  <2>2. copy'[t] \in {copy[t]} \union {Apply(copy[t], cursor[t] + 1, cursor[t] + 1)}
      BY <1>5, TypedParts DEF Deliver, CopyOK
  <2>3. cursor[t] \in Nat /\ cursor[t] + 1 \in Nat
      BY <1>0, <1>5, TypedParts DEF Deliver, Followed
  <2>4. /\ load'[t].kind = load[t].kind /\ load'[t].answer = load[t].answer
        /\ load'[t].to = cursor[t] + 1
      BY <1>0, <2>1, <2>3, BufferedFacts
  <2>5. copy[t] # None => copy[t].last \in Nat /\ (copy[t].last <= load'[t].answer \/ copy[t].last <= load'[t].to)
      BY <1>0, <1>1, <1>2, <2>3, <2>4 DEF LoadsOut, Copies
  <2>6. copy'[t] = copy[t] \/ (copy[t] # None => copy'[t].last \in {copy[t].last, cursor[t] + 1})
      BY <1>0, <2>2, <2>3, ApplyFacts
  <2>7. copy[t] = None => copy'[t] = None
      BY <1>5, TypedParts DEF Deliver, CopyOK, Fresh, CanReplay
  <2> QED BY <1>2, <2>1, <2>3, <2>4, <2>5, <2>6, <2>7
<1>6. CASE ReadAnswered(t) \/ ResumeAnswered(t) \/ ResumeTimesOut(t)
  <2>1. load'[t] = NoLoad \/ load'[t] = Out("get", Revision(t)')
      BY <1>6, TypedParts DEF ReadAnswered, ResumeAnswered, ResumeTimesOut, ReadInstead, LoadOK
  <2> QED BY <2>1, OutFacts
<1>7. CASE Save(t)
    BY <1>7 DEF Save
<1>8. CASE ~(ServeRead(t) \/ Deliver(t) \/ ReadAnswered(t) \/ ResumeAnswered(t) \/ ResumeTimesOut(t) \/ Save(t))
  <2>1. load'[t] = load[t]
      BY <1>0, <1>3, <1>8, OutFacts DEF LoadMoves, LoadsOut
  <2>2. disk'[t] = disk[t]
      BY <1>8, TypedParts, DiskMoves
  <2>3. copy'[t] \in {copy[t], None} \/ (copy[t] = None /\ copy'[t] = disk[t])
      BY <1>8, TypedParts, CopyMoves DEF Moves
  <2> QED BY <1>0, <1>2, <2>1, <2>2, <2>3 DEF LoadsOut, Copies
<1> QED BY <1>4, <1>5, <1>6, <1>7, <1>8

\* No transcript in memory goes back.
LEMMA ForwardStep == Typed /\ Known /\ Newer /\ [Next]_vars => Forward
<1> SUFFICES ASSUME Typed, Known, Newer, [Next]_vars, NEW t \in Machines, copy[t] # None, copy'[t] # None
             PROVE  copy[t].last <= copy'[t].last
    BY DEF Forward
<1> USE PhoneAssumption
<1>0. cursor[t] \in Nat \union {None} /\ copy[t] \in Copies /\ load[t] \in LoadsOut
    BY TypedParts DEF CursorOK, CopyOK, LoadOK
<1>1. copy[t].last \in Nat /\ copy[t].last + 1 \in Nat
    BY <1>0 DEF Copies
<1>2. CASE Deliver(t) /\ copy'[t] = Apply(copy[t], cursor[t] + 1, cursor[t] + 1)
  <2>1. cursor[t] + 1 \in Nat
      BY <1>0, <1>2, TypedParts DEF Deliver, Followed
  <2> QED BY <1>0, <1>2, <2>1, ApplyFacts
<1>3. CASE /\ ReadAnswered(t)
           /\ copy'[t] = Apply([last |-> load[t].answer, whole |-> TRUE], load[t].from, load[t].to)
  <2>1. load[t].from \in Nat /\ load[t].to \in Nat /\ load[t].answer \in Nat
      BY <1>0, <1>3 DEF ReadAnswered, LoadsOut
  <2>2. [last |-> load[t].answer, whole |-> TRUE] \in Copies
      BY <2>1 DEF Copies
  <2>3. copy[t].last <= load[t].answer \/ copy[t].last <= load[t].to
      BY <1>3 DEF ReadAnswered, Newer
  <2>4. load[t].answer <= copy'[t].last /\ load[t].to <= copy'[t].last /\ copy'[t].last \in Nat
      BY <1>3, <2>1, <2>2, ApplyFacts
  <2> QED BY <1>1, <2>1, <2>3, <2>4
<1>4. CASE /\ ResumeAnswered(t)
           /\ copy'[t] = Apply(Apply(copy[t], copy[t].last + 1, load[t].answer), load[t].from, load[t].to)
  <2>1. load[t].from \in Nat /\ load[t].to \in Nat /\ load[t].answer \in Nat
      BY <1>0, <1>4 DEF ResumeAnswered, LoadsOut
  <2>2. Apply(copy[t], copy[t].last + 1, load[t].answer) \in Copies
      BY <1>0, <1>1, <2>1, ApplyType
  <2>3. copy[t].last <= Apply(copy[t], copy[t].last + 1, load[t].answer).last
      BY <1>0, <1>1, <2>1, ApplyFacts
  <2>4. Apply(copy[t], copy[t].last + 1, load[t].answer).last <= copy'[t].last
      BY <1>4, <2>1, <2>2, ApplyFacts
  <2>5. copy'[t] \in Copies
      BY <1>4, <2>1, <2>2, ApplyType
  <2> QED BY <1>1, <2>2, <2>3, <2>4, <2>5 DEF Copies
<1>5. CASE ResumeTimesOut(t) /\ \E last \in 0 .. head[t] : copy'[t] = Apply(copy[t], copy[t].last + 1, last)
  <2>1. PICK last \in 0 .. head[t] : copy'[t] = Apply(copy[t], copy[t].last + 1, last)
      BY <1>5
  <2>2. last \in Nat
      BY <2>1, TypedParts DEF LogOK
  <2> QED BY <1>0, <1>1, <2>1, <2>2, ApplyFacts
<1>6. Moves(t)
    BY TypedParts, CopyMoves
<1> QED BY <1>1, <1>2, <1>3, <1>4, <1>5, <1>6 DEF Moves

-----------------------------------------------------------------------------
(* The computer the phone is at.                                           *)

\* What the phone has of its thread has no gap,
Whole ==
    /\ copy[Home] # None => copy[Home].whole
    /\ disk[Home] # None => disk[Home].whole

\* a read, with what came meanwhile, reaches from its page to the cursor,
Latest == IF load[Home].answer = None THEN head[Home] ELSE load[Home].answer
Collected ==
    load[Home].kind # "none" =>
        /\ cursor[Home] # None
        /\ load[Home].to = 0 => cursor[Home] <= Latest
        /\ load[Home].to # 0 => load[Home].from <= Latest + 1 /\ load[Home].to = cursor[Home]

\* a fresh transcript is up to the cursor and nothing is being read for it,
Settled ==
    /\ load[Home].kind = "none" /\ ~restored[Home]
    /\ cursor[Home] # None => cursor[Home] <= copy[Home].last
FreshSettled == Fresh(Home) => Settled

\* and so is one that a replay may take up.
Kept ==
    replay # None =>
        /\ ~ready
        /\ replay[Home] # None => CanReplay(Home) /\ stale[Home] > 0 /\ Settled

\* Requests go out only to a subscribed stream; a replay remembers what was fresh.
Connected ==
    /\ ready => cursor[Home] # None /\ replay = None
    /\ stream[Home] = "replay" => replay # None

HomeInv == Whole /\ Collected /\ FreshSettled /\ Kept /\ Connected
IInv == Typed /\ Known /\ Newer /\ HomeInv

LEMMA HomeTyped ==
    Typed => /\ Home \in Machines /\ head[Home] \in Nat /\ barrier[Home] \in Nat
             /\ cursor[Home] \in Nat \union {None} /\ copy[Home] \in Copies \union {None}
             /\ disk[Home] \in Copies \union {None} /\ load[Home] \in LoadsOut
             /\ stale[Home] \in Nat /\ epoch \in Nat /\ stream[Home] \in Streams
             /\ (copy[Home] = None => stale[Home] = 0)
  BY TypedParts, PhoneAssumption DEF LogOK, CursorOK, CopyOK, DiskOK, LoadOK, MarkOK, StreamOK, NoMark

\* Connected is kept.
LEMMA ConnectedStep == IInv /\ [Next]_vars => Connected'
<1> SUFFICES ASSUME Typed, Connected, Kept, [Next]_vars PROVE Connected'
    BY DEF IInv, HomeInv
<1>0. StreamOK /\ CursorOK /\ KeptOK /\ LogOK /\ MarkOK /\ Followed /\ Home \in Machines
    BY TypedParts, PhoneAssumption
<1> USE <1>0, PhoneAssumption DEF Connected, Kept, StreamOK, Streams, CursorOK, KeptOK, LogOK, connection, cache, Revisions, MarkOK
<1>1. CASE UNCHANGED vars
    BY <1>1 DEF vars
<1>2. CASE Relaunch
    BY <1>2 DEF Relaunch, Started
<1>3. ASSUME NEW m \in Machines, NewEvent(m) \/ Daemon(m) PROVE Connected'
    BY <1>3 DEF NewEvent, Daemon, ServeSubscribe, ServeRead
<1>4. ASSUME NEW m \in Machines, Stream(m) PROVE Connected'
  <2>1. CASE StartFollowing(m)
    <3>1. CASE m = Home
        BY <2>1, <3>1 DEF StartFollowing, Loads, Subscribed
    <3>2. CASE m # Home
        BY <2>1, <3>2 DEF StartFollowing
    <3> QED BY <3>1, <3>2
  <2>2. CASE ResumeFollowing(m)
    <3>1. CASE m = Home
      <4>1. replay' # None
          BY <2>2, <3>1 DEF ResumeFollowing, BeginReplay
      <4> QED BY <2>2, <3>1, <4>1 DEF ResumeFollowing
    <3>2. CASE m # Home
        BY <2>2, <3>2 DEF ResumeFollowing
    <3> QED BY <3>1, <3>2
  <2>3. CASE Deliver(m)
      BY <2>3 DEF Deliver
  <2>4. CASE m = Home /\ HomeReady
      BY <2>4 DEF HomeReady, AtBarrier, FinishReplay, Followed, Following
  <2>5. CASE AwayReady(m)
      BY <2>5 DEF AwayReady, Loads, Subscribed
  <2> QED BY <1>4, <2>1, <2>2, <2>3, <2>4, <2>5, Zenon DEF Stream
<1>5. ASSUME NEW m \in Machines, Thread(m) PROVE Connected'
    BY <1>5 DEF Thread, DiskShown, EnsureResumes, EnsureReads, ReadAnswered, ResumeAnswered, ResumeTimesOut,
            Loads, Subscribed
<1>6. ASSUME NEW m \in Machines, User(m) PROVE Connected'
    BY <1>6 DEF User, Open, Close, Prefetch, Evict, Save, Loads, Subscribed
<1>7. ASSUME NEW m \in Machines, Network(m) PROVE Connected'
  <2>1. CASE LinkUp(m) \/ Lagged(m)
      BY <2>1 DEF LinkUp, Lagged, Following
  <2>2. CASE LinkDown(m)
    <3>1. CASE m = Home
      <4>1. replay' # None
          BY <2>2, <3>1 DEF LinkDown, BeginReplay
      <4> QED BY <2>2, <3>1, <4>1 DEF LinkDown
    <3>2. CASE m # Home
        BY <2>2, <3>2 DEF LinkDown
    <3> QED BY <3>1, <3>2
  <2> QED BY <1>7, <2>1, <2>2, Zenon DEF Network
<1> QED BY <1>1, <1>2, <1>3, <1>4, <1>5, <1>6, <1>7, Zenon DEF Next

\* A read that goes out has a cursor behind it.
LEMMA ServedHome == ASSUME IInv, [Next]_vars, Served(Home), ~Relaunch PROVE cursor'[Home] # None
<1>1. Connected'
    BY ConnectedStep
<1> QED BY <1>1 DEF Connected, Served

LEMMA WholeStep == IInv /\ [Next]_vars => Whole'
<1> SUFFICES ASSUME IInv, [Next]_vars PROVE Whole'
    OBVIOUS
<1> USE PhoneAssumption
<1>0. Typed /\ Known /\ Whole /\ Collected /\ FreshSettled /\ Kept
    BY DEF IInv, HomeInv
<1>1. /\ Home \in Machines /\ cursor[Home] \in Nat \union {None} /\ copy[Home] \in Copies \union {None}
      /\ load[Home] \in LoadsOut /\ head[Home] \in Nat
    BY <1>0, HomeTyped
<1>2. disk'[Home] # None => disk'[Home].whole
  <2>1. disk'[Home] = disk[Home] \/ (Save(Home) /\ disk'[Home] = copy[Home])
      BY <1>0, <1>1, TypedParts, DiskMoves
  <2> QED BY <1>0, <2>1 DEF Whole
<1>3. CASE Deliver(Home) /\ copy[Home] # None /\ copy'[Home] = Apply(copy[Home], cursor[Home] + 1, cursor[Home] + 1)
  <2>1. cursor[Home] \in Nat /\ cursor[Home] + 1 \in Nat
      BY <1>0, <1>1, <1>3, TypedParts DEF Deliver, Followed
  <2>2. CASE Fresh(Home) \/ CanReplay(Home)
    <3>1. cursor[Home] <= copy[Home].last
      <4>1. CASE Fresh(Home)
          BY <1>0, <2>1, <4>1 DEF FreshSettled, Settled
      <4>2. CASE CanReplay(Home)
        <5>1. replay # None /\ replay[Home] # None
            BY <4>2, <1>0, TypedParts DEF CanReplay, Revision, MarkOK
        <5> QED BY <1>0, <2>1, <5>1 DEF Kept, Settled
      <4> QED BY <2>2, <4>1, <4>2
    <3>2. cursor[Home] + 1 <= copy[Home].last + 1
        BY <1>1, <1>3, <2>1, <3>1 DEF Copies
    <3>3. copy[Home] \in Copies /\ copy[Home].whole
        BY <1>0, <1>1, <1>3 DEF Whole
    <3>4. Apply(copy[Home], cursor[Home] + 1, cursor[Home] + 1).whole
        BY <2>1, <3>2, <3>3, ApplyFacts
    <3> QED BY <1>2, <1>3, <3>4, Zenon DEF Whole
  <2>3. CASE ~(Fresh(Home) \/ CanReplay(Home))
    <3>1. copy'[Home] = copy[Home]
        BY <1>3, <2>3 DEF Deliver
    <3> QED BY <1>0, <1>2, <3>1, Zenon DEF Whole
  <2> QED BY <2>2, <2>3
<1>4. CASE /\ ReadAnswered(Home)
           /\ copy'[Home] = Apply([last |-> load[Home].answer, whole |-> TRUE], load[Home].from, load[Home].to)
  <2>1. load[Home].from \in Nat /\ load[Home].to \in Nat /\ load[Home].answer \in Nat
      BY <1>1, <1>4 DEF ReadAnswered, LoadsOut
  <2> DEFINE page == [last |-> load[Home].answer, whole |-> TRUE]
  <2>2. page \in Copies /\ page.whole /\ page.last = load[Home].answer
      BY <2>1 DEF Copies
  <2>3. load[Home].to # 0 => load[Home].from <= page.last + 1
      BY <1>0, <1>4, <2>1, <2>2 DEF ReadAnswered, Collected, Latest
  <2>4. CASE load[Home].to = 0
    <3>1. copy'[Home] = page
        BY <1>4, <2>1, <2>4 DEF Apply
    <3> QED BY <1>2, <2>2, <3>1, Zenon DEF Whole
  <2>5. CASE load[Home].to # 0
    <3> HIDE DEF page
    <3>1. copy'[Home] = Apply(page, load[Home].from, load[Home].to)
        BY <1>4 DEF page
    <3>2. Apply(page, load[Home].from, load[Home].to).whole
        BY <2>1, <2>2, <2>3, <2>5, ApplyFacts
    <3> QED BY <1>2, <3>1, <3>2, Zenon DEF Whole
  <2> QED BY <2>4, <2>5
<1>5. CASE /\ ResumeAnswered(Home)
           /\ copy'[Home] = Apply(Apply(copy[Home], copy[Home].last + 1, load[Home].answer), load[Home].from, load[Home].to)
  <2>1. load[Home].from \in Nat /\ load[Home].to \in Nat /\ load[Home].answer \in Nat
      BY <1>1, <1>5 DEF ResumeAnswered, LoadsOut
  <2>2. copy[Home] \in Copies /\ copy[Home].last + 1 \in Nat /\ copy[Home].whole
      BY <1>0, <1>1, <1>5, TypedParts DEF ResumeAnswered, Resumable, Copies, Whole
  <2> DEFINE page == Apply(copy[Home], copy[Home].last + 1, load[Home].answer)
  <2>3. page \in Copies
      BY <2>1, <2>2, ApplyType
  <2>4. page.whole
      BY <2>1, <2>2, ApplyFacts
  <2>5. load[Home].answer <= page.last
      BY <2>1, <2>2, ApplyFacts
  <2>6. copy'[Home] = Apply(page, load[Home].from, load[Home].to)
      BY <1>5
  <2> HIDE DEF page
  <2>7. CASE load[Home].to = 0
    <3>1. copy'[Home] = page
        BY <2>3, <2>6, <2>7 DEF Apply, Copies
    <3> QED BY <1>2, <2>4, <3>1, Zenon DEF Whole
  <2>8. CASE load[Home].to # 0
    <3>1. load[Home].from <= load[Home].answer + 1
        BY <1>0, <1>5, <2>1, <2>8 DEF ResumeAnswered, Collected, Latest
    <3>2. load[Home].from <= page.last + 1
        BY <2>1, <2>3, <2>5, <3>1 DEF Copies
    <3>3. Apply(page, load[Home].from, load[Home].to).whole
        BY <2>1, <2>3, <2>4, <3>2, ApplyFacts
    <3> QED BY <1>2, <2>6, <3>3, Zenon DEF Whole
  <2> QED BY <2>7, <2>8
<1>6. CASE ResumeTimesOut(Home) /\ \E last \in 0 .. head[Home] : copy'[Home] = Apply(copy[Home], copy[Home].last + 1, last)
  <2>1. PICK last \in 0 .. head[Home] : copy'[Home] = Apply(copy[Home], copy[Home].last + 1, last)
      BY <1>6
  <2>2. copy[Home] \in Copies /\ copy[Home].last + 1 \in Nat /\ copy[Home].whole /\ last \in Nat
      BY <1>0, <1>1, <1>6, TypedParts DEF ResumeTimesOut, Resumable, Copies, Whole
  <2>3. Apply(copy[Home], copy[Home].last + 1, last).whole
      BY <2>2, ApplyFacts
  <2> QED BY <1>2, <2>1, <2>3, Zenon DEF Whole
<1>7. CASE copy'[Home] \in {copy[Home], None} \/ (copy[Home] = None /\ copy'[Home] = disk[Home])
    BY <1>0, <1>2, <1>7 DEF Whole
<1>8. Moves(Home)
    BY <1>1, TypedParts, <1>0, CopyMoves
<1> QED BY <1>3, <1>4, <1>5, <1>6, <1>7, <1>8 DEF Moves

\* A read keeps reaching from its page to the cursor.
LEMMA CollectedStep == IInv /\ [Next]_vars => Collected'
<1> SUFFICES ASSUME IInv, [Next]_vars, load'[Home].kind # "none"
             PROVE  /\ cursor'[Home] # None
                    /\ load'[Home].to = 0 => cursor'[Home] <= Latest'
                    /\ load'[Home].to # 0 => load'[Home].from <= Latest' + 1 /\ load'[Home].to = cursor'[Home]
    BY DEF Collected
<1> USE PhoneAssumption
<1>0. Typed /\ Known /\ Collected /\ Connected
    BY DEF IInv, HomeInv
<1>1. /\ Home \in Machines /\ cursor[Home] \in Nat \union {None}
      /\ load[Home] \in LoadsOut /\ head[Home] \in Nat
      /\ head'[Home] \in Nat /\ head[Home] <= head'[Home]
    BY <1>0, HomeTyped, HeadGrows, TypedParts
<1>2. ~Relaunch
    BY OutFacts, PhoneAssumption DEF Relaunch, Started
<1>3. /\ cursor'[Home] \in Nat \union {None}
      /\ cursor'[Home] # None => cursor'[Home] <= head'[Home]
  <2>1. CursorOK' /\ Known'
      BY <1>0, KnownStep, CursorStep, TypedParts
  <2> QED BY <1>1, <2>1 DEF CursorOK, Known
<1>4. load[Home].answer # None => load[Home].answer <= head[Home]
    BY <1>0, <1>1 DEF Known
<1>5. load[Home].kind # "none" => /\ cursor[Home] \in Nat
                                  /\ load[Home].to = 0 => cursor[Home] <= Latest
                                  /\ load[Home].to # 0 => load[Home].from <= Latest + 1 /\ load[Home].to = cursor[Home]
    BY <1>0, <1>1 DEF Collected
<1>6. load[Home].kind # "none" /\ ~Deliver(Home) => cursor'[Home] = cursor[Home]
    BY <1>0, <1>1, <1>2, <1>5, TypedParts, CursorMoves
<1>7. Latest \in Nat /\ Latest <= head[Home]
    BY <1>1, <1>4 DEF Latest, LoadsOut
<1>8. CASE Deliver(Home)
  <2>1. cursor[Home] \in Nat /\ cursor[Home] + 1 \in Nat
      BY <1>0, <1>1, <1>8, TypedParts DEF Deliver, Followed
  <2>2. load'[Home] = Buffered(load[Home], cursor[Home] + 1) /\ head' = head /\ cursor'[Home] = cursor[Home] + 1
      BY <1>0, <1>1, <1>8, TypedParts DEF Deliver, LoadOK, CursorOK
  <2>3. /\ load[Home].kind # "none" /\ load'[Home].answer = load[Home].answer
        /\ load'[Home].to = cursor[Home] + 1
        /\ load[Home].to = 0 => load'[Home].from = cursor[Home] + 1
        /\ load[Home].to # 0 => load'[Home].from = load[Home].from
      BY <1>1, <2>1, <2>2, BufferedFacts
  <2>4. Latest' = Latest
      BY <2>2, <2>3 DEF Latest
  <2>5. load'[Home].from <= Latest + 1
      BY <1>5, <1>7, <2>1, <2>3
  <2> QED BY <2>1, <2>2, <2>3, <2>4, <2>5
<1>9. CASE load'[Home] = load[Home] /\ ~Deliver(Home)
  <2>1. Latest' \in Nat /\ Latest <= Latest'
      BY <1>1, <1>4, <1>9 DEF Latest, LoadsOut
  <2> QED BY <1>1, <1>5, <1>6, <1>7, <1>9, <2>1 DEF LoadsOut
<1>10. CASE load'[Home] = Out("get", Revision(Home)') /\ Served(Home)
  <2>1. cursor'[Home] # None
      BY <1>2, <1>10, ServedHome
  <2>2. load'[Home].to = 0 /\ Latest' = head'[Home]
      BY <1>10, OutFacts DEF Latest
  <2> QED BY <1>3, <2>1, <2>2
<1>11. CASE load'[Home] = Out("resume", Revision(Home)') /\ EnsureResumes(Home)
  <2>1. cursor'[Home] # None
      BY <1>0, <1>11 DEF EnsureResumes, Connected, connection
  <2>2. load'[Home].to = 0 /\ Latest' = head'[Home]
      BY <1>11, OutFacts DEF Latest
  <2> QED BY <1>3, <2>1, <2>2
<1>12. CASE load'[Home] = [load[Home] EXCEPT !.answer = head[Home]] /\ ServeRead(Home)
  <2>1. /\ load[Home].kind # "none" /\ load'[Home].to = load[Home].to /\ load'[Home].from = load[Home].from
        /\ load'[Home].answer = head[Home] /\ load[Home].answer = None
      BY <1>1, <1>12 DEF ServeRead, LoadsOut
  <2>2. cursor'[Home] = cursor[Home]
      BY <1>12 DEF ServeRead, connection
  <2>3. Latest' = Latest
      BY <1>1, <2>1 DEF Latest
  <2> QED BY <1>5, <2>1, <2>2, <2>3
<1>13. CASE load'[Home] = [load[Home] EXCEPT !.answer = None] /\ LinkDown(Home)
  <2>1. /\ load[Home].kind # "none" /\ load'[Home].to = load[Home].to /\ load'[Home].from = load[Home].from
        /\ load'[Home].answer = None /\ head' = head /\ cursor' = cursor
      BY <1>1, <1>13 DEF LinkDown, LoadsOut
  <2>2. Latest' = head[Home]
      BY <2>1 DEF Latest
  <2> QED BY <1>1, <1>5, <1>7, <2>1, <2>2 DEF LoadsOut
<1>14. LoadMoves(Home)
    BY <1>0, <1>1, TypedParts, LoadMovesStep
<1> QED BY <1>8, <1>9, <1>10, <1>11, <1>12, <1>13, <1>14, OutFacts DEF LoadMoves

\* Steps that leave the thread of this computer as it is.
Still ==
    /\ copy'[Home] = copy[Home] /\ stale'[Home] = stale[Home] /\ restored'[Home] = restored[Home]
    /\ load'[Home].kind = load[Home].kind /\ cursor'[Home] = cursor[Home]
    /\ (ready' <=> ready) /\ epoch' = epoch
    /\ replay' = None <=> replay = None
    /\ replay # None => replay'[Home] = replay[Home]

LEMMA StillKeeps == ASSUME FreshSettled, Kept, Still PROVE (FreshSettled /\ Kept)'
  BY DEF FreshSettled, Kept, Still, Fresh, CanReplay, Revision, Settled

LEMMA Elsewhere ==
    ASSUME Typed, NEW m \in Machines, m # Home,
           NewEvent(m) \/ Daemon(m) \/ Stream(m) \/ Thread(m) \/ User(m) \/ Network(m)
    PROVE  Still
<1>0. /\ StreamOK /\ CursorOK /\ KeptOK /\ LogOK /\ MarkOK /\ CopyOK /\ RestoredOK /\ LoadOK /\ Home \in Machines
    BY TypedParts, PhoneAssumption
<1> USE <1>0, PhoneAssumption DEF StreamOK, CursorOK, KeptOK, LogOK, MarkOK, CopyOK, RestoredOK, LoadOK, Still,
        connection, cache, Restore, Loads
<1>1. CASE NewEvent(m) \/ Daemon(m)
    BY <1>1 DEF NewEvent, Daemon, ServeSubscribe, ServeRead
<1>2. CASE Stream(m)
    BY <1>2 DEF Stream, StartFollowing, ResumeFollowing, Deliver, AwayReady
<1>3. CASE Thread(m)
  <2>1. CASE DiskShown(m) \/ EnsureResumes(m)
      BY <2>1 DEF DiskShown, EnsureResumes
  <2>2. CASE EnsureReads(m)
      BY <2>2 DEF EnsureReads
  <2>3. CASE ReadAnswered(m)
      BY <2>3 DEF ReadAnswered
  <2>4. CASE ResumeAnswered(m)
      BY <2>4 DEF ResumeAnswered, ReadInstead
  <2>5. CASE ResumeTimesOut(m)
      BY <2>5 DEF ResumeTimesOut, ReadInstead
  <2> QED BY <1>3, <2>1, <2>2, <2>3, <2>4, <2>5, Zenon DEF Thread
<1>4. CASE User(m)
  <2>1. CASE Evict(m)
    <3>1. CASE replay = None
        BY <2>1, <3>1 DEF Evict
    <3>2. CASE replay # None
      <4>1. replay \in [Machines -> Revisions \union {None}] /\ replay' = [replay EXCEPT ![m] = None]
          BY <2>1, <3>2 DEF Evict
      <4>2. replay' \in [Machines -> [epoch : Nat, count : Nat] \union {None}] /\ replay'[Home] = replay[Home]
          BY <4>1 DEF Revisions
      <4>3. replay' # None
          BY <4>2
      <4> QED BY <2>1, <3>2, <4>2, <4>3 DEF Evict
    <3> QED BY <3>1, <3>2
  <2>2. CASE Open(m) \/ Close(m) \/ Prefetch(m) \/ Save(m)
      BY <2>2 DEF Open, Close, Prefetch, Save
  <2> QED BY <1>4, <2>1, <2>2, Zenon DEF User
<1>5. CASE Network(m)
    BY <1>5 DEF Network, LinkUp, LinkDown, Lagged
<1> QED BY <1>1, <1>2, <1>3, <1>4, <1>5

\* An answer, with what came meanwhile, reaches the cursor.
LEMMA Reached ==
    ASSUME IInv, [Next]_vars, ReadAnswered(Home) \/ ResumeAnswered(Home)
    PROVE  /\ cursor[Home] # None => cursor[Home] <= copy'[Home].last
           /\ load'[Home].kind = "none" \/ ~Fresh(Home)'
           /\ ~restored'[Home] /\ cursor' = cursor /\ epoch' = epoch /\ (ready' <=> ready) /\ replay' = replay
<1> USE PhoneAssumption
<1>0. Typed /\ Collected
    BY DEF IInv, HomeInv
<1>1. /\ Home \in Machines /\ cursor[Home] \in Nat \union {None} /\ copy[Home] \in Copies \union {None}
      /\ load[Home] \in LoadsOut /\ load \in [Machines -> LoadsOut] /\ restored \in [Machines -> BOOLEAN]
      /\ copy \in [Machines -> Copies \union {None}]
    BY <1>0, HomeTyped, TypedParts DEF LoadOK, RestoredOK, CopyOK
<1>2. /\ load[Home].kind # "none" /\ load[Home].from \in Nat /\ load[Home].to \in Nat
      /\ load[Home].answer \in Nat
    BY <1>1 DEF ReadAnswered, ResumeAnswered, LoadsOut
<1>3. cursor[Home] <= load[Home].answer \/ cursor[Home] <= load[Home].to
    BY <1>0, <1>1, <1>2 DEF Collected, Latest
<1>4. load[Home].answer <= copy'[Home].last /\ load[Home].to <= copy'[Home].last /\ copy'[Home].last \in Nat
  <2>1. CASE ReadAnswered(Home)
    <3> DEFINE page == [last |-> load[Home].answer, whole |-> TRUE]
    <3>1. page \in Copies /\ page.last = load[Home].answer
        BY <1>2 DEF Copies
    <3>2. copy'[Home] = Apply(page, load[Home].from, load[Home].to)
        BY <1>1, <2>1 DEF ReadAnswered
    <3> HIDE DEF page
    <3>3. copy'[Home] \in Copies
        BY <1>2, <3>1, <3>2, ApplyType
    <3> QED BY <1>2, <3>1, <3>2, <3>3, ApplyFacts DEF Copies
  <2>2. CASE ResumeAnswered(Home)
    <3>1. copy[Home] \in Copies /\ copy[Home].last + 1 \in Nat
        BY <1>0, <1>1, <2>2, TypedParts DEF ResumeAnswered, Resumable, Copies
    <3> DEFINE page == Apply(copy[Home], copy[Home].last + 1, load[Home].answer)
    <3>2. page \in Copies /\ load[Home].answer <= page.last
        BY <1>2, <3>1, ApplyType, ApplyFacts
    <3>3. copy'[Home] = Apply(page, load[Home].from, load[Home].to)
        BY <1>1, <2>2 DEF ResumeAnswered
    <3> HIDE DEF page
    <3>4. copy'[Home] \in Copies
        BY <1>2, <3>2, <3>3, ApplyType
    <3>5. page.last <= copy'[Home].last /\ load[Home].to <= copy'[Home].last
        BY <1>2, <3>2, <3>3, ApplyFacts
    <3> QED BY <1>2, <3>2, <3>4, <3>5 DEF Copies
  <2> QED BY <2>1, <2>2
<1>5. cursor[Home] # None => cursor[Home] <= copy'[Home].last
    BY <1>1, <1>2, <1>3, <1>4
<1>6. load'[Home].kind = "none" \/ ~Fresh(Home)'
  <2>1. CASE ReadAnswered(Home)
    <3>1. load'[Home] = NoLoad
        BY <1>1, <2>1 DEF ReadAnswered
    <3> QED BY <3>1, OutFacts
  <2>2. CASE ResumeAnswered(Home) /\ Fresh(Home)'
    <3>1. load'[Home] = NoLoad
        BY <1>1, <2>2 DEF ResumeAnswered
    <3> QED BY <3>1, OutFacts
  <2> QED BY <2>1, <2>2
<1>7. ~restored'[Home] /\ cursor' = cursor /\ epoch' = epoch /\ (ready' <=> ready) /\ replay' = replay
    BY <1>1 DEF ReadAnswered, ResumeAnswered, connection
<1> QED BY <1>5, <1>6, <1>7

\* A replay begins: nothing is fresh, and what was may be taken up.
LEMMA BeginKeeps ==
    ASSUME Typed, FreshSettled, Kept, BeginReplay, ~ready', copy' = copy, cursor' = cursor, restored' = restored,
           load[Home].kind = "none" => load'[Home].kind = "none"
    PROVE  (FreshSettled /\ Kept)'
<1> USE PhoneAssumption
<1>1. /\ Home \in Machines /\ stale[Home] \in Nat /\ epoch \in Nat
      /\ (copy[Home] = None => stale[Home] = 0)
    BY HomeTyped
<1>2. CASE replay # None
  <2>1. stale' = stale /\ epoch' = epoch /\ replay' = replay
      BY <1>2 DEF BeginReplay
  <2> QED BY <1>2, <2>1 DEF FreshSettled, Kept, Fresh, CanReplay, Revision, Settled
<1>3. CASE replay = None
  <2>1. /\ epoch' = epoch + 1 /\ stale'[Home] = (IF copy[Home] # None THEN stale[Home] + 1 ELSE 0)
        /\ replay'[Home] = (IF Fresh(Home) THEN [epoch |-> epoch + 1, count |-> 1] ELSE None)
      BY <1>1, <1>3 DEF BeginReplay, InvalidateAll, Bumped
  <2>2. ~Fresh(Home)'
      BY <1>1, <2>1 DEF Fresh
  <2>3. replay'[Home] # None => replay' # None /\ CanReplay(Home)' /\ stale'[Home] > 0 /\ Settled'
    <3>1. ASSUME replay'[Home] # None PROVE Fresh(Home) /\ stale'[Home] = 1 /\ replay'[Home] = [epoch |-> epoch', count |-> 1]
        BY <1>1, <2>1, <3>1 DEF Fresh
    <3>2. replay' # None
      <4>1. replay' = [t \in Machines |-> IF Fresh(t) THEN [epoch |-> epoch + 1, count |-> 1] ELSE None]
          BY <1>3 DEF BeginReplay
      <4>2. replay' \in [Machines -> [epoch : Nat, count : Nat] \union {None}]
          BY <1>1, <4>1
      <4> QED BY <4>2
    <3> QED BY <3>1, <3>2 DEF FreshSettled, Settled, Fresh, CanReplay, Revision
  <2> QED BY <2>2, <2>3 DEF FreshSettled, Kept
<1> QED BY <1>2, <1>3

\* What the steps of this computer's thread do to its marks.
LEMMA StreamKeeps == ASSUME IInv, [Next]_vars, Stream(Home) PROVE (FreshSettled /\ Kept)'
<1> USE PhoneAssumption
<1>0. Typed /\ FreshSettled /\ Kept /\ Connected
    BY DEF IInv, HomeInv
<1>1. /\ Home \in Machines /\ stale[Home] \in Nat /\ epoch \in Nat /\ load[Home] \in LoadsOut
      /\ cursor[Home] \in Nat \union {None} /\ copy[Home] \in Copies \union {None}
      /\ (copy[Home] = None => stale[Home] = 0)
    BY <1>0, HomeTyped
<1>2. /\ load \in [Machines -> LoadsOut] /\ stale \in [Machines -> Nat] /\ cursor \in [Machines -> Nat \union {None}]
      /\ copy \in [Machines -> Copies \union {None}]
    BY <1>0, TypedParts DEF LoadOK, MarkOK, CursorOK, CopyOK
<1>3. CASE StartFollowing(Home)
  <2>1. copy' = copy /\ stale' = Bumped /\ replay' = None
      BY <1>3 DEF StartFollowing, InvalidateAll
  <2>2. ~Fresh(Home)'
      BY <1>1, <2>1 DEF Fresh, Bumped
  <2> QED BY <2>1, <2>2 DEF FreshSettled, Kept
<1>4. CASE ResumeFollowing(Home)
  <2>1. /\ BeginReplay /\ ~ready' /\ copy' = copy /\ cursor' = cursor /\ restored' = restored /\ load' = load
      BY <1>4, Zenon DEF ResumeFollowing
  <2> QED BY <1>0, <2>1, BeginKeeps
<1>5. CASE Deliver(Home)
  <2> DEFINE takes == Fresh(Home) \/ CanReplay(Home)
  <2>1. cursor[Home] \in Nat /\ cursor[Home] + 1 \in Nat
      BY <1>0, <1>1, <1>5, TypedParts DEF Deliver, Followed
  <2>2. /\ cursor'[Home] = cursor[Home] + 1 /\ load'[Home] = Buffered(load[Home], cursor[Home] + 1)
        /\ copy'[Home] = (IF takes THEN Apply(copy[Home], cursor[Home] + 1, cursor[Home] + 1) ELSE copy[Home])
        /\ stale'[Home] = (IF copy[Home] # None /\ ~takes /\ load[Home].kind = "none" THEN stale[Home] + 1 ELSE stale[Home])
        /\ epoch' = epoch /\ replay' = replay /\ (ready' <=> ready) /\ restored' = restored
      BY <1>1, <1>2, <1>5 DEF Deliver
  <2>3. replay # None /\ replay[Home] # None => takes /\ Settled /\ stale[Home] > 0
      BY <1>0 DEF Kept
  <2>4. CASE takes
    <3>1. copy[Home] \in Copies
        BY <1>1, <2>4 DEF Fresh, CanReplay
    <3>2. Settled
      <4>1. CASE CanReplay(Home)
        <5>1. replay # None /\ replay[Home] # None
            BY <1>1, <4>1 DEF CanReplay, Revision
        <5> QED BY <2>3, <5>1
      <4> QED BY <1>0, <2>4, <4>1 DEF FreshSettled
    <3>3. cursor'[Home] <= copy'[Home].last /\ copy'[Home] \in Copies
      <4>1. copy'[Home] = Apply(copy[Home], cursor[Home] + 1, cursor[Home] + 1)
          BY <2>2, <2>4
      <4> HIDE DEF takes
      <4>2. cursor[Home] + 1 <= copy'[Home].last
          BY <2>1, <3>1, <4>1, ApplyFacts
      <4>3. copy'[Home] \in Copies
          BY <2>1, <3>1, <4>1, ApplyType
      <4> QED BY <2>2, <4>2, <4>3
    <3>4. load'[Home].kind = "none"
        BY <1>1, <2>1, <2>2, <3>2, BufferedFacts DEF Settled
    <3>5. Settled'
        BY <2>2, <3>2, <3>3, <3>4 DEF Settled
    <3>6. stale'[Home] = stale[Home] /\ copy'[Home] # None
        BY <2>2, <2>4, <3>3 DEF Copies
    <3> QED BY <1>0, <2>2, <3>5, <3>6 DEF FreshSettled, Kept, CanReplay, Revision
  <2>5. CASE ~takes
    <3>1. replay' # None => ~ready' /\ replay'[Home] = None
        BY <1>0, <2>2, <2>3, <2>5 DEF Kept
    <3>2. ~Fresh(Home)'
        BY <1>1, <2>2, <2>5 DEF Fresh
    <3> QED BY <3>1, <3>2 DEF FreshSettled, Kept
  <2> QED BY <2>4, <2>5
<1>6. CASE HomeReady
  <2>1. copy' = copy /\ epoch' = epoch /\ load' = load /\ cursor' = cursor /\ restored' = restored
      BY <1>6, Zenon DEF HomeReady
  <2>2. CASE stream[Home] = "replay"
    <3>1. /\ replay' = None
          /\ stale' = [t \in Machines |-> IF replay # None /\ replay[t] # None THEN Marked(t, replay[t]) ELSE stale[t]]
        BY <1>6, <2>2 DEF HomeReady, FinishReplay
    <3>2. Fresh(Home)' => Settled
      <4>1. CASE replay # None /\ replay[Home] # None
          BY <1>0, <4>1 DEF Kept
      <4>2. CASE ~(replay # None /\ replay[Home] # None)
        <5>1. stale'[Home] = stale[Home]
            BY <1>1, <3>1, <4>2
        <5> QED BY <1>0, <2>1, <5>1 DEF FreshSettled, Fresh
      <4> QED BY <4>1, <4>2
    <3>3. Settled => Settled'
        BY <2>1 DEF Settled
    <3> QED BY <3>1, <3>2, <3>3 DEF FreshSettled, Kept
  <2>3. CASE stream[Home] # "replay"
    <3>1. stale' = stale /\ replay' = replay /\ (ready' <=> ready)
        BY <1>6, <2>3, Zenon DEF HomeReady
    <3> QED BY <1>0, <2>1, <3>1, StillKeeps DEF Still
  <2> QED BY <2>2, <2>3
<1>7. ~AwayReady(Home)
    BY DEF AwayReady
<1> QED BY <1>3, <1>4, <1>5, <1>6, <1>7, Zenon DEF Stream

LEMMA ThreadKeeps == ASSUME IInv, [Next]_vars, Thread(Home) PROVE (FreshSettled /\ Kept)'
<1> USE PhoneAssumption
<1>0. Typed /\ FreshSettled /\ Kept /\ Connected
    BY DEF IInv, HomeInv
<1>1. /\ Home \in Machines /\ stale[Home] \in Nat /\ epoch \in Nat /\ load[Home] \in LoadsOut
      /\ cursor[Home] \in Nat \union {None} /\ copy[Home] \in Copies \union {None}
      /\ (copy[Home] = None => stale[Home] = 0)
    BY <1>0, HomeTyped
<1>2. /\ load \in [Machines -> LoadsOut] /\ stale \in [Machines -> Nat] /\ restored \in [Machines -> BOOLEAN]
      /\ copy \in [Machines -> Copies \union {None}]
    BY <1>0, TypedParts DEF LoadOK, MarkOK, RestoredOK, CopyOK
<1>3. replay # None /\ replay[Home] # None => copy[Home] # None /\ ~ready /\ load[Home].kind = "none"
    BY <1>0 DEF Kept, CanReplay, Settled
<1>4. Restore(Home) => \/ copy' = copy /\ stale' = stale /\ restored' = restored
                       \/ copy[Home] = None /\ stale'[Home] = 1
    BY <1>1, <1>2 DEF Restore
<1>5. CASE DiskShown(Home)
  <2>1. Restore(Home) /\ epoch' = epoch /\ replay' = replay /\ (ready' <=> ready) /\ load' = load /\ cursor' = cursor
      BY <1>5, Zenon DEF DiskShown, connection
  <2>2. CASE copy' = copy /\ stale' = stale /\ restored' = restored
      BY <1>0, <2>1, <2>2, StillKeeps DEF Still
  <2>3. CASE copy[Home] = None /\ stale'[Home] = 1
      BY <1>0, <1>3, <2>1, <2>3 DEF FreshSettled, Kept, Fresh
  <2> QED BY <1>4, <2>1, <2>2, <2>3
<1>6. CASE EnsureResumes(Home)
  <2>1. Restore(Home) /\ ready /\ replay' = replay /\ restored'[Home]
      BY <1>6, Zenon DEF EnsureResumes
  <2>2. replay' = None
      BY <1>0, <2>1 DEF Connected
  <2>3. CASE copy' = copy /\ stale' = stale /\ restored' = restored
    <3>1. ~Fresh(Home)
        BY <1>0, <2>1, <2>3 DEF FreshSettled, Settled
    <3> QED BY <2>2, <2>3, <3>1 DEF FreshSettled, Kept, Fresh
  <2>4. CASE stale'[Home] = 1
      BY <2>2, <2>4 DEF FreshSettled, Kept, Fresh
  <2> QED BY <1>4, <2>1, <2>3, <2>4
<1>7. CASE EnsureReads(Home)
  <2>1. Restore(Home) /\ epoch' = epoch /\ replay' = replay /\ (ready' <=> ready) /\ cursor' = cursor
      BY <1>7, Zenon DEF EnsureReads
  <2>2. load'[Home] = (IF ~Fresh(Home)' /\ load[Home].kind = "none" /\ Served(Home)
                       THEN Out("get", Revision(Home)') ELSE load[Home])
      BY <1>1, <1>7 DEF EnsureReads, Loads
  <2>3. CASE copy' = copy /\ stale' = stale /\ restored' = restored
    <3>1. CASE Fresh(Home)' \/ (replay # None /\ replay[Home] # None)
      <4>1. load'[Home] = load[Home]
          BY <1>3, <2>1, <2>2, <3>1 DEF Served
      <4> QED BY <1>0, <2>1, <2>3, <4>1, StillKeeps DEF Still
    <3>2. CASE ~Fresh(Home)' /\ ~(replay # None /\ replay[Home] # None)
        BY <1>0, <2>1, <3>2 DEF FreshSettled, Kept
    <3> QED BY <3>1, <3>2
  <2>4. CASE copy[Home] = None /\ stale'[Home] = 1
      BY <1>0, <1>3, <2>1, <2>4 DEF FreshSettled, Kept, Fresh
  <2> QED BY <1>4, <2>1, <2>3, <2>4
<1>8. CASE ReadAnswered(Home) \/ ResumeAnswered(Home)
  <2>1. load[Home].kind # "none"
      BY <1>8 DEF ReadAnswered, ResumeAnswered
  <2>2. replay' # None => ~ready' /\ replay'[Home] = None
      BY <1>0, <1>3, <1>8, <2>1, Reached DEF Kept
  <2>3. Fresh(Home)' => Settled'
      BY <1>8, Reached DEF Settled
  <2> QED BY <2>2, <2>3 DEF FreshSettled, Kept
<1>9. CASE ResumeTimesOut(Home)
  <2>1. /\ load[Home].kind = "resume" /\ stale' = stale /\ replay' = replay /\ (ready' <=> ready)
      BY <1>9, Zenon DEF ResumeTimesOut
  <2>2. copy[Home] # None
      BY <1>0, <1>1, <2>1, TypedParts DEF Resumable
  <2>3. ~Fresh(Home)
      BY <1>0, <2>1 DEF FreshSettled, Settled
  <2>4. ~Fresh(Home)'
      BY <2>1, <2>2, <2>3 DEF Fresh
  <2>5. replay' # None => ~ready' /\ replay'[Home] = None
      BY <1>0, <1>3, <2>1 DEF Kept
  <2> QED BY <2>4, <2>5 DEF FreshSettled, Kept
<1> QED BY <1>5, <1>6, <1>7, <1>8, <1>9, Zenon DEF Thread

LEMMA MarksStep == IInv /\ [Next]_vars => (FreshSettled /\ Kept)'
<1> SUFFICES ASSUME IInv, [Next]_vars PROVE (FreshSettled /\ Kept)'
    OBVIOUS
<1> USE PhoneAssumption
<1>0. Typed /\ FreshSettled /\ Kept /\ Connected
    BY DEF IInv, HomeInv
<1>1. /\ Home \in Machines /\ load[Home] \in LoadsOut /\ load \in [Machines -> LoadsOut]
      /\ copy \in [Machines -> Copies \union {None}] /\ stale \in [Machines -> Nat]
    BY <1>0, HomeTyped, TypedParts DEF LoadOK, CopyOK, MarkOK
<1>2. CASE UNCHANGED vars
    BY <1>0, <1>2, StillKeeps DEF vars, cache, connection, Still
<1>3. CASE Relaunch
    BY <1>1, <1>3 DEF Relaunch, Started, FreshSettled, Kept, Fresh
<1>4. CASE NewEvent(Home) \/ ServeSubscribe(Home) \/ LinkUp(Home) \/ Lagged(Home)
    BY <1>0, <1>4, StillKeeps DEF NewEvent, ServeSubscribe, LinkUp, Lagged, cache, connection, Still
<1>5. CASE ServeRead(Home)
  <2>1. load'[Home] = [load[Home] EXCEPT !.answer = head[Home]]
      BY <1>1, <1>5 DEF ServeRead
  <2>2. load'[Home].kind = load[Home].kind
      BY <1>1, <2>1 DEF LoadsOut
  <2> QED BY <1>0, <1>5, <2>2, StillKeeps DEF ServeRead, cache, connection, Still
<1>6. CASE LinkDown(Home)
  <2>1. /\ load'[Home] = (IF load[Home].kind = "resume" THEN [load[Home] EXCEPT !.answer = None] ELSE NoLoad)
        /\ BeginReplay /\ ~ready' /\ copy' = copy /\ cursor' = cursor /\ restored' = restored
      BY <1>1, <1>6 DEF LinkDown
  <2>2. load[Home].kind = "none" => load'[Home].kind = "none"
      BY <2>1, OutFacts
  <2> QED BY <1>0, <2>1, <2>2, BeginKeeps
<1>7. CASE Open(Home) \/ Close(Home) \/ Save(Home)
    BY <1>0, <1>7, StillKeeps DEF Open, Close, Save, cache, connection, Still
<1>8. CASE Prefetch(Home)
  <2>1. ~Fresh(Home) /\ copy' = copy /\ stale' = stale /\ replay' = replay /\ replay = None
      BY <1>0, <1>8 DEF Prefetch, cache, Connected
  <2> QED BY <2>1 DEF FreshSettled, Kept, Fresh
<1>9. CASE Evict(Home)
  <2>1. copy'[Home] = None /\ (ready' <=> ready)
      BY <1>1, <1>9 DEF Evict
  <2>2. replay' # None => replay # None /\ replay'[Home] = None
      BY <1>0, <1>1, <1>9, TypedParts DEF Evict, KeptOK
  <2> QED BY <1>0, <2>1, <2>2 DEF FreshSettled, Kept, Fresh
<1>10. ASSUME NEW m \in Machines, m # Home,
              NewEvent(m) \/ Daemon(m) \/ Stream(m) \/ Thread(m) \/ User(m) \/ Network(m)
       PROVE  (FreshSettled /\ Kept)'
    BY <1>0, <1>10, Elsewhere, StillKeeps
<1> QED BY <1>1, <1>2, <1>3, <1>4, <1>5, <1>6, <1>7, <1>8, <1>9, <1>10, StreamKeeps, ThreadKeeps, Zenon
        DEF Next, Daemon, User, Network

-----------------------------------------------------------------------------
(* The invariant, and what it gives.                                       *)

LEMMA InitIInv == Init => IInv
<1> SUFFICES ASSUME Init PROVE IInv
    OBVIOUS
<1> USE PhoneAssumption
<1>1. TypeOK
  <2>1. LogOK /\ LeftOK /\ LinkOK /\ StreamOK /\ CursorOK
      BY DEF Init, Started, LogOK, LeftOK, LinkOK, StreamOK, Streams, CursorOK
  <2>2. CopyOK /\ DiskOK /\ MarkOK /\ NoMark /\ KeptOK /\ RestoredOK /\ ReadingOK
      BY DEF Init, Started, CopyOK, DiskOK, MarkOK, NoMark, KeptOK, RestoredOK, ReadingOK
  <2>3. LoadOK
      BY DEF Init, Started, LoadOK, LoadsOut, NoLoad, Revisions
  <2> QED BY <2>1, <2>2, <2>3, Parts
<1>2. Followed /\ Resumable /\ Replayable
    BY DEF Init, Started, NoLoad, Followed, Following, Resumable, Replayable
<1>3. Known /\ Newer
    BY DEF Init, Started, NoLoad, Known, Newer
<1>4. HomeInv
    BY DEF Init, Started, NoLoad, HomeInv, Whole, Collected, FreshSettled, Kept, Connected, Fresh
<1> QED BY <1>1, <1>2, <1>3, <1>4 DEF IInv, Typed

LEMMA Inductive == IInv /\ [Next]_vars => IInv'
  BY TypedStep, KnownStep, NewerStep, WholeStep, CollectedStep, MarksStep, ConnectedStep DEF IInv, HomeInv

\* Whatever connects, breaks off, is read, restored, evicted or started again, the
\* state has its type, and an evicted transcript has left no mark (ThreadCache).
THEOREM TypeCorrect == Spec => []TypeOK
<1>1. IInv => TypeOK
    BY DEF IInv, Typed
<1> QED BY <1>1, InitIInv, Inductive, PTL DEF Spec

\* A fresh transcript of the computer the phone is at misses nothing the phone was
\* sent, and one on disk has no gap: loadThread and resumeThread reach the cursor
\* with the events kept for them, and no mark outlives a break (ThreadCache).
THEOREM NothingMissed == Spec => []NoGap
<1>1. IInv => NoGap
  <2> SUFFICES ASSUME IInv PROVE NoGap
      OBVIOUS
  <2>1. Typed /\ Whole /\ FreshSettled
      BY DEF IInv, HomeInv
  <2>2. Fresh(Home) => Complete(Home)
      BY <2>1, Zenon DEF Whole, FreshSettled, Settled, Fresh, Complete
  <2> QED BY <2>1, <2>2 DEF NoGap, Whole
<1> QED BY <1>1, InitIInv, Inductive, PTL DEF Spec

\* No transcript in memory goes back, of any machine: a page read and the events
\* kept for it are never behind the copy they replace (loadThread, applyEvent).
THEOREM NeverGoesBack == Spec => NeverBack
<1>1. IInv /\ [Next]_vars => [Forward]_vars
    BY ForwardStep DEF IInv
<1> QED BY <1>1, InitIInv, Inductive, PTL DEF Spec, NeverBack

-----------------------------------------------------------------------------
\* A stream that was acknowledged, and has reached its barrier if it replays, serves requests.
Serving == stream[Home] \in {"start", "live"} => ready

LEMMA ServingStep == Typed /\ Serving /\ [Next]_vars => Serving'
<1> SUFFICES ASSUME Typed, Serving, [Next]_vars PROVE Serving'
    OBVIOUS
<1>0. StreamOK /\ Home \in Machines
    BY TypedParts, PhoneAssumption
<1> USE <1>0 DEF Serving, StreamOK, Streams, connection, cache, screen, Loads, Subscribed
<1>1. CASE UNCHANGED vars
    BY <1>1 DEF vars
<1>2. CASE Relaunch
    BY <1>2 DEF Relaunch, Started
<1>3. ASSUME NEW m \in Machines, NewEvent(m) \/ Daemon(m) PROVE Serving'
    BY <1>3 DEF NewEvent, Daemon, ServeSubscribe, ServeRead
<1>4. ASSUME NEW m \in Machines, Stream(m) PROVE Serving'
  <2>1. CASE StartFollowing(m)
      BY <2>1 DEF StartFollowing
  <2>2. CASE ResumeFollowing(m)
      BY <2>2 DEF ResumeFollowing
  <2>3. CASE Deliver(m)
      BY <2>3 DEF Deliver
  <2>4. CASE m = Home /\ HomeReady
      BY <2>4 DEF HomeReady, AtBarrier
  <2>5. CASE AwayReady(m)
      BY <2>5 DEF AwayReady
  <2> QED BY <1>4, <2>1, <2>2, <2>3, <2>4, <2>5, Zenon DEF Stream
<1>5. ASSUME NEW m \in Machines, Thread(m) PROVE Serving'
    BY <1>5 DEF Thread, DiskShown, EnsureResumes, EnsureReads, ReadAnswered, ResumeAnswered, ResumeTimesOut
<1>6. ASSUME NEW m \in Machines, User(m) PROVE Serving'
    BY <1>6 DEF User, Open, Close, Prefetch, Evict, Save
<1>7. ASSUME NEW m \in Machines, Network(m) PROVE Serving'
    BY <1>7 DEF Network, LinkUp, Lagged, LinkDown
<1> QED BY <1>1, <1>2, <1>3, <1>4, <1>5, <1>6, <1>7, Zenon DEF Next

-----------------------------------------------------------------------------
\* Steps of another thread leave what attends to this one.
LEMMA AttendedElsewhere ==
    ASSUME Typed, Attended, NEW m \in Machines, m # Home,
           NewEvent(m) \/ Daemon(m) \/ Stream(m) \/ Thread(m) \/ User(m) \/ Network(m)
    PROVE  Attended'
<1>0. LinkOK /\ ReadingOK /\ Home \in Machines
    BY TypedParts, PhoneAssumption
<1>1. Still
    BY Elsewhere
<1>2. open'[Home] = open[Home] /\ link'[Home] = link[Home] /\ reading'[Home] = reading[Home]
  <2> USE <1>0 DEF LinkOK, ReadingOK, connection, cache, screen, Loads, Ensures, Restore
  <2>1. CASE NewEvent(m) \/ Daemon(m)
      BY <2>1 DEF NewEvent, Daemon, ServeSubscribe, ServeRead
  <2>2. CASE Stream(m)
      BY <2>2 DEF Stream, StartFollowing, ResumeFollowing, Deliver, AwayReady
  <2>3. CASE Thread(m)
      BY <2>3 DEF Thread, DiskShown, EnsureResumes, EnsureReads, ReadAnswered, ResumeAnswered, ResumeTimesOut
  <2>4. CASE User(m)
      BY <2>4 DEF User, Open, Close, Prefetch, Evict, Save
  <2>5. CASE Network(m)
      BY <2>5 DEF Network, LinkUp, LinkDown, Lagged
  <2> QED BY <2>1, <2>2, <2>3, <2>4, <2>5
<1> QED BY <1>1, <1>2 DEF Attended, Still, Fresh

\* Steps that leave this thread's marks, and whether it is read.
Quiet ==
    /\ copy'[Home] = copy[Home] /\ stale'[Home] = stale[Home] /\ (ready' => ready)
    /\ load'[Home].kind = load[Home].kind /\ reading'[Home] = reading[Home]
    /\ (open'[Home] => open[Home]) /\ (link'[Home] => link[Home])

LEMMA QuietKeeps == ASSUME Attended, Quiet PROVE Attended'
  BY DEF Attended, Quiet, Fresh

\* Every step leaves a transcript on screen that is behind with somebody who catches it up.
LEMMA AttendedStep == Typed /\ Attended /\ [Next]_vars => Attended'
<1> SUFFICES ASSUME Typed, Attended, [Next]_vars PROVE Attended'
    OBVIOUS
<1> USE PhoneAssumption
<1>0. /\ Home \in Machines /\ load[Home] \in LoadsOut /\ load \in [Machines -> LoadsOut]
      /\ copy \in [Machines -> Copies \union {None}] /\ stale \in [Machines -> Nat]
      /\ reading \in [Machines -> {"no", "shown", "ensure"}]
      /\ open \in [Machines -> BOOLEAN] /\ link \in [Machines -> BOOLEAN]
    BY HomeTyped, TypedParts DEF LoadOK, CopyOK, MarkOK, ReadingOK, LinkOK
<1>1. CASE UNCHANGED vars
    BY <1>1, QuietKeeps DEF vars, cache, connection, screen, Quiet
<1>2. CASE Relaunch
    BY <1>0, <1>2 DEF Relaunch, Started, Attended
<1>3. CASE NewEvent(Home) \/ ServeSubscribe(Home) \/ Lagged(Home)
    BY <1>3, QuietKeeps DEF NewEvent, ServeSubscribe, Lagged, cache, connection, screen, Quiet
<1>4. CASE ServeRead(Home)
  <2>1. load'[Home] = [load[Home] EXCEPT !.answer = head[Home]]
      BY <1>0, <1>4 DEF ServeRead
  <2>2. load'[Home].kind = load[Home].kind
      BY <1>0, <2>1 DEF LoadsOut
  <2> QED BY <1>4, <2>2, QuietKeeps DEF ServeRead, cache, connection, screen, Quiet
<1>5. CASE LinkUp(Home)
    BY <1>0, <1>5 DEF LinkUp, Ensures, Shown, Attended
<1>6. CASE LinkDown(Home)
    BY <1>0, <1>6 DEF LinkDown, Attended
<1>7. CASE Open(Home)
  <2>1. /\ UNCHANGED <<copy, stale, ready, load, link>>
        /\ link[Home] /\ ~Fresh(Home) => reading'[Home] = "ensure"
      BY <1>0, <1>7 DEF Open, cache
  <2> QED BY <2>1 DEF Attended, Fresh
<1>8. CASE Close(Home)
    BY <1>0, <1>8 DEF Close, Attended
<1>9. CASE Save(Home)
    BY <1>9, QuietKeeps DEF Save, cache, connection, screen, Quiet
<1>10. CASE Prefetch(Home) \/ Evict(Home)
    BY <1>10 DEF Prefetch, Evict, screen, Attended
<1>11. CASE StartFollowing(Home)
  <2>1. load'[Home] = (IF Home \in Shown /\ load[Home].kind = "none" /\ Served(Home)
                       THEN Out("get", Revision(Home)') ELSE load[Home])
      BY <1>0, <1>11 DEF StartFollowing, Loads
  <2>2. UNCHANGED <<open, link>> /\ ready'
      BY <1>11 DEF StartFollowing, screen
  <2>3. Home \in Shown <=> open[Home]
      BY <1>0 DEF Shown
  <2>4. open[Home] /\ link[Home] => load'[Home].kind # "none"
      BY <2>1, <2>2, <2>3, OutFacts DEF Served
  <2> QED BY <2>2, <2>4 DEF Attended
<1>12. CASE ResumeFollowing(Home)
    BY <1>12 DEF ResumeFollowing, Attended
<1>13. CASE Deliver(Home)
  <2>1. load'[Home] = Buffered(load[Home], cursor[Home] + 1)
      BY <1>0, <1>13 DEF Deliver
  <2>2. load'[Home].kind = load[Home].kind
      BY <1>0, <2>1 DEF Buffered, LoadsOut
  <2>3. UNCHANGED <<open, reading, link, ready>>
      BY <1>13 DEF Deliver, screen
  <2>4. Fresh(Home) => copy'[Home] = Apply(copy[Home], cursor[Home] + 1, cursor[Home] + 1) /\ stale' = stale
      BY <1>0, <1>13 DEF Deliver, Fresh
  <2>5. Fresh(Home) => Fresh(Home)'
    <3>1. Typed'
        BY TypedStep
    <3>2. CursorOK /\ LogOK /\ Followed
        BY TypedParts
    <3>3. cursor[Home] \in Nat
        BY <1>0, <1>13, <3>2 DEF Deliver, Followed, CursorOK
    <3>4. copy[Home] # None => Apply(copy[Home], cursor[Home] + 1, cursor[Home] + 1) \in Copies
        BY <1>0, <3>3, ApplyType
    <3> QED BY <2>4, <3>4 DEF Fresh, Copies
  <2> QED BY <2>2, <2>3, <2>5 DEF Attended
<1>14. CASE HomeReady
  <2>1. CASE stream[Home] = "replay"
    <3>1. Ensures(Shown) /\ UNCHANGED open
        BY <1>14, <2>1 DEF HomeReady
    <3> QED BY <1>0, <3>1 DEF Ensures, Shown, Attended
  <2>2. CASE stream[Home] # "replay"
      BY <1>14, <2>2, QuietKeeps DEF HomeReady, Quiet
  <2> QED BY <2>1, <2>2
<1>15. CASE DiskShown(Home)
  <2>1. reading[Home] = "shown" /\ UNCHANGED <<open, link, ready, load>>
      BY <1>15 DEF DiskShown, connection
  <2>2. Fresh(Home) => Fresh(Home)'
      BY <1>15 DEF DiskShown, Restore, Fresh
  <2> QED BY <2>1, <2>2 DEF Attended
<1>16. CASE EnsureResumes(Home)
  <2>1. load'[Home] = Out("resume", Revision(Home)')
      BY <1>0, <1>16 DEF EnsureResumes
  <2> QED BY <2>1, OutFacts DEF Attended
<1>17. CASE EnsureReads(Home)
  <2>1. ~Fresh(Home)' => load'[Home] = IF load[Home].kind = "none" /\ Served(Home)
                                       THEN Out("get", Revision(Home)') ELSE load[Home]
      BY <1>0, <1>17 DEF EnsureReads, Loads
  <2>2. UNCHANGED link
      BY <1>17 DEF EnsureReads
  <2> QED BY <2>1, <2>2, OutFacts DEF Attended, Served
<1>18. CASE ReadAnswered(Home)
  <2>1. UNCHANGED <<open, ready>> /\ Ensures(IF ready THEN Shown \cap {Home} ELSE {})
      BY <1>18 DEF ReadAnswered
  <2> QED BY <1>0, <2>1 DEF Ensures, Shown, Attended
<1>19. CASE ResumeAnswered(Home) \/ ResumeTimesOut(Home)
  <2>1. /\ UNCHANGED <<link, ready>>
        /\ Fresh(Home)' \/ ReadInstead(Home)
      BY <1>19 DEF ResumeAnswered, ResumeTimesOut, connection
  <2>2. ReadInstead(Home) => load'[Home] = IF Served(Home) THEN Out("get", Revision(Home)') ELSE NoLoad
      BY <1>0 DEF ReadInstead
  <2> QED BY <2>1, <2>2, OutFacts DEF Attended, Served
<1>20. ASSUME NEW m \in Machines, m # Home,
              NewEvent(m) \/ Daemon(m) \/ Stream(m) \/ Thread(m) \/ User(m) \/ Network(m)
       PROVE  Attended'
    BY <1>20, AttendedElsewhere
<1>21. CASE Stream(Home)
    BY <1>11, <1>12, <1>13, <1>14, <1>21 DEF Stream, AwayReady
<1>22. CASE Thread(Home)
    BY <1>15, <1>16, <1>17, <1>18, <1>19, <1>22, Zenon DEF Thread
<1> QED BY <1>0, <1>1, <1>2, <1>3, <1>4, <1>5, <1>6, <1>7, <1>8, <1>9, <1>10, <1>20, <1>21, <1>22, Zenon
        DEF Next, Daemon, User, Network

\* When the thread of the computer the phone is at is on screen, its stream has
\* brought every event and nothing is read for it, the transcript shows all of it:
\* no break, answer or eviction leaves one behind that nothing catches up
\* (ensureThread, loadThread, resumeThread, finishReplay).
THEOREM RestIsComplete == Spec => []RestShows
<1> USE PhoneAssumption
<1> DEFINE J == IInv /\ Serving /\ Attended
<1>1. Init => J
  <2>1. Init => IInv
      BY InitIInv
  <2>2. Init => Serving /\ Attended
      BY DEF Init, Started, Serving, Attended
  <2> QED BY <2>1, <2>2
<1>2. J /\ [Next]_vars => J'
    BY Inductive, ServingStep, AttendedStep DEF IInv
<1>3. J => RestShows
  <2> SUFFICES ASSUME J, AtRest PROVE ShowsAll(Home) /\ Fresh(Home)
      BY DEF RestShows
  <2>1. Typed /\ Known /\ Whole /\ FreshSettled
      BY DEF IInv, HomeInv
  <2>2. /\ Home \in Machines /\ head[Home] \in Nat /\ copy[Home] \in Copies \union {None}
        /\ cursor[Home] = head[Home] /\ cursor[Home] # None
      BY <2>1, HomeTyped DEF AtRest
  <2>3. Fresh(Home)
      BY DEF AtRest, Serving, Attended
  <2>4. copy[Home] \in Copies /\ copy[Home].whole /\ copy[Home].last <= head[Home] /\ head[Home] <= copy[Home].last
      BY <2>1, <2>2, <2>3 DEF Known, Whole, FreshSettled, Settled, Fresh
  <2>5. copy[Home].last = head[Home] /\ copy[Home].whole = TRUE
      BY <2>2, <2>4 DEF Copies
  <2>6. copy[Home] = [last |-> head[Home], whole |-> TRUE]
      BY <2>4, <2>5 DEF Copies
  <2> QED BY <2>3, <2>6 DEF ShowsAll, Fresh
<1> QED BY <1>1, <1>2, <1>3, PTL DEF Spec
=============================================================================
