---------------------------- MODULE MachineSlot ----------------------------
(***************************************************************************)
(* One machine of a client's machine set (kybern-client machines.ts), a    *)
(* member of its network: the slot that holds its connection, the attempts *)
(* that look for a route, and this device's token for it.                  *)
(*                                                                         *)
(* findRoute reads the token (or has a member mint one), checks and opens  *)
(* one route after the other, and may run several times at once: in the    *)
(* attempt, in attempts that were superseded and in a probe for a better   *)
(* route.  A generation tells the runs that count from the others; here a  *)
(* run is current or not.                                                  *)
(*                                                                         *)
(* A route is its rank.  Relays through other machines, connections the    *)
(* app opens itself, lists, the lengths of waits and the words of errors   *)
(* are left out, and a machine that was removed is not added again.        *)
(***************************************************************************)
EXTENDS Naturals, FiniteSets

CONSTANTS
    MaxRoutes,     \* the routes of the machine, best first
    MaxRuns,       \* bounds what findRoute has going, and the clients it has opened
    Budgets,       \* bounds: what the network, other devices and the user do
    None

\* resume: a machine is resumed while an attempt from before its pause still runs.
\* forgotten: a machine is removed while a caller still holds its slot: reach, which
\* waits for an attempt, addMachine, which saves a token, or a list of mapLimit.
Mishaps == {"resume", "forgotten"}
Budget == [drops : Nat, moves : Nat, grants : Nat, asks : Nat, pauses : Nat, stuck : Nat,
           may : SUBSET Mishaps]

Routes == 1 .. MaxRoutes
Runs == 1 .. MaxRuns

ASSUME SlotAssumption ==
    MaxRoutes \in Nat /\ MaxRuns \in Nat \ {0} /\ Budgets \subseteq Budget /\ None \notin Nat

VARIABLES
    answers,   \* who answers at each route: "none", "self" or "other"
    valid,     \* the token the machine takes
    member,    \* a member of the network can be asked for one
    elsewhere, \* a token this device was granted and has not saved yet
    saved,     \* CredentialStore: this device's token
    mintable,  \* the last mint is long enough ago
    listed,    \* the machine is in the set
    paused,    \* record.paused
    blocked,   \* record.blockedRoutes
    slot,      \* what the set knows of the machine
    run,       \* the runs of findRoute
    client,    \* the KybernClients they opened
    awaited,   \* the attempt a call of reach waits for
    pairing,   \* addMachine: "no", or it has read the slot and is "saving" or has "saved"
    queued,    \* the slot is in a list that mapLimit has not come to yet
    left       \* what is left of the budget

world == <<answers, valid, member, elsewhere>>
tokens == <<saved, mintable>>
record == <<listed, paused, blocked>>
callers == <<awaited, pairing, queued>>
vars == <<world, tokens, record, slot, run, client, callers, left>>

May(mishap) == mishap \in left.may

NoRun == [pc |-> "idle", kind |-> "attempt", current |-> FALSE, route |-> 0, before |-> 0,
          token |-> None, again |-> FALSE]
NoClient == [state |-> "none", route |-> 0, token |-> None]

Started(kind, before) ==
    [NoRun EXCEPT !.pc = "token", !.kind = kind, !.current = TRUE, !.before = before]

\* slot.gen++
Superseded(rs) == [r \in Runs |-> [rs[r] EXCEPT !.current = FALSE]]

Unused(cs) == {r \in Runs : run[r].pc = "idle" /\ cs[r].state = "none" /\ r # awaited}
Free(cs) == {r \in Unused(cs) : \A o \in Unused(cs) : r <= o}

Live == slot.status = "live"
Closed(cs, c) == IF c = None THEN cs ELSE [cs EXCEPT ![c] = NoClient]

-----------------------------------------------------------------------------
(* Connections come and go.                                                *)

Parked(s) == [s EXCEPT !.status = "paused", !.conn = None, !.grace = FALSE, !.retry = FALSE]

\* goOffline: an inner client is closed, and a machine that is not paused is tried again.
Offline(s, status) ==
    IF paused THEN Parked(s)
    ELSE [s EXCEPT !.status = status, !.conn = None, !.grace = FALSE, !.retry = TRUE]

\* adopt
Adopted(s, r) ==
    [s EXCEPT !.status = "live", !.conn = r, !.grace = FALSE, !.retry = FALSE]

\* connectSlot for a machine that is not paused, from what its slot and clients
\* are by then.  An attempt that is under way is shared, unless it is too old.
Dial(s, cs, l) ==
    /\ client' = cs
    /\ \/ /\ s.attempt # None
          /\ slot' = s /\ run' = run /\ left' = l
       \/ /\ s.attempt # None => l.stuck > 0
          /\ \E r \in Free(cs) :
                /\ slot' = [s EXCEPT !.attempt = r, !.retry = FALSE]
                /\ run' = [Superseded(run) EXCEPT ![r] = Started("attempt", MaxRoutes + 1)]
          /\ left' = IF s.attempt # None THEN [l EXCEPT !.stuck = @ - 1] ELSE l

\* connectSlot
Connect(s, cs, l) ==
    \/ paused /\ slot' = Parked(s) /\ run' = Superseded(run) /\ client' = Closed(cs, s.conn) /\ left' = l
    \/ ~paused /\ Dial(s, cs, l)

\* failover
Failover(s, cs, l) ==
    IF s.attempt # None THEN slot' = s /\ run' = run /\ client' = cs /\ left' = l
    ELSE Connect(s, cs, l)

\* probeBetter
ProbeBetter(l) ==
    /\ left' = l /\ client' = client
    /\ IF slot.attempt # None \/ slot.probing \/ slot.conn = None \/ ~Live
       THEN UNCHANGED <<slot, run>>
       ELSE \E r \in Free(client) :
               /\ slot' = [slot EXCEPT !.probing = TRUE]
               /\ run' = [run EXCEPT ![r] = Started("probe", client[slot.conn].route)]

-----------------------------------------------------------------------------
(* findRoute.                                                              *)

\* Mutant: the attempt that ended is shared for ever.
ReleasedKept(r) ==
    IF run[r].kind = "probe" THEN [slot EXCEPT !.probing = FALSE] ELSE slot

\* What the caller of a run does in the end, whatever was found.
Released(r) ==
    IF run[r].kind = "probe" THEN [slot EXCEPT !.probing = FALSE]
    ELSE [slot EXCEPT !.attempt = IF @ = r THEN None ELSE @]

\* No route: an attempt that counts takes the machine offline.
NotFound(r, status, cs) ==
    /\ run' = [run EXCEPT ![r] = NoRun]
    /\ IF run[r].current /\ run[r].kind = "attempt"
       THEN slot' = Offline(Released(r), status) /\ client' = Closed(cs, slot.conn)
       ELSE slot' = Released(r) /\ client' = cs

\* The next route of the list that is not blocked.
NextRoute(r, x, cs) ==
    LET rest == {k \in Routes : x.route < k /\ k < x.before /\ k \notin blocked} IN
    IF ~x.current \/ rest = {} THEN NotFound(r, "offline", cs)
    ELSE \E k \in rest :
            /\ \A j \in rest : k <= j
            /\ run' = [run EXCEPT ![r] = [x EXCEPT !.pc = "verify", !.route = k, !.again = FALSE]]
            /\ client' = cs /\ UNCHANGED slot

\* open: createClient and connect.
Opening(r, x) ==
    /\ run' = [run EXCEPT ![r] = [x EXCEPT !.pc = "open"]]
    /\ client' = [client EXCEPT ![r] = [state |-> "connecting", route |-> x.route, token |-> x.token]]
    /\ UNCHANGED slot

\* token has returned: the first time the routes are listed, later the route is opened again.
WithToken(r, t) ==
    LET x == [run[r] EXCEPT !.token = t] IN
    IF x.again THEN Opening(r, x) ELSE NextRoute(r, x, client)

\* token: the saved one, else one that a member mints, not too often.
TokenRead(r) ==
    /\ run[r].pc = "token"
    /\ UNCHANGED <<world, record, callers, left, saved>>
    /\ \/ saved # None /\ WithToken(r, saved) /\ UNCHANGED mintable
       \/ saved = None /\ ~member /\ NotFound(r, "unpaired", client) /\ UNCHANGED mintable
       \/ saved = None /\ member /\ ~mintable /\ NotFound(r, "offline", client) /\ UNCHANGED mintable
       \/ /\ saved = None /\ member /\ mintable /\ mintable' = FALSE
          /\ run' = [run EXCEPT ![r].pc = "mint"] /\ UNCHANGED <<slot, client>>

\* network.client_grant: the machine takes the new token only.
Minted(r) ==
    /\ run[r].pc = "mint" /\ member
    /\ valid' = valid + 1
    /\ run' = [run EXCEPT ![r].pc = "save", ![r].token = valid']
    /\ UNCHANGED <<answers, member, elsewhere, tokens, record, slot, client, callers, left>>

\* The call does not get there, or its answer does not get back.
MintFails(r) ==
    /\ run[r].pc = "mint"
    /\ NotFound(r, "unpaired", client)
    /\ \/ ~member /\ UNCHANGED <<valid, left>>
       \/ /\ member /\ left.drops > 0 /\ left' = [left EXCEPT !.drops = @ - 1]
          /\ valid' \in {valid, valid + 1}
    /\ UNCHANGED <<answers, member, elsewhere, tokens, record, callers>>

TokenSaved(r) ==
    /\ run[r].pc = "save" /\ saved' = run[r].token
    /\ UNCHANGED <<world, mintable, record, callers, left>>
    /\ WithToken(r, run[r].token)

\* verifyRoute; an address that answers as another machine is blocked.
Verified(r) ==
    /\ run[r].pc = "verify"
    /\ UNCHANGED <<world, tokens, listed, paused, callers, left>>
    /\ LET x == run[r] IN
       \/ /\ answers[x.route] = "none" /\ UNCHANGED blocked /\ NextRoute(r, x, client)
       \/ /\ answers[x.route] = "other"
          /\ blocked' = blocked \union {x.route} /\ NextRoute(r, x, client)
       \/ /\ answers[x.route] = "self" /\ UNCHANGED blocked
          /\ IF x.current THEN Opening(r, x) ELSE NotFound(r, "offline", client)

\* Mutant: whatever opened becomes the machine's.
OpenedAdopted(r) ==
    /\ run[r].pc = "open" /\ answers[run[r].route] = "self" /\ run[r].token = valid
    /\ run' = [run EXCEPT ![r] = NoRun]
    /\ slot' = Adopted(Released(r), r)
    /\ client' = [Closed(client, slot.conn) EXCEPT ![r].state = "open"]
    /\ UNCHANGED <<world, tokens, record, callers, left>>

\* The client is open, and becomes the machine's unless the run was superseded.
Opened(r) ==
    /\ run[r].pc = "open" /\ answers[run[r].route] = "self" /\ run[r].token = valid
    /\ run' = [run EXCEPT ![r] = NoRun]
    /\ IF run[r].current
       THEN /\ slot' = Adopted(Released(r), r)
            /\ client' = [Closed(client, slot.conn) EXCEPT ![r].state = "open"]
       ELSE /\ slot' = Released(r)
            /\ client' = Closed(client, r)
    /\ UNCHANGED <<world, tokens, record, callers, left>>

\* Mutant: a refused token stays.
RefusedKept(r) ==
    /\ run[r].pc = "open" /\ answers[run[r].route] = "self" /\ run[r].token # valid
    /\ UNCHANGED <<world, tokens, record, callers, left>>
    /\ NextRoute(r, run[r], Closed(client, r))

\* The machine refuses the token: once per route, look for another.
Refused(r) ==
    /\ run[r].pc = "open" /\ answers[run[r].route] = "self" /\ run[r].token # valid
    /\ UNCHANGED <<world, tokens, record, callers, left>>
    /\ IF ~run[r].current \/ run[r].again
       THEN NextRoute(r, run[r], Closed(client, r))
       ELSE /\ run' = [run EXCEPT ![r].pc = "reread", ![r].again = TRUE]
            /\ client' = Closed(client, r) /\ UNCHANGED slot

\* It does not open in time, or another machine answers.
OpenFails(r) ==
    /\ run[r].pc = "open" /\ answers[run[r].route] # "self"
    /\ UNCHANGED <<world, tokens, record, callers, left>>
    /\ NextRoute(r, run[r], Closed(client, r))

\* Another window may have saved a fresh token; only the refused one is discarded.
TokenReread(r) ==
    /\ run[r].pc = "reread"
    /\ UNCHANGED <<world, tokens, record, callers, left>>
    /\ IF ~run[r].current THEN NotFound(r, "offline", client)
       ELSE IF saved # None /\ saved # run[r].token
            THEN Opening(r, [run[r] EXCEPT !.token = saved])
            ELSE run' = [run EXCEPT ![r].pc = "discard"] /\ UNCHANGED <<slot, client>>

Discarded(r) ==
    /\ run[r].pc = "discard" /\ saved' = None
    /\ run' = [run EXCEPT ![r].pc = "token"]
    /\ UNCHANGED <<world, mintable, record, slot, client, callers, left>>

FindRoute(r) ==
    \/ TokenRead(r) \/ Minted(r) \/ MintFails(r) \/ TokenSaved(r) \/ Verified(r) \/ Opened(r)
    \/ Refused(r) \/ OpenFails(r) \/ TokenReread(r) \/ Discarded(r)

-----------------------------------------------------------------------------
(* What the machine's client reports (onInnerStatus).                      *)

Conn == client[slot.conn]

\* Mutant: a client that reconnects is left to itself.
ReportsOnly(status) == slot' = [slot EXCEPT !.status = status]

\* The grace timer runs while the client is away.
Reports(status) == slot' = [slot EXCEPT !.status = status, !.grace = (status = "offline")]

Drops ==
    /\ slot.conn # None /\ Conn.state = "open"
    /\ left.drops > 0 /\ left' = [left EXCEPT !.drops = @ - 1]
    /\ client' = [client EXCEPT ![slot.conn].state = "reconnecting"] /\ Reports("offline")
    /\ UNCHANGED <<world, tokens, record, run, callers>>

Reopens ==
    /\ slot.conn # None /\ Conn.state = "reconnecting"
    /\ answers[Conn.route] = "self" /\ Conn.token = valid
    /\ client' = [client EXCEPT ![slot.conn].state = "open"] /\ Reports("live")
    /\ UNCHANGED <<world, tokens, record, run, callers, left>>

\* The machine takes the token no longer, or another one answers.
Fails ==
    /\ slot.conn # None
    /\ \/ Conn.state \in {"open", "reconnecting"} /\ Conn.token # valid /\ answers[Conn.route] = "self"
       \/ Conn.state = "reconnecting" /\ answers[Conn.route] = "other"
    /\ UNCHANGED <<world, tokens, record, callers>>
    /\ Failover([slot EXCEPT !.status = "offline"],
                [client EXCEPT ![slot.conn].state = "failed"], left)

-----------------------------------------------------------------------------
(* Timers.                                                                 *)

RetryFires ==
    /\ slot.retry
    /\ UNCHANGED <<world, tokens, record, callers>>
    /\ Connect([slot EXCEPT !.retry = FALSE], client, left)

GraceFires ==
    /\ slot.grace
    /\ UNCHANGED <<world, tokens, record, callers>>
    /\ Failover([slot EXCEPT !.grace = FALSE], client, left)

MintWaitEnds ==
    /\ ~mintable /\ mintable' = TRUE
    /\ UNCHANGED <<world, saved, record, slot, run, client, callers, left>>

Asked == [left EXCEPT !.asks = @ - 1]

ProbeTick ==
    /\ listed /\ Live /\ left.asks > 0
    /\ ProbeBetter(Asked)
    /\ UNCHANGED <<world, tokens, record, callers>>

-----------------------------------------------------------------------------
(* The user, the operating system and the network's other devices.         *)

\* setPaused, here or on another device (syncMembersOnce).
Pause ==
    /\ listed /\ ~paused /\ left.pauses > 0
    /\ paused' = TRUE
    /\ slot' = Parked(slot) /\ run' = Superseded(run) /\ client' = Closed(client, slot.conn)
    /\ left' = [left EXCEPT !.pauses = @ - 1]
    /\ UNCHANGED <<world, tokens, listed, blocked, callers>>

Abandoned == slot.attempt # None /\ ~run[slot.attempt].current

\* setPaused.  A sync that resumes the machine connects a little later (left out).
Resume ==
    /\ listed /\ paused
    /\ Abandoned => May("resume")
    /\ paused' = FALSE
    /\ Dial(slot, client, left)
    /\ UNCHANGED <<world, tokens, listed, blocked, callers>>

\* removeMachine, dropSlot
Remove ==
    /\ listed /\ left.pauses > 0
    /\ listed' = FALSE /\ saved' = None
    /\ slot' = [slot EXCEPT !.conn = None, !.retry = FALSE, !.grace = FALSE]
    /\ run' = Superseded(run) /\ client' = Closed(client, slot.conn)
    /\ left' = [left EXCEPT !.pauses = @ - 1]
    /\ UNCHANGED <<world, mintable, paused, blocked, callers>>

NetworkChanged ==
    /\ listed /\ left.asks > 0
    /\ UNCHANGED <<world, tokens, record, callers>>
    /\ IF Live THEN ProbeBetter(Asked)
       ELSE Connect([slot EXCEPT !.retry = FALSE], client, Asked)

\* clearBlockedRoutes connects, also when the machine is connected.
ClearBlocked ==
    /\ listed /\ blocked # {} /\ left.asks > 0
    /\ blocked' = {}
    /\ UNCHANGED <<world, tokens, listed, paused, callers>>
    /\ Connect(slot, client, Asked)

\* syncMembersOnce: a daemon saw the machine come back.
CameBack ==
    /\ listed /\ ~paused /\ member /\ slot.status \notin {"live", "unpaired"} /\ left.asks > 0
    /\ UNCHANGED <<world, tokens, record, callers>>
    /\ Connect([slot EXCEPT !.retry = FALSE], client, Asked)

\* What a caller that has waited does to the slot it holds, removed or not.
StillConnects ==
    /\ ~listed /\ ~paused => May("forgotten")
    /\ Connect(slot, client, left)

\* addMachine: the user paired the machine again; its slot is read before the token
\* is saved, and connected when that is done.
PairStarts ==
    /\ listed /\ elsewhere # None /\ pairing = "no" /\ pairing' = "saving"
    /\ UNCHANGED <<world, tokens, record, slot, run, client, awaited, queued, left>>

PairSaves ==
    /\ pairing = "saving" /\ pairing' = "saved"
    /\ saved' = elsewhere /\ elsewhere' = None
    /\ UNCHANGED <<answers, valid, member, mintable, record, slot, run, client, awaited, queued, left>>

PairAgain ==
    /\ pairing = "saved" /\ pairing' = "no"
    /\ UNCHANGED <<world, tokens, record, awaited, queued>>
    /\ StillConnects

\* ensureAll, connectAll: the machines that are not connected are listed, and
\* connected a few at a time.
ListSlots ==
    /\ listed /\ ~paused /\ ~Live /\ ~queued /\ left.asks > 0
    /\ queued' = TRUE /\ left' = Asked
    /\ UNCHANGED <<world, tokens, record, slot, run, client, awaited, pairing>>

ListConnects ==
    /\ queued /\ queued' = FALSE
    /\ UNCHANGED <<world, tokens, record, awaited, pairing>>
    /\ StillConnects

Reach ==
    /\ awaited = None /\ listed /\ ~Live /\ ~paused /\ left.asks > 0
    /\ UNCHANGED <<world, tokens, record, pairing, queued>>
    /\ Connect(slot, client, Asked)
    /\ awaited' = slot'.attempt

\* The awaited attempt has ended: reach tries once more, also when the machine was removed.
ReachNext ==
    /\ awaited # None /\ run[awaited].pc = "idle"
    /\ ~(listed /\ Live) /\ ~paused
    /\ awaited' = None
    /\ UNCHANGED <<world, tokens, record, pairing, queued>>
    /\ StillConnects

\* It waited long enough, or need not wait.
ReachEnds ==
    /\ awaited # None /\ awaited' = None
    /\ UNCHANGED <<world, tokens, record, slot, run, client, pairing, queued, left>>

-----------------------------------------------------------------------------
(* The network and other windows of this device.                           *)

RouteMoves ==
    /\ left.moves > 0 /\ left' = [left EXCEPT !.moves = @ - 1]
    /\ \E k \in Routes, who \in {"none", "self", "other"} : answers' = [answers EXCEPT ![k] = who]
    /\ UNCHANGED <<valid, member, elsewhere, tokens, record, slot, run, client, callers>>

MemberMoves ==
    /\ left.moves > 0 /\ left' = [left EXCEPT !.moves = @ - 1]
    /\ member' = ~member
    /\ UNCHANGED <<answers, valid, elsewhere, tokens, record, slot, run, client, callers>>

Granted ==
    /\ elsewhere = None /\ left.grants > 0 /\ left' = [left EXCEPT !.grants = @ - 1]
    /\ valid' = valid + 1 /\ elsewhere' = valid'
    /\ UNCHANGED <<answers, member, tokens, record, slot, run, client, callers>>

WindowSaves ==
    /\ elsewhere # None /\ pairing # "saving" /\ saved' = elsewhere /\ elsewhere' = None
    /\ UNCHANGED <<answers, valid, member, mintable, record, slot, run, client, callers, left>>

-----------------------------------------------------------------------------
\* ensureAll: the machine was read from the store, and connectAll has started its attempt.
Init ==
    /\ answers \in [Routes -> {"none", "self"}] /\ valid = 1 /\ member \in BOOLEAN /\ elsewhere = None
    /\ saved \in {None, 1} /\ mintable = TRUE
    /\ listed = TRUE /\ paused = FALSE /\ blocked = {}
    /\ slot = [status |-> "offline", conn |-> None, attempt |-> 1, probing |-> FALSE,
               retry |-> FALSE, grace |-> FALSE]
    /\ run = [r \in Runs |-> IF r = 1 THEN Started("attempt", MaxRoutes + 1) ELSE NoRun]
    /\ client = [r \in Runs |-> NoClient]
    /\ awaited = None /\ pairing = "no" /\ queued = FALSE
    /\ left \in Budgets

Reported == Drops \/ Reopens \/ Fails
Timer == RetryFires \/ GraceFires \/ MintWaitEnds \/ ProbeTick
User ==
    \/ Pause \/ Resume \/ Remove \/ NetworkChanged \/ ClearBlocked \/ CameBack
    \/ PairStarts \/ PairSaves \/ PairAgain \/ ListSlots \/ ListConnects \/ Reach \/ ReachNext \/ ReachEnds
Network == RouteMoves \/ MemberMoves \/ Granted \/ WindowSaves

Next == (\E r \in Runs : FindRoute(r)) \/ Reported \/ Timer \/ User \/ Network

Spec == Init /\ [][Next]_vars

\* Calls and opens end, by an answer or a timeout; a client that reconnects tries
\* its route until it opens or fails; timers fire.
Fairness ==
    /\ \A r \in Runs : WF_vars(FindRoute(r))
    /\ WF_vars(Reopens) /\ WF_vars(Fails)
    /\ WF_vars(RetryFires) /\ WF_vars(GraceFires) /\ WF_vars(MintWaitEnds)
    /\ WF_vars(ReachNext \/ ReachEnds)

FairSpec == Spec /\ Fairness

-----------------------------------------------------------------------------
(* Properties.                                                             *)

Token == Nat \union {None}
SlotState ==
    [status : {"live", "offline", "unpaired", "paused"}, conn : Runs \union {None},
     attempt : Runs \union {None}, probing : BOOLEAN, retry : BOOLEAN, grace : BOOLEAN]
RunState ==
    [pc : {"idle", "token", "mint", "save", "verify", "open", "reread", "discard"},
     kind : {"attempt", "probe"}, current : BOOLEAN, route : 0 .. MaxRoutes,
     before : 0 .. MaxRoutes + 1, token : Token, again : BOOLEAN]
ClientState ==
    [state : {"none", "connecting", "open", "reconnecting", "failed"},
     route : 0 .. MaxRoutes, token : Token]

\* The type invariant: the attempt of the slot is a run that still goes on.
TypeOK ==
    /\ answers \in [Routes -> {"none", "self", "other"}] /\ member \in BOOLEAN
    /\ valid \in Nat /\ elsewhere \in Token /\ saved \in Token /\ mintable \in BOOLEAN
    /\ listed \in BOOLEAN /\ paused \in BOOLEAN /\ blocked \in SUBSET Routes
    /\ slot \in SlotState /\ run \in [Runs -> RunState] /\ client \in [Runs -> ClientState]
    /\ awaited \in Runs \union {None} /\ pairing \in {"no", "saving", "saved"} /\ queued \in BOOLEAN
    /\ left \in Budget
    /\ slot.attempt # None => run[slot.attempt].pc # "idle" /\ run[slot.attempt].kind = "attempt"

Attempts == {r \in Runs : run[r].current /\ run[r].kind = "attempt"}

\* Every client is the machine's or still being opened, only the newest attempt
\* counts, and the machine is live exactly while its client is open.  Of a machine
\* that is paused, or removed while nobody held its slot (that is, without the mishap
\* "forgotten"), no client, timer or run that counts is left.
NothingLeaks ==
    /\ \A r \in Runs : client[r].state = "none" \/ r = slot.conn \/ run[r].pc = "open"
    /\ Attempts \subseteq {slot.attempt}
    /\ slot.conn # None => run[slot.conn].pc = "idle" /\ Conn.state \in {"open", "reconnecting", "failed"}
    /\ listed => (Live <=> slot.conn # None /\ Conn.state = "open")
    /\ (paused \/ (~listed /\ ~May("forgotten"))) =>
          slot.conn = None /\ ~slot.retry /\ ~slot.grace /\ \A r \in Runs : ~run[r].current

\* connectSlot: a machine that is neither paused nor connected is always about to
\* be tried again: by the attempt under way, by the retry, or after the grace period.
NeverIdle ==
    listed /\ ~paused /\ ~May("resume") =>
        Live \/ slot.retry \/ slot.grace \/ Attempts # {}

\* Some route leads to the machine, and a token for it is at hand.
Reachable ==
    /\ listed /\ ~paused /\ ~May("resume")
    /\ \E k \in Routes \ blocked : answers[k] = "self"
    /\ member \/ saved = valid

\* A machine that can be reached from some time on is connected in the end, whatever
\* happened before: lost and revoked tokens, moved addresses, pauses, abandoned attempts.
Connects == <>[]Reachable => <>[]Live

=============================================================================
