-------------------------- MODULE MachineSlotProofs --------------------------
(* The safety properties of MachineSlot, for any number of routes and runs  *)
(* and any budgets: types, nothing outlives a pause, or a removal while       *)
(* nobody holds the slot, and a machine that is not connected is always       *)
(* about to be tried again, unless it was resumed too soon.                   *)
EXTENDS MachineSlot, TLAPS

(* The inductive invariant.  What it says of the slot, the runs and the     *)
(* clients has them as parameters, so that each way to change them is a      *)
(* lemma without primes; on, off and may are listed, paused and left.may.    *)

Shape(s, rs, cs) ==
    /\ s \in SlotState /\ rs \in [Runs -> RunState] /\ cs \in [Runs -> ClientState]
    /\ s.attempt # None => rs[s.attempt].pc # "idle" /\ rs[s.attempt].kind = "attempt"
    /\ \A r \in Runs : rs[r].pc = "verify" => rs[r].route \in Routes
    /\ \A r \in Runs : cs[r].state = "none" \/ r = s.conn \/ rs[r].pc = "open"
    /\ \A r \in Runs : rs[r].current /\ rs[r].kind = "attempt" => r = s.attempt
    /\ s.conn # None => rs[s.conn].pc = "idle" /\ cs[s.conn].state \in {"open", "reconnecting", "failed"}

Shown(s, cs) == s.status = "live" <=> s.conn # None /\ cs[s.conn].state = "open"
Gone(s, rs) == s.conn = None /\ ~s.retry /\ ~s.grace /\ \A r \in Runs : ~rs[r].current
Counts(s, rs) == s.attempt # None => rs[s.attempt].current
Awake(s) == s.status = "live" \/ s.retry \/ s.grace \/ s.attempt # None

Over(on, off, may) == off \/ (~on /\ "forgotten" \notin may)
Wanted(on, off, may) == on /\ ~off /\ "resume" \notin may

Sound(s, rs, cs, on, off, may) ==
    /\ Shape(s, rs, cs)
    /\ on => Shown(s, cs)
    /\ Over(on, off, may) => Gone(s, rs)
    /\ Wanted(on, off, may) => Counts(s, rs) /\ Awake(s)

World == answers \in [Routes -> {"none", "self", "other"}] /\ member \in BOOLEAN
Tokens == valid \in Nat /\ elsewhere \in Token /\ saved \in Token /\ mintable \in BOOLEAN
Record == listed \in BOOLEAN /\ paused \in BOOLEAN /\ blocked \in SUBSET Routes
Holders == pairing \in {"no", "saving", "saved"} /\ queued \in BOOLEAN
Callers == awaited \in Runs \union {None} /\ Holders
Rest == Callers /\ left \in Budget
Outer == World /\ Tokens /\ Record /\ Rest

Inner == Sound(slot, run, client, listed, paused, left.may)
IInv == Outer /\ Inner

LEMMA Names == None \notin Runs /\ None \in Token /\ Runs \subseteq Nat /\ 1 \in Runs
    BY SlotAssumption DEF Runs, Token

LEMMA Starts ==
    /\ NoRun \in RunState /\ NoRun.pc = "idle" /\ ~NoRun.current /\ NoRun.kind = "attempt"
    /\ NoClient \in ClientState /\ NoClient.state = "none"
    /\ \A kind \in {"attempt", "probe"}, before \in 0 .. MaxRoutes + 1 :
          /\ Started(kind, before) \in RunState
          /\ Started(kind, before).pc = "token" /\ Started(kind, before).kind = kind
          /\ Started(kind, before).current
<1>1. MaxRoutes \in Nat /\ 0 \in 0 .. MaxRoutes /\ 0 \in 0 .. MaxRoutes + 1
    BY SlotAssumption
<1> QED BY <1>1, Names DEF NoRun, NoClient, Started, RunState, ClientState

-----------------------------------------------------------------------------
(* The ways slot, runs and clients change.                                  *)

LEMMA SupersededRuns ==
    ASSUME NEW rs \in [Runs -> RunState]
    PROVE  /\ Superseded(rs) \in [Runs -> RunState]
           /\ \A r \in Runs : /\ Superseded(rs)[r].pc = rs[r].pc /\ Superseded(rs)[r].kind = rs[r].kind
                              /\ Superseded(rs)[r].route = rs[r].route /\ ~Superseded(rs)[r].current
<1>1. ASSUME NEW x \in RunState
      PROVE  /\ [x EXCEPT !.current = FALSE] \in RunState
             /\ [x EXCEPT !.current = FALSE].pc = x.pc /\ [x EXCEPT !.current = FALSE].kind = x.kind
             /\ [x EXCEPT !.current = FALSE].route = x.route /\ ~[x EXCEPT !.current = FALSE].current
  <2> DEFINE y == [x EXCEPT !.current = FALSE]
  <2>1. y \in RunState
      BY ONLY x \in RunState DEF RunState
  <2>2. y.pc = x.pc /\ y.kind = x.kind
      BY ONLY x \in RunState DEF RunState
  <2>3. y.route = x.route /\ ~y.current
      BY ONLY x \in RunState DEF RunState
  <2> QED BY ONLY <2>1, <2>2, <2>3, Zenon
<1>2. \A r \in Runs : rs[r] \in RunState /\ Superseded(rs)[r] = [rs[r] EXCEPT !.current = FALSE]
    BY DEF Superseded
<1>3. Superseded(rs) \in [Runs -> RunState]
    BY <1>1, <1>2 DEF Superseded
<1> QED BY <1>1, <1>2, <1>3, ZenonT(40)

LEMMA ClosedClients ==
    ASSUME NEW cs \in [Runs -> ClientState], NEW c \in Runs \union {None}
    PROVE  /\ Closed(cs, c) \in [Runs -> ClientState]
           /\ c \in Runs => Closed(cs, c)[c].state = "none"
           /\ \A r \in Runs : r # c => Closed(cs, c)[r] = cs[r]
    BY Names, Starts DEF Closed

\* A run goes on.
LEMMA MoveSound ==
    ASSUME NEW s, NEW rs, NEW cs, NEW on, NEW off, NEW may, Sound(s, rs, cs, on, off, may),
           NEW r \in Runs, rs[r].pc # "idle",
           NEW y \in RunState, y.pc # "idle", y.kind = rs[r].kind, y.current = rs[r].current,
           y.pc = "verify" => y.route \in Routes,
           NEW ds \in [Runs -> ClientState], \A o \in Runs : o # r => ds[o] = cs[o],
           y.pc = "open" \/ ds[r].state = "none"
    PROVE  Sound(s, [rs EXCEPT ![r] = y], ds, on, off, may)
<1> DEFINE qs == [rs EXCEPT ![r] = y]
<1>1. Shape(s, rs, cs)
    BY DEF Sound
<1>2. qs \in [Runs -> RunState] /\ qs[r] = y /\ \A o \in Runs : o # r => qs[o] = rs[o]
    BY <1>1 DEF Shape
<1>3. s.conn # r /\ s \in SlotState
    BY <1>1, Names DEF Shape
<1> HIDE DEF qs
<1>4. Shape(s, qs, ds)
    BY <1>1, <1>2, <1>3 DEF Shape, SlotState
<1>5. on => Shown(s, ds)
    BY <1>3 DEF Sound, Shown, SlotState
<1>6. Over(on, off, may) => Gone(s, qs)
    BY <1>2 DEF Sound, Gone
<1>7. Wanted(on, off, may) => Counts(s, qs) /\ Awake(s)
    BY <1>2, <1>3 DEF Sound, Counts, SlotState
<1> QED BY <1>4, <1>5, <1>6, <1>7 DEF Sound, qs

Freed(s, rs, r) ==
    IF rs[r].kind = "probe" THEN [s EXCEPT !.probing = FALSE]
    ELSE [s EXCEPT !.attempt = IF @ = r THEN None ELSE @]

\* A run ends that does not take the machine offline.
LEMMA EndSound ==
    ASSUME NEW s, NEW rs, NEW cs, NEW on, NEW off, NEW may, Sound(s, rs, cs, on, off, may),
           NEW r \in Runs, rs[r].pc # "idle", ~(rs[r].current /\ rs[r].kind = "attempt"),
           NEW ds \in [Runs -> ClientState], \A o \in Runs : o # r => ds[o] = cs[o],
           ds[r].state = "none"
    PROVE  Sound(Freed(s, rs, r), [rs EXCEPT ![r] = NoRun], ds, on, off, may)
<1> DEFINE qs == [rs EXCEPT ![r] = NoRun]
           z == Freed(s, rs, r)
<1>1. Shape(s, rs, cs)
    BY DEF Sound
<1>2. qs \in [Runs -> RunState] /\ qs[r] = NoRun /\ \A o \in Runs : o # r => qs[o] = rs[o]
    BY <1>1, Starts DEF Shape
<1>3. s.conn # r /\ s \in SlotState
    BY <1>1, Names DEF Shape
<1>4. /\ z \in SlotState /\ z.status = s.status /\ z.conn = s.conn
      /\ z.retry = s.retry /\ z.grace = s.grace
      /\ z.attempt = IF s.attempt = r THEN None ELSE s.attempt
    BY <1>1, <1>3 DEF Freed, SlotState, Shape
<1> HIDE DEF qs, z
<1>5. Shape(z, qs, ds)
    BY <1>1, <1>2, <1>3, <1>4, Starts DEF Shape, SlotState
<1>6. on => Shown(z, ds)
    BY <1>3, <1>4 DEF Sound, Shown, SlotState
<1>7. Over(on, off, may) => Gone(z, qs)
    BY <1>2, <1>4, Starts DEF Sound, Gone
<1>8. Wanted(on, off, may) => Counts(z, qs) /\ Awake(z)
  <2>1. SUFFICES ASSUME Wanted(on, off, may) PROVE Counts(z, qs) /\ Awake(z)
      OBVIOUS
  <2>2. Counts(s, rs) /\ Awake(s)
      BY <2>1 DEF Sound
  <2>3. s.attempt = None \/ s.attempt \in Runs
      BY <1>3 DEF SlotState
  <2>4. s.attempt # r
    <3>1. ASSUME s.attempt = r PROVE FALSE
      <4>1. rs[r].current /\ rs[r].kind = "attempt"
          BY <1>1, <2>2, <3>1, Names, Zenon DEF Counts, Shape
      <4> QED BY <4>1
    <3> QED BY <3>1
  <2>5. z.attempt = s.attempt
      BY <1>4, <2>4
  <2>6. Counts(z, qs)
      BY <1>2, <2>2, <2>3, <2>4, <2>5, Zenon DEF Counts
  <2>7. Awake(z)
      BY <1>4, <2>2, <2>5, Zenon DEF Awake
  <2> QED BY <2>6, <2>7
<1> QED BY <1>5, <1>6, <1>7, <1>8 DEF Sound, qs, z

\* An attempt that counts finds no route.
LEMMA OfflineSound ==
    ASSUME NEW s, NEW rs, NEW cs, NEW on, NEW off, NEW may, Sound(s, rs, cs, on, off, may),
           NEW r \in Runs, rs[r].pc # "idle", rs[r].current, rs[r].kind = "attempt",
           NEW ds \in [Runs -> ClientState], \A o \in Runs : o # r => ds[o] = cs[o],
           ds[r].state = "none",
           NEW z \in SlotState, z.status # "live", z.conn = None, z.attempt = None, z.retry
    PROVE  Sound(z, [rs EXCEPT ![r] = NoRun], Closed(ds, s.conn), on, off, may)
<1> DEFINE qs == [rs EXCEPT ![r] = NoRun]
           es == Closed(ds, s.conn)
<1>1. Shape(s, rs, cs)
    BY DEF Sound
<1>2. qs \in [Runs -> RunState] /\ qs[r] = NoRun /\ \A o \in Runs : o # r => qs[o] = rs[o]
    BY <1>1, Starts DEF Shape
<1>3. s.conn \in Runs \union {None}
    BY <1>1 DEF Shape, SlotState
<1>4. /\ es \in [Runs -> ClientState] /\ (s.conn \in Runs => es[s.conn].state = "none")
      /\ \A o \in Runs : o # s.conn => es[o] = ds[o]
    BY <1>3, ClosedClients
<1> HIDE DEF qs, es
<1>5. Shape(z, qs, es)
    BY <1>1, <1>2, <1>3, <1>4, Starts DEF Shape
<1>6. Shown(z, es)
    BY DEF Shown
<1>7. ~Over(on, off, may)
    BY DEF Sound, Gone
<1>8. Counts(z, qs) /\ Awake(z)
    BY DEF Counts, Awake
<1> QED BY <1>5, <1>6, <1>7, <1>8 DEF Sound, qs, es

\* A run that counts has opened its client.
LEMMA AdoptSound ==
    ASSUME NEW s, NEW rs, NEW cs, NEW on, NEW off, NEW may, Sound(s, rs, cs, on, off, may),
           NEW r \in Runs, rs[r].pc # "idle", rs[r].current
    PROVE  Sound(Adopted(Freed(s, rs, r), r), [rs EXCEPT ![r] = NoRun],
                 [Closed(cs, s.conn) EXCEPT ![r].state = "open"], on, off, may)
<1> DEFINE qs == [rs EXCEPT ![r] = NoRun]
           z == Adopted(Freed(s, rs, r), r)
           ds == [Closed(cs, s.conn) EXCEPT ![r].state = "open"]
<1>1. Shape(s, rs, cs)
    BY DEF Sound
<1>2. qs \in [Runs -> RunState] /\ qs[r] = NoRun /\ \A o \in Runs : o # r => qs[o] = rs[o]
    BY <1>1, Starts DEF Shape
<1>3. s.conn # r /\ s \in SlotState /\ s.conn \in Runs \union {None} /\ cs \in [Runs -> ClientState]
    BY <1>1, Names DEF Shape, SlotState
<1>4. /\ z \in SlotState /\ z.status = "live" /\ z.conn = r
      /\ z.attempt = IF rs[r].kind = "probe" \/ s.attempt # r THEN s.attempt ELSE None
    BY <1>1, <1>3 DEF Freed, Adopted, SlotState, Shape
<1>5. /\ Closed(cs, s.conn) \in [Runs -> ClientState]
      /\ s.conn \in Runs => Closed(cs, s.conn)[s.conn].state = "none"
      /\ \A o \in Runs : o # s.conn => Closed(cs, s.conn)[o] = cs[o]
    BY <1>3, ClosedClients
<1>6. /\ ds \in [Runs -> ClientState] /\ ds[r].state = "open"
      /\ \A o \in Runs : o # r => ds[o] = Closed(cs, s.conn)[o]
    BY <1>5 DEF ClientState
<1> HIDE DEF qs, z, ds
<1>7. s.attempt # None => rs[s.attempt].pc # "idle" /\ rs[s.attempt].kind = "attempt" /\ s.attempt \in Runs
    BY <1>1 DEF Shape, SlotState
<1>8. z.attempt # None => z.attempt = s.attempt /\ z.attempt # r
    BY <1>1, <1>4, <1>7 DEF Shape
<1>9. z.attempt # None => qs[z.attempt].pc # "idle" /\ qs[z.attempt].kind = "attempt"
    BY <1>2, <1>7, <1>8
<1>10. \A o \in Runs : ds[o].state = "none" \/ o = z.conn \/ qs[o].pc = "open"
  <2> SUFFICES ASSUME NEW o \in Runs, o # r PROVE ds[o].state = "none" \/ qs[o].pc = "open"
      BY <1>4
  <2>1. CASE o = s.conn
      BY <2>1, <1>5, <1>6
  <2>2. CASE o # s.conn
      BY <2>2, <1>1, <1>2, <1>5, <1>6 DEF Shape
  <2> QED BY <2>1, <2>2
<1>11. \A o \in Runs : qs[o].current /\ qs[o].kind = "attempt" => o = z.attempt
    BY <1>1, <1>2, <1>4, Starts DEF Shape
<1>12. \A o \in Runs : qs[o].pc = "verify" => qs[o].route \in Routes
    BY <1>1, <1>2, Starts DEF Shape
<1>13. Shape(z, qs, ds)
    BY <1>2, <1>4, <1>6, <1>9, <1>10, <1>11, <1>12, Starts DEF Shape
<1>14. Shown(z, ds)
    BY <1>4, <1>6, Names DEF Shown
<1>15. ~Over(on, off, may)
    BY DEF Sound, Gone
<1>16. Wanted(on, off, may) => Counts(z, qs) /\ Awake(z)
    BY <1>2, <1>4, <1>7, <1>8 DEF Sound, Counts, Awake
<1> QED BY <1>13, <1>14, <1>15, <1>16 DEF Sound, qs, z, ds

\* An attempt starts.
LEMMA DialSound ==
    ASSUME NEW s, NEW rs, NEW cs, NEW on, NEW may, Shape(s, rs, cs), on => Shown(s, cs),
           on \/ "forgotten" \in may,
           NEW r \in Runs, rs[r].pc = "idle", cs[r].state = "none"
    PROVE  Sound([s EXCEPT !.attempt = r, !.retry = FALSE],
                 [Superseded(rs) EXCEPT ![r] = Started("attempt", MaxRoutes + 1)], cs, on, FALSE, may)
<1> DEFINE x == Started("attempt", MaxRoutes + 1)
           qs == [Superseded(rs) EXCEPT ![r] = x]
           z == [s EXCEPT !.attempt = r, !.retry = FALSE]
<1>1. rs \in [Runs -> RunState] /\ s \in SlotState /\ cs \in [Runs -> ClientState] /\ s.conn # r
    BY Names DEF Shape
<1>2. MaxRoutes + 1 \in 0 .. MaxRoutes + 1
    BY SlotAssumption
<1>3. x \in RunState /\ x.pc = "token" /\ x.kind = "attempt" /\ x.current
    BY <1>2, Starts
<1> HIDE DEF x
<1>4. /\ qs \in [Runs -> RunState] /\ qs[r] = x
      /\ \A o \in Runs : o # r => qs[o].pc = rs[o].pc /\ qs[o].route = rs[o].route /\ ~qs[o].current
    BY <1>1, <1>3, SupersededRuns
<1>5. /\ z \in SlotState /\ z.status = s.status /\ z.conn = s.conn /\ z.attempt = r
    BY <1>1 DEF SlotState
<1> HIDE DEF qs, z
<1>6. Shape(z, qs, cs)
    BY <1>1, <1>3, <1>4, <1>5 DEF Shape, SlotState
<1>7. on => Shown(z, cs)
    BY <1>5 DEF Shown
<1>8. ~Over(on, FALSE, may)
    BY DEF Over
<1>9. Counts(z, qs) /\ Awake(z)
    BY <1>3, <1>4, <1>5, Names DEF Counts, Awake
<1> QED BY <1>6, <1>7, <1>8, <1>9 DEF Sound, qs, z, x

\* What was open and running is let go.
LEMMA ParkSound ==
    ASSUME NEW s, NEW rs, NEW cs, Shape(s, rs, cs), NEW on, NEW off, NEW may, ~Wanted(on, off, may),
           NEW z \in SlotState, z.attempt = s.attempt, z.conn = None, ~z.retry, ~z.grace,
           on => z.status # "live"
    PROVE  Sound(z, Superseded(rs), Closed(cs, s.conn), on, off, may)
<1> DEFINE qs == Superseded(rs)
           ds == Closed(cs, s.conn)
<1>1. rs \in [Runs -> RunState] /\ s.conn \in Runs \union {None} /\ cs \in [Runs -> ClientState]
      /\ s.attempt \in Runs \union {None}
    BY DEF Shape, SlotState
<1>2. /\ qs \in [Runs -> RunState]
      /\ \A o \in Runs : /\ qs[o].pc = rs[o].pc /\ qs[o].kind = rs[o].kind
                         /\ qs[o].route = rs[o].route /\ ~qs[o].current
    BY <1>1, SupersededRuns
<1>3. /\ ds \in [Runs -> ClientState] /\ (s.conn \in Runs => ds[s.conn].state = "none")
      /\ \A o \in Runs : o # s.conn => ds[o] = cs[o]
    BY <1>1, ClosedClients
<1> HIDE DEF qs, ds
<1>4. Shape(z, qs, ds)
    BY <1>1, <1>2, <1>3 DEF Shape
<1>5. on => Shown(z, ds)
    BY DEF Shown
<1>6. Gone(z, qs)
    BY <1>2 DEF Gone
<1> QED BY <1>4, <1>5, <1>6 DEF Sound, qs, ds

\* A probe starts.
LEMMA ProbeSound ==
    ASSUME NEW s, NEW rs, NEW cs, NEW on, NEW off, NEW may, Sound(s, rs, cs, on, off, may),
           NEW r \in Runs, rs[r].pc = "idle", cs[r].state = "none", s.conn # None,
           NEW x \in RunState, x.pc = "token", x.kind = "probe"
    PROVE  Sound([s EXCEPT !.probing = TRUE], [rs EXCEPT ![r] = x], cs, on, off, may)
<1> DEFINE qs == [rs EXCEPT ![r] = x]
           z == [s EXCEPT !.probing = TRUE]
<1>1. Shape(s, rs, cs)
    BY DEF Sound
<1>2. qs \in [Runs -> RunState] /\ qs[r] = x /\ \A o \in Runs : o # r => qs[o] = rs[o]
    BY <1>1 DEF Shape
<1>3. s.conn # r /\ s.attempt # r /\ s \in SlotState
    BY <1>1, Names DEF Shape
<1>4. /\ z \in SlotState /\ z.status = s.status /\ z.conn = s.conn /\ z.attempt = s.attempt
      /\ z.retry = s.retry /\ z.grace = s.grace
    BY <1>3 DEF SlotState
<1> HIDE DEF qs, z
<1>5. Shape(z, qs, cs)
    BY <1>1, <1>2, <1>3, <1>4 DEF Shape, SlotState
<1>6. on => Shown(z, cs)
    BY <1>4 DEF Sound, Shown
<1>7. ~Over(on, off, may)
    BY DEF Sound, Gone
<1>8. Wanted(on, off, may) => Counts(z, qs) /\ Awake(z)
    BY <1>2, <1>3, <1>4 DEF Sound, Counts, Awake, SlotState
<1> QED BY <1>5, <1>6, <1>7, <1>8 DEF Sound, qs, z

\* What the machine's client reports.
LEMMA ReportSound ==
    ASSUME NEW s, NEW rs, NEW cs, NEW on, NEW off, NEW may, Sound(s, rs, cs, on, off, may), s.conn # None,
           NEW z \in SlotState, z.conn = s.conn, z.attempt = s.attempt, z.retry = s.retry,
           NEW state \in {"open", "reconnecting", "failed"}, z.status = "live" <=> state = "open"
    PROVE  /\ Shape(z, rs, [cs EXCEPT ![s.conn].state = state])
           /\ Shown(z, [cs EXCEPT ![s.conn].state = state])
           /\ ~Over(on, off, may)
           /\ z.status = "live" \/ z.grace =>
                 Sound(z, rs, [cs EXCEPT ![s.conn].state = state], on, off, may)
<1> DEFINE ds == [cs EXCEPT ![s.conn].state = state]
<1>1. Shape(s, rs, cs) /\ s.conn \in Runs /\ cs \in [Runs -> ClientState]
    BY DEF Sound, Shape, SlotState
<1>2. /\ ds \in [Runs -> ClientState] /\ ds[s.conn].state = state
      /\ \A o \in Runs : o # s.conn => ds[o] = cs[o]
    BY <1>1 DEF ClientState
<1> HIDE DEF ds
<1>3. Shape(z, rs, ds)
    BY <1>1, <1>2 DEF Shape
<1>4. Shown(z, ds)
    BY <1>1, <1>2, Names DEF Shown
<1>5. ~Over(on, off, may)
    BY DEF Sound, Gone
<1>6. Wanted(on, off, may) => Counts(z, rs)
    BY DEF Sound, Counts
<1>7. z.status = "live" \/ z.grace => Awake(z)
    BY DEF Awake
<1> QED BY <1>3, <1>4, <1>5, <1>6, <1>7 DEF Sound, ds

-----------------------------------------------------------------------------
(* The operators of the module that change them.                            *)

LEMMA Spending ==
    ASSUME NEW l \in Budget
    PROVE  /\ l.drops > 0 => [l EXCEPT !.drops = @ - 1] \in Budget /\ [l EXCEPT !.drops = @ - 1].may = l.may
           /\ l.moves > 0 => [l EXCEPT !.moves = @ - 1] \in Budget /\ [l EXCEPT !.moves = @ - 1].may = l.may
           /\ l.grants > 0 => [l EXCEPT !.grants = @ - 1] \in Budget /\ [l EXCEPT !.grants = @ - 1].may = l.may
           /\ l.asks > 0 => [l EXCEPT !.asks = @ - 1] \in Budget /\ [l EXCEPT !.asks = @ - 1].may = l.may
           /\ l.pauses > 0 => [l EXCEPT !.pauses = @ - 1] \in Budget /\ [l EXCEPT !.pauses = @ - 1].may = l.may
           /\ l.stuck > 0 => [l EXCEPT !.stuck = @ - 1] \in Budget /\ [l EXCEPT !.stuck = @ - 1].may = l.may
    BY DEF Budget

\* What is known of a run that goes on: it has a client only while it opens one.
LEMMA RunFacts ==
    ASSUME Inner, NEW r \in Runs, run[r].pc # "idle"
    PROVE  /\ run \in [Runs -> RunState] /\ run[r] \in RunState
           /\ client \in [Runs -> ClientState] /\ slot \in SlotState
           /\ run[r].pc # "open" => client[r].state = "none"
           /\ Closed(client, r) \in [Runs -> ClientState] /\ Closed(client, r)[r].state = "none"
           /\ \A o \in Runs : o # r => Closed(client, r)[o] = client[o]
<1>1. Shape(slot, run, client)
    BY DEF Inner, Sound
<1>2. client \in [Runs -> ClientState] /\ r \in Runs \union {None}
    BY <1>1 DEF Shape
<1> QED BY <1>1, <1>2, ClosedClients, Names DEF Shape

Same == listed' = listed /\ paused' = paused /\ left'.may = left.may

LEMMA FreedIsReleased ==
    ASSUME NEW r \in Runs
    PROVE  Released(r) = Freed(slot, run, r)
    BY DEF Released, Freed

LEMMA NotFoundStep ==
    ASSUME Inner, Same, NEW r \in Runs, run[r].pc # "idle", NEW status \in {"offline", "unpaired"},
           NEW cs \in [Runs -> ClientState], \A o \in Runs : o # r => cs[o] = client[o],
           cs[r].state = "none", NotFound(r, status, cs)
    PROVE  Inner'
<1>1. CASE run[r].current /\ run[r].kind = "attempt"
  <2> DEFINE z == [Freed(slot, run, r) EXCEPT !.status = status, !.conn = None, !.grace = FALSE, !.retry = TRUE]
  <2>1. Shape(slot, run, client) /\ ~paused
      BY <1>1 DEF Inner, Sound, Over, Gone
  <2>2. slot \in SlotState /\ slot.attempt = r
      BY <2>1, <1>1 DEF Shape
  <2>3. Freed(slot, run, r) \in SlotState /\ Freed(slot, run, r).attempt = None
      BY <2>2, <1>1 DEF Freed, SlotState
  <2>4. z \in SlotState /\ z.status # "live" /\ z.conn = None /\ z.attempt = None /\ z.retry
      BY <2>3, Names DEF SlotState
  <2>5. slot' = z /\ run' = [run EXCEPT ![r] = NoRun] /\ client' = Closed(cs, slot.conn)
      BY <1>1, <2>1, FreedIsReleased DEF NotFound, Offline
  <2> HIDE DEF z
  <2>6. Sound(z, [run EXCEPT ![r] = NoRun], Closed(cs, slot.conn), listed, paused, left.may)
      BY <1>1, <2>4, OfflineSound DEF Inner
  <2> QED BY <2>5, <2>6 DEF Inner, Same
<1>2. CASE ~(run[r].current /\ run[r].kind = "attempt")
  <2>1. slot' = Freed(slot, run, r) /\ run' = [run EXCEPT ![r] = NoRun] /\ client' = cs
      BY <1>2, FreedIsReleased DEF NotFound
  <2>2. Sound(Freed(slot, run, r), [run EXCEPT ![r] = NoRun], cs, listed, paused, left.may)
      BY <1>2, EndSound DEF Inner
  <2> QED BY <2>1, <2>2 DEF Inner, Same
<1> QED BY <1>1, <1>2

LEMMA NextRouteStep ==
    ASSUME Inner, Same, NEW r \in Runs, run[r].pc # "idle",
           NEW x \in RunState, x.kind = run[r].kind, x.current = run[r].current,
           NEW cs \in [Runs -> ClientState], \A o \in Runs : o # r => cs[o] = client[o],
           cs[r].state = "none", NextRoute(r, x, cs)
    PROVE  Inner'
<1>1. CASE NotFound(r, "offline", cs)
    BY <1>1, NotFoundStep
<1>2. CASE ~NotFound(r, "offline", cs)
  <2>1. PICK k \in Routes : /\ run' = [run EXCEPT ![r] = [x EXCEPT !.pc = "verify", !.route = k, !.again = FALSE]]
                            /\ client' = cs /\ slot' = slot
      BY <1>2 DEF NextRoute
  <2> DEFINE y == [x EXCEPT !.pc = "verify", !.route = k, !.again = FALSE]
  <2>2. k \in 0 .. MaxRoutes
      BY SlotAssumption DEF Routes
  <2>3. y \in RunState /\ y.pc = "verify" /\ y.kind = run[r].kind /\ y.current = run[r].current
        /\ y.route \in Routes
      BY <2>2 DEF RunState
  <2> HIDE DEF y
  <2>4. Sound(slot, [run EXCEPT ![r] = y], cs, listed, paused, left.may)
      BY <2>3, MoveSound DEF Inner
  <2> QED BY <2>1, <2>4 DEF Inner, Same, y
<1> QED BY <1>1, <1>2

LEMMA OpeningStep ==
    ASSUME Inner, Same, NEW r \in Runs, run[r].pc # "idle",
           NEW x \in RunState, x.kind = run[r].kind, x.current = run[r].current, Opening(r, x)
    PROVE  Inner'
<1> DEFINE y == [x EXCEPT !.pc = "open"]
           c == [state |-> "connecting", route |-> x.route, token |-> x.token]
           ds == [client EXCEPT ![r] = c]
<1>1. y \in RunState /\ y.pc = "open" /\ y.kind = run[r].kind /\ y.current = run[r].current
    BY DEF RunState
<1>2. c \in ClientState /\ client \in [Runs -> ClientState]
    BY RunFacts DEF RunState, ClientState
<1> HIDE DEF c
<1>3. ds \in [Runs -> ClientState] /\ \A o \in Runs : o # r => ds[o] = client[o]
    BY <1>2
<1>4. run' = [run EXCEPT ![r] = y] /\ client' = ds /\ slot' = slot
    BY DEF Opening, c
<1> HIDE DEF y, ds
<1>5. Sound(slot, [run EXCEPT ![r] = y], ds, listed, paused, left.may)
    BY <1>1, <1>3, MoveSound DEF Inner
<1> QED BY <1>4, <1>5 DEF Inner, Same

LEMMA WithTokenStep ==
    ASSUME Inner, Same, NEW r \in Runs, run[r].pc \notin {"idle", "open"}, NEW t \in Token, WithToken(r, t)
    PROVE  Inner'
<1> DEFINE x == [run[r] EXCEPT !.token = t]
<1>1. run[r] \in RunState /\ client \in [Runs -> ClientState] /\ client[r].state = "none"
    BY RunFacts
<1>2. x \in RunState /\ x.kind = run[r].kind /\ x.current = run[r].current
    BY <1>1 DEF RunState
<1>3. Opening(r, x) \/ NextRoute(r, x, client)
    BY DEF WithToken
<1> HIDE DEF x
<1> QED BY <1>1, <1>2, <1>3, OpeningStep, NextRouteStep

\* What connectSlot starts from.
Ready(s, cs) == Shape(s, run, cs) /\ (listed => Shown(s, cs)) /\ s.attempt = slot.attempt

LEMMA DialStep ==
    ASSUME Inner, NEW s, NEW cs, NEW l \in Budget, Ready(s, cs), l.may = left.may,
           listed \/ May("forgotten"), Dial(s, cs, l), listed' = listed, paused' = FALSE,
           listed /\ ~May("resume") => Counts(s, run)
    PROVE  Inner' /\ left' \in Budget
<1>1. CASE s.attempt # None /\ slot' = s /\ run' = run /\ left' = l
  <2>1. client' = cs
      BY DEF Dial
  <2>2. ~Over(listed, FALSE, left.may)
      BY DEF Over, May
  <2>3. Wanted(listed, FALSE, left.may) => Counts(s, run) /\ Awake(s)
      BY <1>1 DEF Wanted, May, Awake
  <2>4. Sound(s, run, cs, listed, FALSE, left.may)
      BY <2>2, <2>3 DEF Sound, Ready
  <2> QED BY <1>1, <2>1, <2>4 DEF Inner
<1>2. CASE ~(s.attempt # None /\ slot' = s /\ run' = run /\ left' = l)
  <2>1. PICK r \in Free(cs) :
            /\ slot' = [s EXCEPT !.attempt = r, !.retry = FALSE]
            /\ run' = [Superseded(run) EXCEPT ![r] = Started("attempt", MaxRoutes + 1)]
      BY <1>2 DEF Dial
  <2>2. r \in Runs /\ run[r].pc = "idle" /\ cs[r].state = "none"
      BY DEF Free, Unused
  <2>3. client' = cs /\ (s.attempt # None => l.stuck > 0)
        /\ left' = IF s.attempt # None THEN [l EXCEPT !.stuck = @ - 1] ELSE l
      BY <1>2 DEF Dial
  <2>4. left' \in Budget /\ left'.may = left.may
      BY <2>3, Spending
  <2>5. listed \/ "forgotten" \in left.may
      BY DEF May
  <2>6. Sound([s EXCEPT !.attempt = r, !.retry = FALSE],
              [Superseded(run) EXCEPT ![r] = Started("attempt", MaxRoutes + 1)], cs, listed, FALSE, left.may)
      BY <2>2, <2>5, DialSound DEF Ready
  <2> QED BY <2>1, <2>3, <2>4, <2>6 DEF Inner
<1> QED BY <1>1, <1>2

LEMMA ConnectStep ==
    ASSUME Inner, Record, NEW s, NEW cs, NEW l \in Budget, Ready(s, cs), l.may = left.may,
           paused \/ listed \/ May("forgotten"), Connect(s, cs, l), listed' = listed, paused' = paused
    PROVE  Inner' /\ left' \in Budget
<1>1. CASE paused /\ slot' = Parked(s) /\ run' = Superseded(run) /\ client' = Closed(cs, s.conn) /\ left' = l
  <2>1. Shape(s, run, cs) /\ s \in SlotState
      BY DEF Ready, Shape
  <2>2. /\ Parked(s) \in SlotState /\ Parked(s).attempt = s.attempt /\ Parked(s).conn = None
        /\ ~Parked(s).retry /\ ~Parked(s).grace /\ Parked(s).status # "live"
      BY <2>1 DEF Parked, SlotState
  <2>3. ~Wanted(listed, paused, left.may)
      BY <1>1 DEF Wanted
  <2>4. Sound(Parked(s), Superseded(run), Closed(cs, s.conn), listed, paused, left.may)
      BY <2>1, <2>2, <2>3, ParkSound
  <2> QED BY <1>1, <2>4 DEF Inner
<1>2. CASE ~paused /\ Dial(s, cs, l)
  <2>1. listed /\ ~May("resume") => Counts(s, run)
      BY <1>2 DEF Inner, Sound, Wanted, May, Counts, Ready
  <2>2. paused' = FALSE /\ (listed \/ May("forgotten"))
      BY <1>2 DEF Record
  <2> QED BY <1>2, <2>1, <2>2, DialStep
<1> QED BY <1>1, <1>2 DEF Connect

LEMMA FailoverStep ==
    ASSUME Inner, Record, NEW s, NEW cs, NEW l \in Budget, Ready(s, cs), l.may = left.may,
           ~Over(listed, paused, left.may), Failover(s, cs, l), listed' = listed, paused' = paused
    PROVE  Inner' /\ left' \in Budget
<1>1. CASE s.attempt # None
  <2>1. slot' = s /\ run' = run /\ client' = cs /\ left' = l
      BY <1>1 DEF Failover
  <2>2. Wanted(listed, paused, left.may) => Counts(s, run) /\ Awake(s)
      BY <1>1 DEF Inner, Sound, Counts, Ready, Awake
  <2>3. Sound(s, run, cs, listed, paused, left.may)
      BY <2>2 DEF Sound, Ready
  <2> QED BY <2>1, <2>3 DEF Inner
<1>2. CASE s.attempt = None
  <2>1. Connect(s, cs, l)
      BY <1>2 DEF Failover
  <2>2. paused \/ listed \/ May("forgotten")
      BY DEF Over, May
  <2> QED BY <2>1, <2>2, ConnectStep
<1> QED BY <1>1, <1>2


LEMMA ProbeStep ==
    ASSUME Inner, NEW l \in Budget, l.may = left.may, ProbeBetter(l), listed' = listed, paused' = paused
    PROVE  Inner' /\ left' \in Budget
<1>1. CASE UNCHANGED <<slot, run>>
    BY <1>1 DEF ProbeBetter, Inner
<1>2. CASE ~UNCHANGED <<slot, run>>
  <2>1. slot.conn # None /\ left' = l /\ client' = client
      BY <1>2 DEF ProbeBetter
  <2> DEFINE x == Started("probe", client[slot.conn].route)
  <2>2. PICK r \in Free(client) : slot' = [slot EXCEPT !.probing = TRUE] /\ run' = [run EXCEPT ![r] = x]
      BY <1>2 DEF ProbeBetter
  <2>3. r \in Runs /\ run[r].pc = "idle" /\ client[r].state = "none"
      BY DEF Free, Unused
  <2>4. slot.conn \in Runs /\ client \in [Runs -> ClientState]
      BY <2>1 DEF Inner, Sound, Shape, SlotState
  <2>5. client[slot.conn].route \in 0 .. MaxRoutes + 1
      BY <2>4, SlotAssumption DEF ClientState
  <2>6. x \in RunState /\ x.pc = "token" /\ x.kind = "probe"
      BY <2>5, Starts
  <2> HIDE DEF x
  <2>7. Sound([slot EXCEPT !.probing = TRUE], [run EXCEPT ![r] = x], client, listed, paused, left.may)
      BY <2>1, <2>3, <2>6, ProbeSound DEF Inner
  <2> QED BY <2>1, <2>2, <2>7 DEF Inner
<1> QED BY <1>1, <1>2

-----------------------------------------------------------------------------
(* The steps of findRoute.                                                  *)

LEMMA TokenReadStep ==
    ASSUME IInv, NEW r \in Runs, TokenRead(r)
    PROVE  IInv'
<1>1. Same /\ Outer' /\ run[r].pc = "token" /\ Inner
    BY DEF IInv, Outer, World, Tokens, Record, Rest, Callers, Holders, callers, TokenRead, world, record, Same
<1>2. /\ run \in [Runs -> RunState] /\ run[r] \in RunState
      /\ client \in [Runs -> ClientState] /\ client[r].state = "none"
    BY <1>1, RunFacts
<1>3. CASE WithToken(r, saved)
    BY <1>1, <1>3, WithTokenStep DEF IInv, Outer, Tokens
<1>4. CASE NotFound(r, "unpaired", client) \/ NotFound(r, "offline", client)
    BY <1>1, <1>2, <1>4, NotFoundStep DEF IInv
<1>5. CASE run' = [run EXCEPT ![r].pc = "mint"] /\ UNCHANGED <<slot, client>>
  <2> DEFINE y == [run[r] EXCEPT !.pc = "mint"]
  <2>1. y \in RunState /\ y.pc = "mint" /\ y.kind = run[r].kind /\ y.current = run[r].current
      BY <1>2 DEF RunState
  <2>2. run' = [run EXCEPT ![r] = y]
      BY <1>5
  <2> HIDE DEF y
  <2>3. Sound(slot, [run EXCEPT ![r] = y], client, listed, paused, left.may)
      BY <1>1, <1>2, <2>1, MoveSound DEF Inner
  <2> QED BY <1>1, <1>5, <2>2, <2>3 DEF IInv, Inner, Same
<1> QED BY <1>3, <1>4, <1>5 DEF TokenRead

LEMMA MintedStep ==
    ASSUME IInv, NEW r \in Runs, Minted(r)
    PROVE  IInv'
<1> DEFINE y == [run[r] EXCEPT !.pc = "save", !.token = valid + 1]
<1>1. Same /\ Outer' /\ run[r].pc = "mint" /\ Inner
    BY DEF IInv, Outer, World, Tokens, Record, Rest, Callers, Holders, callers, Minted, tokens, record, Same
<1>2. /\ run \in [Runs -> RunState] /\ run[r] \in RunState
      /\ client \in [Runs -> ClientState] /\ client[r].state = "none"
    BY <1>1, RunFacts
<1>3. valid + 1 \in Token
    BY DEF IInv, Outer, Tokens, Token
<1>4. y \in RunState /\ y.pc = "save" /\ y.kind = run[r].kind /\ y.current = run[r].current
    BY <1>2, <1>3 DEF RunState
<1>5. run' = [run EXCEPT ![r] = y] /\ slot' = slot /\ client' = client
    BY <1>2 DEF Minted, RunState
<1> HIDE DEF y
<1>6. Sound(slot, [run EXCEPT ![r] = y], client, listed, paused, left.may)
    BY <1>1, <1>2, <1>4, MoveSound DEF Inner
<1> QED BY <1>1, <1>5, <1>6 DEF IInv, Inner, Same

LEMMA MintFailsStep ==
    ASSUME IInv, NEW r \in Runs, MintFails(r)
    PROVE  IInv'
<1>1. run[r].pc = "mint" /\ Inner /\ NotFound(r, "unpaired", client)
    BY DEF IInv, MintFails
<1>2. client \in [Runs -> ClientState] /\ client[r].state = "none"
    BY <1>1, RunFacts
<1>3. valid \in Nat /\ left \in Budget
    BY DEF IInv, Outer, Rest, Callers, Holders, callers, Tokens
<1>4. valid' \in {valid, valid + 1} /\ (left' = left \/ (left.drops > 0 /\ left' = [left EXCEPT !.drops = @ - 1]))
    BY DEF MintFails
<1>5. left' \in Budget /\ left'.may = left.may /\ valid' \in Nat
  <2>1. valid' \in Nat
      BY <1>3, <1>4
  <2>2. left.drops > 0 => /\ [left EXCEPT !.drops = @ - 1] \in Budget
                          /\ [left EXCEPT !.drops = @ - 1].may = left.may
      BY <1>3, Spending
  <2> QED BY <1>3, <1>4, <2>1, <2>2
<1>6. Same /\ Outer'
    BY <1>5 DEF IInv, Outer, World, Tokens, Record, Rest, Callers, Holders, callers, MintFails, tokens, record, Same
<1> QED BY <1>1, <1>2, <1>6, NotFoundStep DEF IInv

LEMMA TokenSavedStep ==
    ASSUME IInv, NEW r \in Runs, TokenSaved(r)
    PROVE  IInv'
<1>1. run[r].pc = "save" /\ Inner /\ WithToken(r, run[r].token)
    BY DEF IInv, TokenSaved
<1>2. run[r].token \in Token
    BY <1>1, RunFacts DEF RunState
<1>3. Same /\ Outer'
    BY <1>2 DEF IInv, Outer, World, Tokens, Record, Rest, Callers, Holders, callers, TokenSaved, world, record, Same
<1> QED BY <1>1, <1>2, <1>3, WithTokenStep DEF IInv

LEMMA VerifiedStep ==
    ASSUME IInv, NEW r \in Runs, Verified(r)
    PROVE  IInv'
<1>1. run[r].pc = "verify" /\ Inner
    BY DEF IInv, Verified
<1>2. run[r] \in RunState /\ client \in [Runs -> ClientState] /\ client[r].state = "none"
    BY <1>1, RunFacts
<1>3. run[r].route \in Routes /\ blocked' \in SUBSET Routes
  <2>1. blocked \in SUBSET Routes
      BY DEF IInv, Outer, Record
  <2>2. run[r].route \in Routes
      BY <1>1 DEF Inner, Sound, Shape
  <2> QED BY <2>1, <2>2 DEF Verified
<1>4. Same /\ Outer'
    BY <1>3 DEF IInv, Outer, World, Tokens, Record, Rest, Callers, Holders, callers, Verified, world, tokens, Same
<1>5. NextRoute(r, run[r], client) \/ Opening(r, run[r]) \/ NotFound(r, "offline", client)
    BY DEF Verified
<1> QED BY <1>1, <1>2, <1>4, <1>5, NextRouteStep, OpeningStep, NotFoundStep DEF IInv

LEMMA OpenedStep ==
    ASSUME IInv, NEW r \in Runs, Opened(r)
    PROVE  IInv'
<1>1. Same /\ Outer' /\ run[r].pc = "open" /\ Inner /\ run' = [run EXCEPT ![r] = NoRun]
    BY DEF IInv, Outer, World, Tokens, Record, Rest, Callers, Holders, callers, Opened, world, tokens, record, Same
<1>2. CASE run[r].current
  <2>1. slot' = Adopted(Freed(slot, run, r), r)
        /\ client' = [Closed(client, slot.conn) EXCEPT ![r].state = "open"]
      BY <1>2, FreedIsReleased DEF Opened
  <2>2. Sound(Adopted(Freed(slot, run, r), r), [run EXCEPT ![r] = NoRun],
              [Closed(client, slot.conn) EXCEPT ![r].state = "open"], listed, paused, left.may)
      BY <1>1, <1>2, AdoptSound DEF Inner
  <2> QED BY <1>1, <2>1, <2>2 DEF IInv, Inner, Same
<1>3. CASE ~run[r].current
  <2>1. slot' = Freed(slot, run, r) /\ client' = Closed(client, r)
      BY <1>3, FreedIsReleased DEF Opened
  <2>2. /\ Closed(client, r) \in [Runs -> ClientState] /\ Closed(client, r)[r].state = "none"
        /\ \A o \in Runs : o # r => Closed(client, r)[o] = client[o]
      BY <1>1, RunFacts
  <2>3. Sound(Freed(slot, run, r), [run EXCEPT ![r] = NoRun], Closed(client, r), listed, paused, left.may)
      BY <1>1, <1>3, <2>2, EndSound DEF Inner
  <2> QED BY <1>1, <2>1, <2>3 DEF IInv, Inner, Same
<1> QED BY <1>2, <1>3

LEMMA RefusedStep ==
    ASSUME IInv, NEW r \in Runs, Refused(r) \/ OpenFails(r)
    PROVE  IInv'
<1>1. Same /\ Outer' /\ run[r].pc = "open" /\ Inner
    BY DEF IInv, Outer, World, Tokens, Record, Rest, Callers, Holders, callers, Refused, OpenFails, world, tokens, record, Same
<1>2. /\ run \in [Runs -> RunState] /\ run[r] \in RunState
      /\ Closed(client, r) \in [Runs -> ClientState] /\ Closed(client, r)[r].state = "none"
      /\ \A o \in Runs : o # r => Closed(client, r)[o] = client[o]
    BY <1>1, RunFacts
<1>3. CASE NextRoute(r, run[r], Closed(client, r))
    BY <1>1, <1>2, <1>3, NextRouteStep DEF IInv
<1>4. CASE /\ run' = [run EXCEPT ![r].pc = "reread", ![r].again = TRUE]
           /\ client' = Closed(client, r) /\ UNCHANGED slot
  <2> DEFINE y == [run[r] EXCEPT !.pc = "reread", !.again = TRUE]
  <2>1. y \in RunState /\ y.pc = "reread" /\ y.kind = run[r].kind /\ y.current = run[r].current
      BY <1>2 DEF RunState
  <2>2. run' = [run EXCEPT ![r] = y]
      BY <1>2, <1>4 DEF RunState
  <2> HIDE DEF y
  <2>3. Sound(slot, [run EXCEPT ![r] = y], Closed(client, r), listed, paused, left.may)
      BY <1>1, <1>2, <2>1, MoveSound DEF Inner
  <2> QED BY <1>1, <1>4, <2>2, <2>3 DEF IInv, Inner, Same
<1> QED BY <1>3, <1>4 DEF Refused, OpenFails

LEMMA TokenRereadStep ==
    ASSUME IInv, NEW r \in Runs, TokenReread(r)
    PROVE  IInv'
<1>1. Same /\ Outer' /\ run[r].pc = "reread" /\ Inner
    BY DEF IInv, Outer, World, Tokens, Record, Rest, Callers, Holders, callers, TokenReread, world, tokens, record, Same
<1>2. /\ run \in [Runs -> RunState] /\ run[r] \in RunState
      /\ client \in [Runs -> ClientState] /\ client[r].state = "none"
    BY <1>1, RunFacts
<1>3. CASE NotFound(r, "offline", client)
    BY <1>1, <1>2, <1>3, NotFoundStep DEF IInv
<1>4. CASE Opening(r, [run[r] EXCEPT !.token = saved])
  <2> DEFINE x == [run[r] EXCEPT !.token = saved]
  <2>1. x \in RunState /\ x.kind = run[r].kind /\ x.current = run[r].current
      BY <1>2 DEF RunState, IInv, Outer, Tokens
  <2>2. Opening(r, x)
      BY <1>4
  <2> HIDE DEF x
  <2> QED BY <1>1, <2>1, <2>2, OpeningStep DEF IInv
<1>5. CASE run' = [run EXCEPT ![r].pc = "discard"] /\ UNCHANGED <<slot, client>>
  <2> DEFINE y == [run[r] EXCEPT !.pc = "discard"]
  <2>1. y \in RunState /\ y.pc = "discard" /\ y.kind = run[r].kind /\ y.current = run[r].current
      BY <1>2 DEF RunState
  <2>2. run' = [run EXCEPT ![r] = y]
      BY <1>5
  <2> HIDE DEF y
  <2>3. Sound(slot, [run EXCEPT ![r] = y], client, listed, paused, left.may)
      BY <1>1, <1>2, <2>1, MoveSound DEF Inner
  <2> QED BY <1>1, <1>5, <2>2, <2>3 DEF IInv, Inner, Same
<1> QED BY <1>3, <1>4, <1>5 DEF TokenReread

LEMMA DiscardedStep ==
    ASSUME IInv, NEW r \in Runs, Discarded(r)
    PROVE  IInv'
<1> DEFINE y == [run[r] EXCEPT !.pc = "token"]
<1>1. Same /\ Outer' /\ run[r].pc = "discard" /\ Inner
    BY Names DEF IInv, Outer, World, Tokens, Record, Rest, Callers, Holders, callers, Discarded, world, record, Same
<1>2. /\ run \in [Runs -> RunState] /\ run[r] \in RunState
      /\ client \in [Runs -> ClientState] /\ client[r].state = "none"
    BY <1>1, RunFacts
<1>3. y \in RunState /\ y.pc = "token" /\ y.kind = run[r].kind /\ y.current = run[r].current
    BY <1>2 DEF RunState
<1>4. run' = [run EXCEPT ![r] = y] /\ slot' = slot /\ client' = client
    BY DEF Discarded
<1> HIDE DEF y
<1>5. Sound(slot, [run EXCEPT ![r] = y], client, listed, paused, left.may)
    BY <1>1, <1>2, <1>3, MoveSound DEF Inner
<1> QED BY <1>1, <1>4, <1>5 DEF IInv, Inner, Same

LEMMA FindRouteStep ==
    ASSUME IInv, NEW r \in Runs, FindRoute(r)
    PROVE  IInv'
    BY TokenReadStep, MintedStep, MintFailsStep, TokenSavedStep, VerifiedStep, OpenedStep, RefusedStep,
       TokenRereadStep, DiscardedStep DEF FindRoute


-----------------------------------------------------------------------------
(* The other steps.                                                         *)

\* The slot as it stands is ready for connectSlot, whatever timers are cleared.
LEMMA SlotReady ==
    ASSUME Inner, NEW s \in {slot, [slot EXCEPT !.retry = FALSE], [slot EXCEPT !.grace = FALSE]}
    PROVE  Ready(s, client)
<1>1. Shape(slot, run, client) /\ (listed => Shown(slot, client)) /\ slot \in SlotState
    BY DEF Inner, Sound, Shape
<1>2. s \in SlotState /\ s.status = slot.status /\ s.conn = slot.conn /\ s.attempt = slot.attempt
    BY <1>1 DEF SlotState
<1>3. Shape(s, run, client)
    BY <1>1, <1>2 DEF Shape
<1>4. listed => Shown(s, client)
    BY <1>1, <1>2 DEF Shown
<1> QED BY <1>2, <1>3, <1>4 DEF Ready

LEMMA LeftTyped ==
    ASSUME IInv
    PROVE  /\ left \in Budget
           /\ left.drops > 0 => [left EXCEPT !.drops = @ - 1] \in Budget /\ [left EXCEPT !.drops = @ - 1].may = left.may
           /\ left.moves > 0 => [left EXCEPT !.moves = @ - 1] \in Budget /\ [left EXCEPT !.moves = @ - 1].may = left.may
           /\ left.grants > 0 => [left EXCEPT !.grants = @ - 1] \in Budget /\ [left EXCEPT !.grants = @ - 1].may = left.may
           /\ left.asks > 0 => Asked \in Budget /\ Asked.may = left.may
           /\ left.pauses > 0 => [left EXCEPT !.pauses = @ - 1] \in Budget /\ [left EXCEPT !.pauses = @ - 1].may = left.may
<1>1. left \in Budget
    BY DEF IInv, Outer, Rest, Callers, Holders, callers
<1> QED BY <1>1, Spending DEF Asked

LEMMA ReportedStep ==
    ASSUME IInv, Drops \/ Reopens
    PROVE  IInv'
<1>1. slot.conn # None /\ Inner /\ slot \in SlotState
    BY DEF Drops, Reopens, IInv, Inner, Sound, Shape
<1>2. left' \in Budget /\ left'.may = left.may
    BY LeftTyped DEF Drops, Reopens
<1>3. Same /\ Outer'
    BY <1>2 DEF IInv, Outer, World, Tokens, Record, Rest, Callers, Holders, callers, Drops, Reopens, world, tokens, record, Same
<1>4. PICK state \in {"open", "reconnecting"} :
          /\ client' = [client EXCEPT ![slot.conn].state = state] /\ run' = run
          /\ slot' = [slot EXCEPT !.status = IF state = "open" THEN "live" ELSE "offline", !.grace = (state # "open")]
    BY DEF Drops, Reopens, Reports
<1> DEFINE z == [slot EXCEPT !.status = IF state = "open" THEN "live" ELSE "offline", !.grace = (state # "open")]
<1>5. /\ z \in SlotState /\ z.conn = slot.conn /\ z.attempt = slot.attempt /\ z.retry = slot.retry
      /\ (z.status = "live" <=> state = "open") /\ (z.status = "live" \/ z.grace)
    BY <1>1 DEF SlotState
<1>6. slot' = z
    BY <1>4
<1> HIDE DEF z
<1>7. Sound(z, run, [client EXCEPT ![slot.conn].state = state], listed, paused, left.may)
    BY <1>1, <1>5, ReportSound DEF Inner
<1> QED BY <1>3, <1>4, <1>6, <1>7 DEF IInv, Inner, Same

LEMMA FailsStep ==
    ASSUME IInv, Fails
    PROVE  IInv'
<1> DEFINE z == [slot EXCEPT !.status = "offline"]
           cs == [client EXCEPT ![slot.conn].state = "failed"]
<1>1. slot.conn # None /\ Inner /\ slot \in SlotState
    BY DEF Fails, IInv, Inner, Sound, Shape
<1>2. /\ z \in SlotState /\ z.conn = slot.conn /\ z.attempt = slot.attempt /\ z.retry = slot.retry
      /\ z.status # "live"
    BY <1>1 DEF SlotState
<1>3. Failover(z, cs, left)
    BY DEF Fails
<1> HIDE DEF z
<1>4. Shape(z, run, cs) /\ Shown(z, cs) /\ ~Over(listed, paused, left.may)
    BY <1>1, <1>2, ReportSound DEF Inner
<1>5. Ready(z, cs)
    BY <1>2, <1>4 DEF Ready
<1>6. listed' = listed /\ paused' = paused /\ left \in Budget /\ Record
    BY DEF Fails, record, IInv, Outer, Rest, Callers, Holders, callers
<1> HIDE DEF cs
<1>7. Inner' /\ left' \in Budget
    BY <1>1, <1>3, <1>4, <1>5, <1>6, FailoverStep
<1> QED BY <1>7 DEF IInv, Outer, World, Tokens, Record, Rest, Callers, Holders, callers, Fails, world, tokens, record

LEMMA TimersStep ==
    ASSUME IInv, RetryFires \/ GraceFires
    PROVE  IInv'
<1>1. Inner /\ Record /\ left \in Budget
    BY DEF IInv, Outer, Rest, Callers, Holders, callers
<1>2. UNCHANGED <<world, tokens, record, callers>>
    BY DEF RetryFires, GraceFires
<1>3. listed' = listed /\ paused' = paused
    BY <1>2 DEF record
<1>4. ~Over(listed, paused, left.may)
    BY DEF RetryFires, GraceFires, IInv, Inner, Sound, Gone
<1>5. Ready([slot EXCEPT !.retry = FALSE], client) /\ Ready([slot EXCEPT !.grace = FALSE], client)
    BY <1>1, SlotReady
<1>6. Inner' /\ left' \in Budget
  <2>1. CASE RetryFires
      BY <2>1, <1>1, <1>3, <1>4, <1>5, ConnectStep DEF RetryFires, Over, May
  <2>2. CASE GraceFires
      BY <2>2, <1>1, <1>3, <1>4, <1>5, FailoverStep DEF GraceFires
  <2> QED BY <2>1, <2>2
<1> QED BY <1>2, <1>6 DEF IInv, Outer, World, Tokens, Record, Rest, Callers, Holders, callers, world, tokens, record

LEMMA ProbingStep ==
    ASSUME IInv, left.asks > 0, ProbeBetter(Asked), UNCHANGED <<world, tokens, record, callers>>
    PROVE  IInv'
<1>1. Inner' /\ left' \in Budget
    BY LeftTyped, ProbeStep DEF IInv, record
<1> QED BY <1>1 DEF IInv, Outer, World, Tokens, Record, Rest, Callers, Holders, callers, world, tokens, record

\* The steps that call connectSlot, from the slot as it stands.
LEMMA ConnectingStep ==
    ASSUME IInv, NEW s \in {slot, [slot EXCEPT !.retry = FALSE]}, NEW l \in {left, Asked},
           l = left \/ left.asks > 0, Connect(s, client, l), paused \/ listed \/ May("forgotten"),
           World', Tokens', blocked' \in SUBSET Routes, UNCHANGED <<listed, paused>>,
           awaited' \in Runs \union {None} \/ awaited' = slot'.attempt,
           Holders'
    PROVE  IInv'
<1>1. l \in Budget /\ l.may = left.may
    BY LeftTyped
<1>2. Ready(s, client) /\ Inner /\ Record
    BY SlotReady DEF IInv, Outer
<1>3. Inner' /\ left' \in Budget
    BY <1>1, <1>2, ConnectStep
<1>4. slot'.attempt \in Runs \union {None}
    BY <1>3 DEF Inner, Sound, Shape, SlotState
<1> QED BY <1>2, <1>3, <1>4 DEF IInv, Outer, Record, Rest, Callers, Holders, callers

LEMMA PauseStep ==
    ASSUME IInv, Pause
    PROVE  IInv'
<1>1. left' \in Budget /\ left'.may = left.may
    BY LeftTyped DEF Pause
<1>2. Shape(slot, run, client) /\ slot \in SlotState
    BY DEF IInv, Inner, Sound, Shape
<1>3. /\ Parked(slot) \in SlotState /\ Parked(slot).attempt = slot.attempt /\ Parked(slot).conn = None
      /\ ~Parked(slot).retry /\ ~Parked(slot).grace /\ Parked(slot).status # "live"
    BY <1>2 DEF Parked, SlotState
<1>4. ~Wanted(listed, TRUE, left.may)
    BY DEF Wanted
<1>5. Sound(Parked(slot), Superseded(run), Closed(client, slot.conn), listed, TRUE, left.may)
    BY <1>2, <1>3, <1>4, ParkSound
<1>6. Inner'
    BY <1>1, <1>5 DEF Inner, Pause
<1> QED BY <1>1, <1>6 DEF IInv, Outer, World, Tokens, Record, Rest, Callers, Holders, callers, Pause, world, tokens

LEMMA RemoveStep ==
    ASSUME IInv, Remove
    PROVE  IInv'
<1> DEFINE z == [slot EXCEPT !.conn = None, !.retry = FALSE, !.grace = FALSE]
<1>1. left' \in Budget /\ left'.may = left.may
    BY LeftTyped DEF Remove
<1>2. Shape(slot, run, client) /\ slot \in SlotState
    BY DEF IInv, Inner, Sound, Shape
<1>3. z \in SlotState /\ z.attempt = slot.attempt /\ z.conn = None /\ ~z.retry /\ ~z.grace
    BY <1>2 DEF SlotState
<1>4. slot' = z
    BY DEF Remove
<1> HIDE DEF z
<1>5. ~Wanted(FALSE, paused, left.may)
    BY DEF Wanted
<1>6. Sound(z, Superseded(run), Closed(client, slot.conn), FALSE, paused, left.may)
    BY <1>2, <1>3, <1>5, ParkSound
<1>7. Inner'
    BY <1>1, <1>4, <1>6 DEF Inner, Remove
<1> QED BY <1>1, <1>7, Names DEF IInv, Outer, World, Tokens, Record, Rest, Callers, Holders, callers, Remove, world

LEMMA ResumeStep ==
    ASSUME IInv, Resume
    PROVE  IInv'
<1>1. Inner /\ left \in Budget /\ listed /\ Ready(slot, client)
    BY SlotReady DEF IInv, Outer, Rest, Callers, Holders, callers, Resume
<1>2. Dial(slot, client, left) /\ listed' = listed /\ paused' = FALSE
    BY DEF Resume
<1>3. ~May("resume") => Counts(slot, run)
  <2>1. run \in [Runs -> RunState] /\ slot.attempt \in Runs \union {None}
      BY <1>1 DEF Ready, Shape, SlotState
  <2> QED BY <2>1 DEF Resume, Abandoned, Counts
<1>4. Inner' /\ left' \in Budget
    BY <1>1, <1>2, <1>3, DialStep
<1> QED BY <1>4 DEF IInv, Outer, World, Tokens, Record, Rest, Callers, Holders, callers, Resume, world, tokens

\* A caller begins or ends to wait.
Waits == MintWaitEnds \/ ReachEnds \/ PairStarts \/ PairSaves \/ ListSlots

LEMMA NetworkStep ==
    ASSUME IInv, RouteMoves \/ MemberMoves \/ Granted \/ WindowSaves \/ Waits
    PROVE  IInv'
<1>1. left' \in Budget /\ left'.may = left.may
    BY LeftTyped DEF RouteMoves, MemberMoves, Granted, WindowSaves, Waits, MintWaitEnds, ReachEnds, PairStarts, PairSaves, ListSlots
<1>2. Inner'
    BY <1>1 DEF IInv, Inner, RouteMoves, MemberMoves, Granted, WindowSaves, Waits, MintWaitEnds, ReachEnds, PairStarts, PairSaves, ListSlots, record
<1>3. World'
    BY DEF IInv, Outer, World, RouteMoves, MemberMoves, Granted, WindowSaves, Waits, MintWaitEnds, ReachEnds, PairStarts, PairSaves, ListSlots, world
<1>4. Tokens'
  <2>1. Tokens /\ valid + 1 \in Nat /\ valid + 1 \in Token
      BY DEF IInv, Outer, Tokens, Token
  <2>2. CASE Granted
      BY <2>1, <2>2 DEF Tokens, Granted, tokens
  <2>3. CASE WindowSaves
      BY <2>1, <2>3, Names DEF Tokens, WindowSaves
  <2>4. CASE PairSaves
      BY <2>1, <2>4, Names DEF Tokens, PairSaves
  <2>5. CASE RouteMoves \/ MemberMoves \/ MintWaitEnds \/ ReachEnds \/ PairStarts \/ ListSlots
      BY <2>1, <2>5 DEF Tokens, RouteMoves, MemberMoves, MintWaitEnds, ReachEnds, PairStarts, ListSlots, world, tokens
  <2> QED BY <2>2, <2>3, <2>4, <2>5 DEF Waits
<1>5. Record' /\ Callers'
    BY DEF IInv, Outer, Record, Rest, Callers, Holders, callers, RouteMoves, MemberMoves, Granted, WindowSaves, Waits, MintWaitEnds, ReachEnds, PairStarts, PairSaves, ListSlots, record
<1> QED BY <1>1, <1>2, <1>3, <1>4, <1>5 DEF IInv, Outer, Rest, Callers, Holders, callers

LEMMA UserStep ==
    ASSUME IInv, User
    PROVE  IInv'
<1>1. World /\ Tokens /\ Record /\ left \in Budget
    BY DEF IInv, Outer, Rest, Callers, Holders, callers
<1>2. CASE NetworkChanged
  <2>1. CASE Live
      BY <1>2, <2>1, ProbingStep DEF NetworkChanged
  <2>2. CASE ~Live
    <3>1. /\ Connect([slot EXCEPT !.retry = FALSE], client, Asked) /\ left.asks > 0 /\ listed
          /\ UNCHANGED <<world, tokens, record, callers>>
        BY <1>2, <2>2 DEF NetworkChanged
    <3>2. World' /\ Tokens' /\ blocked' \in SUBSET Routes /\ awaited' \in Runs \union {None} /\ Holders'
        BY <3>1, <1>1 DEF World, Tokens, Record, Rest, Callers, Holders, callers, IInv, Outer, world, tokens, record
    <3> QED BY <3>1, <3>2, ConnectingStep DEF record
  <2> QED BY <2>1, <2>2
<1>3. CASE ClearBlocked
  <2>1. /\ Connect(slot, client, Asked) /\ left.asks > 0 /\ listed /\ blocked' = {}
        /\ UNCHANGED <<world, tokens, listed, paused, callers>>
      BY <1>3 DEF ClearBlocked
  <2>2. World' /\ Tokens' /\ blocked' \in SUBSET Routes /\ awaited' \in Runs \union {None} /\ Holders'
      BY <2>1, <1>1 DEF World, Tokens, Rest, Callers, Holders, callers, IInv, Outer, world, tokens
  <2> QED BY <2>1, <2>2, ConnectingStep
<1>4. CASE CameBack
  <2>1. /\ Connect([slot EXCEPT !.retry = FALSE], client, Asked) /\ left.asks > 0 /\ listed
        /\ UNCHANGED <<world, tokens, record, callers>>
      BY <1>4 DEF CameBack
  <2>2. World' /\ Tokens' /\ blocked' \in SUBSET Routes /\ awaited' \in Runs \union {None} /\ Holders'
      BY <2>1, <1>1 DEF World, Tokens, Record, Rest, Callers, Holders, callers, IInv, Outer, world, tokens, record
  <2> QED BY <2>1, <2>2, ConnectingStep DEF record
<1>5. CASE PairAgain \/ ListConnects \/ ReachNext
  <2>1. /\ Connect(slot, client, left) /\ (paused \/ listed \/ May("forgotten"))
        /\ UNCHANGED <<world, tokens, record>> /\ awaited' \in Runs \union {None}
        /\ Holders'
      BY <1>5, Names DEF PairAgain, ListConnects, ReachNext, StillConnects, IInv, Outer, Rest, Callers, Holders
  <2>2. World' /\ Tokens' /\ blocked' \in SUBSET Routes
      BY <2>1, <1>1 DEF World, Tokens, Record, world, tokens, record
  <2> QED BY <2>1, <2>2, ConnectingStep DEF record
<1>6. CASE Reach
  <2>1. /\ Connect(slot, client, Asked) /\ left.asks > 0 /\ listed
        /\ UNCHANGED <<world, tokens, record>> /\ awaited' = slot'.attempt /\ Holders'
      BY <1>6 DEF Reach, IInv, Outer, Rest, Callers, Holders
  <2>2. World' /\ Tokens' /\ blocked' \in SUBSET Routes
      BY <2>1, <1>1 DEF World, Tokens, Record, world, tokens, record
  <2> QED BY <2>1, <2>2, ConnectingStep DEF record
<1> QED BY <1>2, <1>3, <1>4, <1>5, <1>6, PauseStep, RemoveStep, ResumeStep, NetworkStep DEF User, Waits

LEMMA Initially ==
    ASSUME Init
    PROVE  IInv
<1> DEFINE x == Started("attempt", MaxRoutes + 1)
<1>1. MaxRoutes + 1 \in 0 .. MaxRoutes + 1 /\ 1 \in Nat
    BY SlotAssumption
<1>2. x \in RunState /\ x.pc = "token" /\ x.kind = "attempt" /\ x.current
    BY <1>1, Starts
<1> HIDE DEF x
<1>3. /\ run = [r \in Runs |-> IF r = 1 THEN x ELSE NoRun] /\ client = [r \in Runs |-> NoClient]
      /\ slot = [status |-> "offline", conn |-> None, attempt |-> 1, probing |-> FALSE,
                 retry |-> FALSE, grace |-> FALSE]
    BY DEF Init, x
<1>4. slot \in SlotState /\ slot.attempt = 1 /\ slot.conn = None /\ slot.status = "offline"
    BY <1>3, Names DEF SlotState
<1>5. run \in [Runs -> RunState] /\ run[1] = x /\ \A r \in Runs : r # 1 => run[r] = NoRun
    BY <1>2, <1>3, Names, Starts
<1>6. client \in [Runs -> ClientState] /\ \A r \in Runs : client[r].state = "none"
    BY <1>3, Starts
<1>7. Shape(slot, run, client)
    BY <1>2, <1>4, <1>5, <1>6, Names, Starts DEF Shape
<1>8. Shown(slot, client) /\ Counts(slot, run) /\ Awake(slot)
    BY <1>2, <1>4, <1>5, Names DEF Shown, Counts, Awake
<1>9. listed /\ ~paused
    BY DEF Init
<1>10. Inner
    BY <1>7, <1>8, <1>9 DEF Inner, Sound, Over
<1>11. Tokens
    BY <1>1 DEF Init, Tokens, Token
<1>12. World
    BY DEF Init, World
<1>13. Record /\ Rest
    BY SlotAssumption DEF Init, Record, Rest, Callers, Holders, callers
<1> QED BY <1>10, <1>11, <1>12, <1>13 DEF IInv, Outer

\* Every step, and every stutter, keeps the invariant.
LEMMA Inductive ==
    ASSUME IInv, [Next]_vars
    PROVE  IInv'
<1>1. CASE \E r \in Runs : FindRoute(r)
    BY <1>1, FindRouteStep
<1>2. CASE Reported
    BY <1>2, ReportedStep, FailsStep DEF Reported
<1>3. CASE Timer
  <2>1. ASSUME ProbeTick PROVE IInv'
      BY <2>1, ProbingStep DEF ProbeTick
  <2> QED BY <1>3, <2>1, TimersStep, NetworkStep DEF Timer, Waits
<1>4. CASE User
    BY <1>4, UserStep
<1>5. CASE Network
    BY <1>5, NetworkStep DEF Network
<1>6. CASE UNCHANGED vars
    BY <1>6 DEF vars, world, tokens, record, IInv, Outer, Inner, World, Tokens, Record, Rest, Callers, Holders, callers
<1> QED BY <1>1, <1>2, <1>3, <1>4, <1>5, <1>6 DEF Next

\* The slot, its runs, clients and timers are Sound in every state.
THEOREM Invariance == Spec => []IInv
<1>1. Init => IInv
    BY Initially
<1>2. IInv /\ [Next]_vars => IInv'
    BY Inductive
<1> QED BY <1>1, <1>2, PTL DEF Spec

-----------------------------------------------------------------------------

\* TypeOK: the slot, its runs and its clients keep their types, and the attempt the
\* slot shares with its callers (slot.connecting) is a run that has not ended.
THEOREM TypeCorrect == Spec => []TypeOK
<1>1. IInv => TypeOK
    BY DEF IInv, Outer, World, Tokens, Record, Rest, Callers, Holders, callers, Inner, Sound, Shape, TypeOK
<1> QED BY <1>1, Invariance, PTL

\* NothingLeaks: the generation and the closings of adopt, goOffline, setPaused and
\* dropSlot leave no client, timer or run behind, however attempts and probes overlap;
\* of a machine removed while a caller held its slot (the mishap "forgotten") it says
\* only that every client is the slot's or being opened.
THEOREM NoLeftovers == Spec => []NothingLeaks
<1>1. ASSUME IInv PROVE NothingLeaks
  <2>1. Shape(slot, run, client) /\ (listed => Shown(slot, client))
        /\ (Over(listed, paused, left.may) => Gone(slot, run))
      BY <1>1 DEF IInv, Inner, Sound
  <2>2. Attempts \subseteq {slot.attempt}
      BY <2>1 DEF Shape, Attempts
  <2>3. (paused \/ (~listed /\ ~May("forgotten"))) =>
            slot.conn = None /\ ~slot.retry /\ ~slot.grace /\ \A r \in Runs : ~run[r].current
      BY <2>1 DEF Over, Gone, May
  <2>4. /\ \A r \in Runs : client[r].state = "none" \/ r = slot.conn \/ run[r].pc = "open"
        /\ slot.conn # None => run[slot.conn].pc = "idle" /\ Conn.state \in {"open", "reconnecting", "failed"}
      BY <2>1 DEF Shape, Conn
  <2>5. listed => (Live <=> slot.conn # None /\ Conn.state = "open")
      BY <2>1 DEF Shown, Live, Conn
  <2> QED BY <2>2, <2>3, <2>4, <2>5 DEF NothingLeaks
<1> QED BY <1>1, Invariance, PTL

\* NeverIdle: whatever happened to its attempts and connections, a machine that is
\* neither paused nor connected has an attempt that counts, its retry or its grace timer.
THEOREM AlwaysTriedAgain == Spec => []NeverIdle
<1>1. ASSUME IInv, listed, ~paused, ~May("resume")
      PROVE  Live \/ slot.retry \/ slot.grace \/ Attempts # {}
  <2>1. Shape(slot, run, client) /\ Counts(slot, run) /\ Awake(slot)
      BY <1>1 DEF IInv, Inner, Sound, Wanted, May
  <2>2. CASE slot.attempt # None
    <3>1. slot.attempt \in Runs /\ run[slot.attempt].current /\ run[slot.attempt].kind = "attempt"
        BY <2>1, <2>2 DEF Shape, Counts, SlotState
    <3> QED BY <3>1 DEF Attempts
  <2>3. CASE slot.attempt = None
      BY <2>1, <2>3 DEF Awake, Live
  <2> QED BY <2>2, <2>3
<1>2. IInv => NeverIdle
    BY <1>1 DEF NeverIdle
<1> QED BY <1>2, Invariance, PTL

=============================================================================
