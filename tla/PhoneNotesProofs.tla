-------------------------- MODULE PhoneNotesProofs --------------------------
(* The safety properties of PhoneNotes, for any texts, budgets and number  *)
(* of openings: types, saves of a session do not overlap, no revision of   *)
(* another device is replaced unseen (all from IInv), no text that was     *)
(* typed is lost (HInv, with Ordered for a text that was erased), no alarm *)
(* is false (AInv), and no draft is left with nobody to save it (Minded).  *)
EXTENDS PhoneNotes, TLAPS

(* The type invariant in parts.                                            *)
Revision == [text : Texts, by : {"phone", "other"}]
Calls == [by : Sessions, op : Ops, text : Texts, expected : Nat, answer : Nat \union {None, Conflict}]
StraySave == [text : Texts, expected : Nat]

WorldOK == target \in {"id", "thread"} /\ link \in BOOLEAN /\ news \in Seq(Nat)
LogOK == log \in Seq(Revision)
CallsOK == calls \in Seq(Calls)
StrayOK == stray \in SUBSET StraySave
ScreenOK == opened \in Nat /\ shown \in 0 .. opened /\ opened <= MaxOpenings
NoteOK == note \in [Sessions -> SessionState]
KeptOK == kept \in Draft \union {None}
LeftOK == left \in Budget
HistoryOK == unsaved \in Texts \union {None} /\ known \in SUBSET Nat
Types == WorldOK /\ LogOK /\ CallsOK /\ StrayOK /\ ScreenOK /\ NoteOK /\ KeptOK /\ LeftOK /\ HistoryOK

\* What is known of a revision that is named anywhere.
Trusted(n) == n <= Current /\ Familiar(n)

SessionTrust(s, x) ==
    /\ x.base <= Current /\ x.expected <= Current
    /\ x.draft # None => Trusted(x.draft.base)
    /\ s = shown \/ x.draft # None => Trusted(x.expected)
    /\ s > opened => x = Fresh
CallTrust(c) ==
    /\ c.by <= opened
    /\ c.op # "save" => c.answer # Conflict
    /\ c.answer \in Nat => c.answer <= Current
    /\ c.op = "save" => Trusted(c.expected)

SessionsTrusted == \A s \in Sessions : SessionTrust(s, note[s])
CallsTrusted == \A i \in 1 .. Len(calls) : CallTrust(calls[i])
StrayTrusted == \A c \in stray : Trusted(c.expected)
KeptTrusted == kept # None => Trusted(kept.base)
Trust == SessionsTrusted /\ CallsTrusted /\ StrayTrusted /\ KeptTrusted

\* One save per session that is saving, in these calls.
IsSave(c, s) == c.by = s /\ c.op = "save"
Match(cs, ns) ==
    /\ \A s \in Sessions : ns[s].saving # None <=> \E i \in 1 .. Len(cs) : IsSave(cs[i], s)
    /\ \A i, j \in 1 .. Len(cs) : cs[i].op = "save" /\ IsSave(cs[j], cs[i].by) => i = j
OneSave == Match(calls, note)

IInv == Types /\ Trust /\ OneSave

LEMMA Parts == IInv => TypeOK
<1> SUFFICES ASSUME IInv PROVE TypeOK
    OBVIOUS
<1>1. Types
    BY DEF IInv
<1>2. \A s \in Sessions : note[s].base <= Current /\ note[s].expected <= Current
    BY DEF IInv, Trust, SessionsTrusted, SessionTrust
<1>3. \A s \in Sessions : note[s].saving # None <=> Saves(s) # {}
    BY DEF IInv, OneSave, Match, IsSave, Saves, Out
<1>4. \A i, j \in Out : i \in Saves(calls[i].by) /\ j \in Saves(calls[i].by) => i = j
    BY DEF IInv, OneSave, Match, IsSave, Saves, Out
<1> QED BY <1>1, <1>2, <1>3, <1>4, Zenon DEF TypeOK, Types, WorldOK, LogOK, CallsOK, StrayOK, ScreenOK,
           NoteOK, KeptOK, LeftOK, HistoryOK, Revision, Calls, StraySave

-----------------------------------------------------------------------------
(* Calls are added, removed and answered.                                  *)

LEMMA Removed ==
    ASSUME NEW cs \in Seq(Calls), NEW i \in 1 .. Len(cs)
    PROVE  /\ RemoveAt(cs, i) \in Seq(Calls) /\ Len(RemoveAt(cs, i)) = Len(cs) - 1
           /\ \A j \in 1 .. (Len(cs) - 1) :
                 RemoveAt(cs, i)[j] = IF j < i THEN cs[j] ELSE cs[j + 1]
<1>1. /\ SubSeq(cs, 1, i - 1) \in Seq(Calls) /\ Len(SubSeq(cs, 1, i - 1)) = i - 1
      /\ SubSeq(cs, i + 1, Len(cs)) \in Seq(Calls) /\ Len(SubSeq(cs, i + 1, Len(cs))) = Len(cs) - i
    OBVIOUS
<1>2. \A j \in 1 .. (i - 1) : SubSeq(cs, 1, i - 1)[j] = cs[j]
    OBVIOUS
<1>3. \A j \in 1 .. (Len(cs) - i) : SubSeq(cs, i + 1, Len(cs))[j] = cs[i + j]
    OBVIOUS
<1> DEFINE a == SubSeq(cs, 1, i - 1)
           b == SubSeq(cs, i + 1, Len(cs))
<1>4. a \in Seq(Calls) /\ Len(a) = i - 1 /\ b \in Seq(Calls) /\ Len(b) = Len(cs) - i
    BY <1>1
<1>5. (\A j \in 1 .. (i - 1) : a[j] = cs[j]) /\ (\A j \in 1 .. (Len(cs) - i) : b[j] = cs[i + j])
    BY <1>2, <1>3
<1>6. RemoveAt(cs, i) = a \o b
    BY DEF RemoveAt
<1>7. Len(cs) \in Nat
    OBVIOUS
<1> HIDE DEF a, b
<1>8. a \o b \in Seq(Calls) /\ Len(a \o b) = Len(cs) - 1
    BY SMTT(30), <1>4, <1>7
<1>9. ASSUME NEW j \in 1 .. (Len(cs) - 1)
      PROVE  (a \o b)[j] = IF j < i THEN cs[j] ELSE cs[j + 1]
  <2>1. CASE j < i
    <3>1. (a \o b)[j] = a[j]
        BY <1>4, <1>7, <2>1
    <3> QED BY <3>1, <1>5, <2>1
  <2>2. CASE ~(j < i)
    <3>1. (a \o b)[j] = b[j - (i - 1)]
        BY <1>4, <1>7, <2>2
    <3>2. j - (i - 1) \in 1 .. (Len(cs) - i) /\ i + (j - (i - 1)) = j + 1
        BY <1>7, <2>2
    <3> QED BY <3>1, <3>2, <1>5, <2>2
  <2> QED BY <2>1, <2>2
<1> QED BY <1>6, <1>8, <1>9

LEMMA MatchSame ==
    ASSUME NEW cs, NEW ns, NEW ms, Match(cs, ns), \A s \in Sessions : ms[s].saving = ns[s].saving
    PROVE  Match(cs, ms)
  BY DEF Match

LEMMA MatchAppend ==
    ASSUME NEW cs \in Seq(Calls), NEW c \in Calls, NEW ns, Match(cs, ns), c.op # "save"
    PROVE  Match(Append(cs, c), ns)
<1>1. Len(Append(cs, c)) = Len(cs) + 1 /\ Append(cs, c)[Len(cs) + 1] = c
      /\ \A i \in 1 .. Len(cs) : Append(cs, c)[i] = cs[i]
    OBVIOUS
<1>2. Len(cs) \in Nat
    OBVIOUS
<1> QED BY <1>1, <1>2 DEF Match, IsSave

LEMMA MatchSave ==
    ASSUME NEW cs \in Seq(Calls), NEW c \in Calls, NEW ns, NEW ms, Match(cs, ns), c.op = "save",
           ns[c.by].saving = None, ms[c.by].saving # None,
           \A s \in Sessions : s # c.by => ms[s].saving = ns[s].saving
    PROVE  Match(Append(cs, c), ms)
<1>1. Len(Append(cs, c)) = Len(cs) + 1 /\ Append(cs, c)[Len(cs) + 1] = c
      /\ \A i \in 1 .. Len(cs) : Append(cs, c)[i] = cs[i]
    OBVIOUS
<1>2. Len(cs) \in Nat /\ c.by \in Sessions
    BY DEF Calls
<1>3. \A i \in 1 .. Len(cs) : ~IsSave(cs[i], c.by)
    BY <1>2 DEF Match
<1>4. \A i \in 1 .. Len(cs) : cs[i].by \in Sessions
  <2>1. \A i \in 1 .. Len(cs) : cs[i] \in Calls
      OBVIOUS
  <2> QED BY <2>1 DEF Calls
<1> QED BY <1>1, <1>2, <1>3, <1>4 DEF Match, IsSave

LEMMA MatchRemove ==
    ASSUME NEW cs \in Seq(Calls), NEW i \in 1 .. Len(cs), NEW ns, Match(cs, ns), cs[i].op # "save"
    PROVE  Match(RemoveAt(cs, i), ns)
<1> DEFINE ds == RemoveAt(cs, i)
<1>1. Len(ds) = Len(cs) - 1 /\ \A j \in 1 .. (Len(cs) - 1) : ds[j] = IF j < i THEN cs[j] ELSE cs[j + 1]
    BY Removed
<1>2. Len(cs) \in Nat
    OBVIOUS
<1> HIDE DEF ds
<1>3. \A s \in Sessions : (\E j \in 1 .. Len(cs) : IsSave(cs[j], s)) <=> (\E j \in 1 .. Len(ds) : IsSave(ds[j], s))
  <2> SUFFICES ASSUME NEW s \in Sessions
               PROVE  (\E j \in 1 .. Len(cs) : IsSave(cs[j], s)) <=> (\E j \in 1 .. Len(ds) : IsSave(ds[j], s))
      OBVIOUS
  <2>1. ASSUME NEW j \in 1 .. Len(cs), IsSave(cs[j], s) PROVE \E k \in 1 .. Len(ds) : IsSave(ds[k], s)
    <3>1. j # i
        BY <2>1 DEF IsSave
    <3>2. CASE j < i
        BY <3>2, <2>1, <1>1, <1>2
    <3>3. CASE j > i
      <4>1. j - 1 \in 1 .. Len(ds) /\ ds[j - 1] = cs[j]
          BY <3>3, <1>1, <1>2
      <4> QED BY <4>1, <2>1
    <3> QED BY <3>1, <3>2, <3>3, <1>2
  <2>2. ASSUME NEW j \in 1 .. Len(ds), IsSave(ds[j], s) PROVE \E k \in 1 .. Len(cs) : IsSave(cs[k], s)
      BY <2>2, <1>1, <1>2
  <2> QED BY <2>1, <2>2
<1>4. ASSUME NEW j \in 1 .. Len(ds), NEW k \in 1 .. Len(ds), ds[j].op = "save", IsSave(ds[k], ds[j].by)
      PROVE  j = k
  <2>1. PICK p \in 1 .. Len(cs) : ds[j] = cs[p] /\ p = IF j < i THEN j ELSE j + 1
      BY <1>1, <1>2
  <2>2. PICK q \in 1 .. Len(cs) : ds[k] = cs[q] /\ q = IF k < i THEN k ELSE k + 1
      BY <1>1, <1>2
  <2>3. p = q
      BY <1>4, <2>1, <2>2 DEF Match
  <2> QED BY <2>1, <2>2, <2>3, <1>1, <1>2
<1>5. Match(ds, ns)
    BY <1>3, <1>4 DEF Match
<1> QED BY <1>5 DEF ds

LEMMA MatchDone ==
    ASSUME NEW cs \in Seq(Calls), NEW i \in 1 .. Len(cs), NEW ns, NEW ms, Match(cs, ns), cs[i].op = "save",
           ms[cs[i].by].saving = None,
           \A s \in Sessions : s # cs[i].by => ms[s].saving = ns[s].saving
    PROVE  Match(RemoveAt(cs, i), ms)
<1> DEFINE ds == RemoveAt(cs, i)
<1>1. Len(ds) = Len(cs) - 1 /\ \A j \in 1 .. (Len(cs) - 1) : ds[j] = IF j < i THEN cs[j] ELSE cs[j + 1]
    BY Removed
<1>2. Len(cs) \in Nat /\ cs[i].by \in Sessions
  <2>1. cs[i] \in Calls
      OBVIOUS
  <2> QED BY <2>1 DEF Calls
<1> HIDE DEF ds
<1>3. ASSUME NEW s \in Sessions, s # cs[i].by
      PROVE  (\E j \in 1 .. Len(cs) : IsSave(cs[j], s)) <=> (\E j \in 1 .. Len(ds) : IsSave(ds[j], s))
  <2>1. ASSUME NEW j \in 1 .. Len(cs), IsSave(cs[j], s) PROVE \E k \in 1 .. Len(ds) : IsSave(ds[k], s)
    <3>1. j # i
        BY <2>1, <1>3 DEF IsSave
    <3>2. CASE j < i
        BY <3>2, <2>1, <1>1, <1>2
    <3>3. CASE j > i
      <4>1. j - 1 \in 1 .. Len(ds) /\ ds[j - 1] = cs[j]
          BY <3>3, <1>1, <1>2
      <4> QED BY <4>1, <2>1
    <3> QED BY <3>1, <3>2, <3>3, <1>2
  <2>2. ASSUME NEW j \in 1 .. Len(ds), IsSave(ds[j], s) PROVE \E k \in 1 .. Len(cs) : IsSave(cs[k], s)
      BY <2>2, <1>1, <1>2
  <2> QED BY <2>1, <2>2
<1>4. ASSUME NEW j \in 1 .. Len(ds), NEW k \in 1 .. Len(ds), ds[j].op = "save", IsSave(ds[k], ds[j].by)
      PROVE  j = k
  <2>1. PICK p \in 1 .. Len(cs) : ds[j] = cs[p] /\ p = IF j < i THEN j ELSE j + 1
      BY <1>1, <1>2
  <2>2. PICK q \in 1 .. Len(cs) : ds[k] = cs[q] /\ q = IF k < i THEN k ELSE k + 1
      BY <1>1, <1>2
  <2>3. p = q
      BY <1>4, <2>1, <2>2 DEF Match
  <2> QED BY <2>1, <2>2, <2>3, <1>1, <1>2
<1>5. \A j \in 1 .. Len(ds) : ~IsSave(ds[j], cs[i].by)
  <2> SUFFICES ASSUME NEW j \in 1 .. Len(ds), IsSave(ds[j], cs[i].by) PROVE FALSE
      OBVIOUS
  <2>1. PICK k \in 1 .. Len(cs) : k # i /\ ds[j] = cs[k]
      BY <1>1, <1>2
  <2> QED BY <2>1 DEF Match
<1>6. Match(ds, ms)
    BY <1>2, <1>3, <1>4, <1>5 DEF Match
<1> QED BY <1>6 DEF ds

\* An answer changes neither who called nor what for.
LEMMA MatchAnswer ==
    ASSUME NEW cs \in Seq(Calls), NEW ds \in Seq(Calls), NEW ns, Match(cs, ns), Len(ds) = Len(cs),
           \A i \in 1 .. Len(cs) : ds[i].by = cs[i].by /\ ds[i].op = cs[i].op
    PROVE  Match(ds, ns)
  BY DEF Match, IsSave

-----------------------------------------------------------------------------
(* What the helpers do to a session.                                       *)

Keeps(x, y) == y.base = x.base /\ y.expected = x.expected /\ y.draft \in {x.draft, None}

LEMMA CallType ==
    ASSUME NEW s \in Sessions, NEW op \in Ops, NEW t \in Texts, NEW e \in Nat
    PROVE  /\ Call(s, op, t, e) \in Calls /\ Call(s, op, t, e).by = s
           /\ Call(s, op, t, e).op = op /\ Call(s, op, t, e).expected = e /\ Call(s, op, t, e).answer = None
  BY DEF Call, Calls

LEMMA SyncFacts ==
    ASSUME NEW s \in Sessions, NEW x \in SessionState, Sync(s, x)
    PROVE  \E y \in SessionState :
              /\ note' = [note EXCEPT ![s] = y] /\ Keeps(x, y) /\ y.saving = x.saving
              /\ calls' = calls \/ calls' = Append(calls, Call(s, "get", Blank, 0))
<1>1. CASE link'
    BY <1>1 DEF Sync, Keeps
<1>2. CASE ~link'
  <2>1. [x EXCEPT !.loaded = TRUE] \in SessionState /\ Keeps(x, [x EXCEPT !.loaded = TRUE])
        /\ [x EXCEPT !.loaded = TRUE].saving = x.saving
      BY DEF SessionState, Keeps
  <2> QED BY <1>2, <2>1 DEF Sync
<1> QED BY <1>1, <1>2

LEMMA SaveFacts ==
    ASSUME NEW s \in Sessions, NEW x \in SessionState, NEW others, Save(s, x, others)
    PROVE  \E y \in SessionState :
              /\ note' = [note EXCEPT ![s] = y] /\ Keeps(x, y)
              /\ \/ calls' = others /\ y.saving = x.saving
                 \/ /\ x.saving = None /\ x.draft # None /\ y.saving # None
                    /\ calls' = Append(others, Call(s, "save", x.draft.text, x.expected))
<1>0. CASE Drops(x)
  <2> DEFINE y == [x EXCEPT !.draft = None, !.timer = FALSE, !.failed = FALSE]
  <2>1. y \in SessionState /\ Keeps(x, y) /\ y.saving = x.saving
      BY DEF SessionState, Keeps
  <2>2. note' = [note EXCEPT ![s] = y] /\ calls' = others
      BY <1>0 DEF Save
  <2> HIDE DEF y
  <2> QED BY <2>1, <2>2
<1>1. CASE ~Drops(x) /\ CanSave(x) /\ Reaches(x)
  <2> DEFINE y == [x EXCEPT !.saving = x.draft, !.touched = FALSE, !.timer = FALSE, !.failed = FALSE]
  <2>1. y \in SessionState /\ Keeps(x, y) /\ y.saving = x.draft
      BY DEF SessionState, Keeps
  <2>2. x.saving = None /\ x.draft # None
      BY <1>1 DEF CanSave
  <2>3. note' = [note EXCEPT ![s] = y] /\ calls' = Append(others, Call(s, "save", x.draft.text, x.expected))
      BY <1>1 DEF Save, Sends
  <2> HIDE DEF y
  <2> QED BY <2>1, <2>2, <2>3
<1>2. CASE ~Drops(x) /\ ~(CanSave(x) /\ Reaches(x))
  <2> DEFINE f == CanSave(x) \/ x.failed
             y == [x EXCEPT !.timer = FALSE, !.failed = f]
  <2>1. f \in BOOLEAN
      BY Zenon DEF CanSave, SessionState
  <2>2. note' = [note EXCEPT ![s] = y] /\ calls' = others
      BY <1>2 DEF Save, Sends
  <2> HIDE DEF f
  <2>3. y \in SessionState /\ Keeps(x, y) /\ y.saving = x.saving
      BY <2>1 DEF SessionState, Keeps
  <2> HIDE DEF y
  <2> QED BY <2>2, <2>3
<1> QED BY <1>0, <1>1, <1>2

\* What is kept stays, or goes with the draft.
LEMMA SaveKept ==
    ASSUME NEW s, NEW x, NEW others, Save(s, x, others)
    PROVE  kept' \in {kept, None}
  BY DEF Save

-----------------------------------------------------------------------------
(* What was trusted stays so.                                              *)

Grows == /\ Len(log) <= Len(log') /\ \A n \in 1 .. Len(log) : log'[n] = log[n]
         /\ known \subseteq known' /\ opened <= opened'

LEMMA TrustGrows ==
    ASSUME LogOK, Grows, NEW n \in Nat, Trusted(n)
    PROVE  Trusted(n)'
<1>1. Len(log) \in Nat /\ Len(log') \in Int
    BY DEF LogOK, Grows
<1> QED BY <1>1 DEF Trusted, Familiar, Current, Grows

LEMMA SessionGrows ==
    ASSUME LogOK, LogOK', ScreenOK, ScreenOK', Grows, NEW s \in Sessions, NEW x \in SessionState, SessionTrust(s, x),
           s = shown' => s = shown
    PROVE  SessionTrust(s, x)'
<1>1. x.base \in Nat /\ x.expected \in Nat /\ (x.draft # None => x.draft.base \in Nat)
    BY DEF SessionState, Draft
<1>2. Len(log) \in Nat /\ Len(log') \in Nat
    BY DEF LogOK
<1>3. x.base <= Current' /\ x.expected <= Current'
    BY <1>1, <1>2 DEF SessionTrust, Current, Grows
<1>4. x.draft # None => Trusted(x.draft.base)'
    BY <1>1, TrustGrows DEF SessionTrust
<1>5. (s = shown' \/ x.draft # None) => Trusted(x.expected)'
    BY <1>1, TrustGrows DEF SessionTrust
<1>6. s > opened' => x = Fresh
    BY DEF SessionTrust, Grows, ScreenOK, Sessions
<1> QED BY <1>3, <1>4, <1>5, <1>6 DEF SessionTrust

LEMMA SessionsGrow ==
    ASSUME LogOK, LogOK', ScreenOK, ScreenOK', NoteOK, Grows, SessionsTrusted, NEW s \in Sessions, NEW y \in SessionState,
           note' = [note EXCEPT ![s] = y], SessionTrust(s, y)',
           \A r \in Sessions : r # s /\ r = shown' => r = shown
    PROVE  SessionsTrusted'
<1> SUFFICES ASSUME NEW r \in Sessions PROVE SessionTrust(r, note[r])'
    BY DEF SessionsTrusted
<1>1. CASE r = s
  <2>1. note'[r] = y
      BY <1>1 DEF NoteOK
  <2> QED BY <2>1, <1>1 DEF SessionTrust
<1>2. CASE r # s
  <2>1. note'[r] = note[r] /\ note[r] \in SessionState /\ SessionTrust(r, note[r])
      BY <1>2 DEF NoteOK, SessionsTrusted
  <2> DEFINE x == note[r]
  <2>2. \A z \in SessionState : SessionTrust(r, z) => SessionTrust(r, z)'
      BY <1>2, SessionGrows
  <2> QED BY <2>1, <2>2 DEF SessionTrust
<1> QED BY <1>1, <1>2

LEMMA CallGrows ==
    ASSUME LogOK, LogOK', ScreenOK, ScreenOK', Grows, NEW c \in Calls, CallTrust(c)
    PROVE  CallTrust(c)'
<1>1. Len(log) \in Nat /\ Len(log') \in Nat /\ c.expected \in Nat
    BY DEF LogOK, Calls
<1>2. c.op = "save" => Trusted(c.expected)'
    BY <1>1, TrustGrows DEF CallTrust
<1>3. c.answer \in Nat => c.answer <= Current'
    BY <1>1 DEF CallTrust, Current, Grows
<1>4. c.by <= opened'
    BY DEF CallTrust, Grows, ScreenOK, Calls, Sessions
<1> QED BY <1>2, <1>3, <1>4 DEF CallTrust

LEMMA CallsGrow ==
    ASSUME LogOK, LogOK', ScreenOK, ScreenOK', Grows, CallsOK, CallsTrusted, NEW cs \in Seq(Calls),
           \A i \in 1 .. Len(cs) : \E j \in 1 .. Len(calls) : cs[i] = calls[j]
    PROVE  \A i \in 1 .. Len(cs) : CallTrust(cs[i])'
<1>1. \A c \in Calls : CallTrust(c) => CallTrust(c)'
    BY CallGrows
<1>2. \A j \in 1 .. Len(calls) : calls[j] \in Calls /\ CallTrust(calls[j])
    BY DEF CallsOK, CallsTrusted
<1> QED BY <1>1, <1>2

LEMMA KeptGrows ==
    ASSUME LogOK, Grows, KeptOK, KeptTrusted, kept' = kept
    PROVE  KeptTrusted'
<1>1. kept # None => kept.base \in Nat /\ Trusted(kept.base)
    BY DEF KeptOK, KeptTrusted, Draft
<1>2. kept # None => Trusted(kept.base)'
    BY <1>1, TrustGrows
<1> QED BY <1>2 DEF KeptTrusted

LEMMA StrayGrows ==
    ASSUME LogOK, Grows, StrayOK, StrayTrusted, stray' \subseteq stray
    PROVE  StrayTrusted'
<1> SUFFICES ASSUME NEW c \in stray' PROVE Trusted(c.expected)'
    BY DEF StrayTrusted
<1>1. c \in stray /\ c.expected \in Nat /\ Trusted(c.expected)
    BY DEF StrayOK, StraySave, StrayTrusted
<1>2. \A n \in Nat : Trusted(n) => Trusted(n)'
    BY TrustGrows
<1> QED BY <1>1, <1>2

-----------------------------------------------------------------------------
(* The calls a session makes.                                              *)

CallsGood(cs) == \A i \in 1 .. Len(cs) : CallTrust(cs[i])

LEMMA AppendGood ==
    ASSUME NEW cs \in Seq(Calls), NEW c \in Calls, CallsGood(cs)', CallTrust(c)', calls' = Append(cs, c)
    PROVE  CallsOK' /\ CallsTrusted'
<1>1. Append(cs, c) \in Seq(Calls) /\ Len(Append(cs, c)) = Len(cs) + 1 /\ Append(cs, c)[Len(cs) + 1] = c
      /\ \A i \in 1 .. Len(cs) : Append(cs, c)[i] = cs[i]
    OBVIOUS
<1>2. Len(cs) \in Nat
    OBVIOUS
<1>3. ASSUME NEW i \in 1 .. Len(calls') PROVE CallTrust(calls[i])'
  <2>1. CASE i = Len(cs) + 1
    <3>1. calls'[i] = c
        BY <2>1, <1>1
    <3> QED BY <3>1 DEF CallTrust
  <2>2. CASE i \in 1 .. Len(cs)
    <3>1. calls'[i] = cs[i]
        BY <2>2, <1>1
    <3> QED BY <3>1, <2>2 DEF CallsGood, CallTrust
  <2> QED BY <1>1, <1>2, <2>1, <2>2
<1> QED BY <1>1, <1>3 DEF CallsOK, CallsTrusted

\* The calls so far, without one of them or with all.
LEMMA CallsSoFar ==
    ASSUME IInv, LogOK', ScreenOK', Grows, NEW cs \in Seq(Calls),
           cs = calls \/ \E i \in 1 .. Len(calls) : cs = RemoveAt(calls, i)
    PROVE  CallsGood(cs)'
<1>1. \A i \in 1 .. Len(cs) : \E j \in 1 .. Len(calls) : cs[i] = calls[j]
  <2>1. CASE cs = calls
      BY <2>1
  <2>2. CASE \E i \in 1 .. Len(calls) : cs = RemoveAt(calls, i)
    <3>1. PICK k \in 1 .. Len(calls) : cs = RemoveAt(calls, k)
        BY <2>2
    <3>2. calls \in Seq(Calls) /\ Len(calls) \in Nat
        BY DEF IInv, Types, CallsOK
    <3>3. Len(cs) = Len(calls) - 1
          /\ \A j \in 1 .. (Len(calls) - 1) : cs[j] = IF j < k THEN calls[j] ELSE calls[j + 1]
        BY <3>1, <3>2, Removed
    <3> QED BY <3>2, <3>3
  <2> QED BY <2>1, <2>2
<1> QED BY <1>1, CallsGrow DEF IInv, Types, Trust, CallsGood

LEMMA CallsStay ==
    ASSUME IInv, LogOK', ScreenOK', Grows, calls' = calls
    PROVE  CallsOK' /\ CallsTrusted'
<1>1. PICK cs \in Seq(Calls) : cs = calls
    BY DEF IInv, Types, CallsOK
<1>2. CallsGood(cs)'
    BY <1>1, CallsSoFar
<1> QED BY <1>1, <1>2 DEF CallsGood, CallsTrusted, CallsOK, CallTrust

LEMMA CallsRemoved ==
    ASSUME IInv, LogOK', ScreenOK', Grows, NEW i \in 1 .. Len(calls), calls' = RemoveAt(calls, i)
    PROVE  CallsOK' /\ CallsTrusted'
<1>1. PICK cs \in Seq(Calls) : cs = RemoveAt(calls, i)
    BY Removed DEF IInv, Types, CallsOK
<1>2. CallsGood(cs)'
    BY <1>1, CallsSoFar
<1> QED BY <1>1, <1>2 DEF CallsGood, CallsTrusted, CallsOK, CallTrust

LEMMA CallsAppended ==
    ASSUME IInv, LogOK', ScreenOK', Grows, NEW c \in Calls, CallTrust(c)', calls' = Append(calls, c)
    PROVE  CallsOK' /\ CallsTrusted'
<1>1. PICK cs \in Seq(Calls) : cs = calls
    BY DEF IInv, Types, CallsOK
<1>2. CallsGood(cs)'
    BY <1>1, CallsSoFar
<1> QED BY <1>1, <1>2, AppendGood

\* A session that reads the note.
LEMMA AfterSync ==
    ASSUME IInv, NotesAssumption, LogOK', ScreenOK', Grows, NEW s \in Sessions, NEW x \in SessionState, Sync(s, x),
           x.saving = note[s].saving, \A y \in SessionState : Keeps(x, y) => SessionTrust(s, y)',
           s <= opened', \A r \in Sessions : r # s /\ r = shown' => r = shown
    PROVE  NoteOK' /\ CallsOK' /\ SessionsTrusted' /\ CallsTrusted' /\ OneSave'
<1> USE DEF IInv, Types, Trust
<1>1. PICK y \in SessionState :
              /\ note' = [note EXCEPT ![s] = y] /\ Keeps(x, y) /\ y.saving = x.saving
              /\ calls' = calls \/ calls' = Append(calls, Call(s, "get", Blank, 0))
    BY SyncFacts
<1>2. NoteOK'
    BY <1>1 DEF NoteOK
<1>3. SessionsTrusted'
    BY <1>1, SessionsGrow
<1>4. \A r \in Sessions : note'[r].saving = note[r].saving
    BY <1>1 DEF NoteOK
<1>5. calls \in Seq(Calls) /\ Match(calls, note')
    BY <1>4, MatchSame DEF OneSave, CallsOK
<1>6. CASE calls' = calls
    BY <1>2, <1>3, <1>5, <1>6, CallsStay DEF OneSave
<1>7. CASE calls' = Append(calls, Call(s, "get", Blank, 0))
  <2>1. PICK c \in Calls : c = Call(s, "get", Blank, 0) /\ c.by = s /\ c.op = "get" /\ c.answer = None
      BY CallType DEF NotesAssumption, Ops
  <2>2. CallTrust(c)'
      BY <2>1 DEF CallTrust, NotesAssumption
  <2>3. CallsOK' /\ CallsTrusted'
      BY <1>7, <2>1, <2>2, CallsAppended
  <2>4. Match(calls', note')
      BY <1>5, <1>7, <2>1, MatchAppend
  <2> QED BY <1>2, <1>3, <2>3, <2>4 DEF OneSave
<1> QED BY <1>1, <1>6, <1>7

\* A session that saves, with what the calls were before.
LEMMA AfterSaveCall ==
    ASSUME IInv, NotesAssumption, LogOK', ScreenOK', Grows, NEW s \in Sessions, NEW x \in SessionState,
           NEW cs \in Seq(Calls), Save(s, x, cs), CallsGood(cs)',
           Match(cs, note), x.saving = note[s].saving,
           \A y \in SessionState : Keeps(x, y) => SessionTrust(s, y)',
           s <= opened', \A r \in Sessions : r = shown' => r = shown
    PROVE  NoteOK' /\ CallsOK' /\ SessionsTrusted' /\ CallsTrusted' /\ OneSave'
<1> USE DEF IInv, Types, Trust
<1>1. PICK y \in SessionState :
              /\ note' = [note EXCEPT ![s] = y] /\ Keeps(x, y)
              /\ \/ calls' = cs /\ y.saving = x.saving
                 \/ /\ x.saving = None /\ x.draft # None /\ y.saving # None
                    /\ calls' = Append(cs, Call(s, "save", x.draft.text, x.expected))
    BY SaveFacts
<1>2. NoteOK'
    BY <1>1 DEF NoteOK
<1>3. SessionsTrusted'
    BY <1>1, SessionsGrow
<1>4. CASE calls' = cs /\ y.saving = x.saving
  <2>1. \A r \in Sessions : note'[r].saving = note[r].saving
      BY <1>1, <1>4 DEF NoteOK
  <2>2. Match(cs, note')
      BY <2>1, MatchSame
  <2>3. CallsOK' /\ CallsTrusted'
      BY <1>4 DEF CallsOK, CallsTrusted, CallsGood, CallTrust
  <2> QED BY <1>2, <1>3, <1>4, <2>2, <2>3 DEF OneSave
<1>5. CASE /\ x.saving = None /\ x.draft # None /\ y.saving # None
           /\ calls' = Append(cs, Call(s, "save", x.draft.text, x.expected))
  <2>1. PICK c \in Calls : /\ c = Call(s, "save", x.draft.text, x.expected) /\ c.by = s /\ c.op = "save"
                           /\ c.answer = None /\ c.expected = x.expected
    <3>1. x.draft.text \in Texts /\ x.expected \in Nat
        BY <1>5 DEF SessionState, Draft
    <3> QED BY <3>1, CallType DEF Ops
  <2>2. Trusted(x.expected)'
      BY <1>1, <1>5 DEF SessionTrust, Keeps
  <2>3. CallTrust(c)'
      BY <2>1, <2>2 DEF CallTrust, NotesAssumption
  <2>4. CallsOK' /\ CallsTrusted'
      BY <1>5, <2>1, <2>3, AppendGood
  <2>5. \A r \in Sessions : r # s => note'[r].saving = note[r].saving
      BY <1>1 DEF NoteOK
  <2>6. note'[s].saving # None /\ note[s].saving = None
      BY <1>1, <1>5 DEF NoteOK
  <2>7. Match(calls', note')
      BY <1>5, <2>1, <2>5, <2>6, MatchSave
  <2> QED BY <1>2, <1>3, <2>4, <2>7 DEF OneSave
<1> QED BY <1>1, <1>4, <1>5

\* The same about the calls and the sessions of a step.
LEMMA SavesSame ==
    ASSUME OneSave, \A s \in Sessions : note'[s].saving = note[s].saving
    PROVE  Match(calls, note')
  BY MatchSame DEF OneSave

LEMMA SavesDone ==
    ASSUME CallsOK, OneSave, NEW i \in 1 .. Len(calls), calls[i].op = "save", note'[calls[i].by].saving = None,
           \A s \in Sessions : s # calls[i].by => note'[s].saving = note[s].saving
    PROVE  Match(RemoveAt(calls, i), note')
  BY MatchDone DEF OneSave, CallsOK

LEMMA OthersDone ==
    ASSUME CallsOK, OneSave, NEW i \in 1 .. Len(calls), calls[i].op # "save",
           \A s \in Sessions : note'[s].saving = note[s].saving
    PROVE  Match(RemoveAt(calls, i), note')
<1>1. Match(RemoveAt(calls, i), note)
    BY MatchRemove DEF OneSave, CallsOK
<1> QED BY <1>1, MatchSame

\* A session changes, with the calls as they were.
LEMMA AfterNote ==
    ASSUME IInv, LogOK', ScreenOK', Grows, NEW s \in Sessions, NEW y \in SessionState,
           note' = [note EXCEPT ![s] = y], calls' = calls, y.saving = note[s].saving,
           SessionTrust(s, y)', \A r \in Sessions : r = shown' => r = shown
    PROVE  NoteOK' /\ CallsOK' /\ SessionsTrusted' /\ CallsTrusted' /\ OneSave'
<1> USE DEF IInv, Types, Trust
<1>1. NoteOK'
    BY DEF NoteOK
<1>2. SessionsTrusted'
    BY SessionsGrow
<1>5. \A r \in Sessions : note'[r].saving = note[r].saving
    BY DEF NoteOK
<1>3. Match(calls, note')
    BY <1>5, SavesSame
<1>4. CallsOK' /\ CallsTrusted'
    BY CallsStay
<1> QED BY <1>1, <1>2, <1>3, <1>4 DEF OneSave

\* A call is over, and its session changes.
LEMMA AfterCall ==
    ASSUME IInv, LogOK', ScreenOK', Grows, NEW i \in 1 .. Len(calls), NEW s \in Sessions, NEW y \in SessionState,
           s = calls[i].by, note' = [note EXCEPT ![s] = y], calls' = RemoveAt(calls, i),
           y.saving = IF calls[i].op = "save" THEN None ELSE note[s].saving,
           SessionTrust(s, y)', \A r \in Sessions : r = shown' => r = shown
    PROVE  NoteOK' /\ CallsOK' /\ SessionsTrusted' /\ CallsTrusted' /\ OneSave'
<1> USE DEF IInv, Types, Trust
<1>1. NoteOK'
    BY DEF NoteOK
<1>7. note'[s] = y
    BY DEF NoteOK
<1>8. \A r \in Sessions : r # s => note'[r].saving = note[r].saving
    BY DEF NoteOK
<1>2. SessionsTrusted'
    BY SessionsGrow
<1>4. CallsOK' /\ CallsTrusted'
    BY CallsRemoved
<1>5. CASE calls[i].op = "save"
  <2>1. Match(RemoveAt(calls, i), note')
      BY <1>7, <1>8, <1>5, SavesDone
  <2> QED BY <1>1, <1>2, <1>4, <2>1 DEF OneSave
<1>6. CASE calls[i].op # "save"
  <2>1. \A r \in Sessions : note'[r].saving = note[r].saving
      BY <1>7, <1>8, <1>6
  <2>3. Match(RemoveAt(calls, i), note')
      BY <2>1, <1>6, OthersDone
  <2> QED BY <1>1, <1>2, <1>4, <2>3 DEF OneSave
<1> QED BY <1>5, <1>6

-----------------------------------------------------------------------------
(* Every action keeps the invariant.                                       *)

LEMMA InitHolds == ASSUME NotesAssumption, Init PROVE IInv
<1>1. WorldOK /\ CallsOK /\ StrayOK /\ KeptOK /\ LeftOK
    BY DEF Init, NotesAssumption, WorldOK, CallsOK, StrayOK, KeptOK, LeftOK
<1>9. LogOK
  <2>1. CASE log = << >>
      BY <2>1 DEF LogOK
  <2>2. CASE \E t \in Starts : log = <<[text |-> t, by |-> "other"]>>
      BY <2>2 DEF LogOK, Revision, NotesAssumption
  <2> QED BY <2>1, <2>2 DEF Init
<1>2. ScreenOK /\ HistoryOK
    BY DEF Init, NotesAssumption, ScreenOK, HistoryOK
<1>3. Fresh \in SessionState /\ Fresh.base = 0 /\ Fresh.expected = 0 /\ Fresh.draft = None /\ Fresh.saving = None
    BY DEF Fresh, SessionState
<1>4. NoteOK /\ \A s \in Sessions : note[s] = Fresh
    BY <1>3 DEF Init, NoteOK
<1>5. Len(log) \in Nat /\ Len(calls) = 0
    BY <1>9 DEF LogOK, Init
<1>6. SessionsTrusted
    BY <1>3, <1>4, <1>5 DEF SessionsTrusted, SessionTrust, Trusted, Familiar, Current
<1>7. CallsTrusted /\ StrayTrusted /\ KeptTrusted
    BY <1>5 DEF Init, CallsTrusted, StrayTrusted, KeptTrusted
<1>8. OneSave
    BY <1>3, <1>4, <1>5 DEF OneSave, Match
<1> QED BY <1>1, <1>2, <1>4, <1>6, <1>7, <1>8, <1>9 DEF IInv, Types, Trust

LEMMA Frame ==
    ASSUME IInv, log' = log, opened <= opened', known \subseteq known'
    PROVE  LogOK' /\ Grows
  BY DEF IInv, Types, LogOK, Grows

\* What a session may keep.
LEMMA SessionKeeps ==
    ASSUME IInv, LogOK', ScreenOK', Grows, NEW s \in Sessions, s <= opened, s = shown' => s = shown,
           NEW y \in SessionState, Keeps(note[s], y)
    PROVE  SessionTrust(s, y)'
<1>1. PICK x \in SessionState : x = note[s] /\ SessionTrust(s, x)
    BY DEF IInv, Types, NoteOK, Trust, SessionsTrusted
<1>2. SessionTrust(s, y)
    BY <1>1 DEF SessionTrust, Keeps, Sessions, IInv, Types, ScreenOK
<1> QED BY <1>2, SessionGrows DEF IInv, Types

LEMMA Shown == ASSUME IInv, NotesAssumption, shown # 0 PROVE shown \in Sessions /\ shown <= opened
  BY DEF IInv, Types, ScreenOK, Sessions, NotesAssumption

LEMMA Caller ==
    ASSUME IInv, NEW i \in 1 .. Len(calls)
    PROVE  calls[i] \in Calls /\ calls[i].by \in Sessions /\ calls[i].by <= opened /\ CallTrust(calls[i])
<1>1. calls[i] \in Calls /\ CallTrust(calls[i])
    BY DEF IInv, Types, CallsOK, Trust, CallsTrusted
<1> QED BY <1>1 DEF Calls, CallTrust

\* The daemon takes a save, or does not.
LEMMA TakeFacts ==
    ASSUME IInv, NEW t \in Texts, NEW e \in Nat, NEW by \in {"phone", "other"}, Take(t, e, by)
    PROVE  /\ LogOK' /\ Len(log) <= Len(log') /\ \A n \in 1 .. Len(log) : log'[n] = log[n]
           /\ news' \in Seq(Nat)
           /\ Current' > Current => Current = e /\ Current' = Current + 1 /\ log'[Current + 1].by = by
<1>1. log \in Seq(Revision) /\ news \in Seq(Nat) /\ Current \in Nat
    BY DEF IInv, Types, LogOK, WorldOK, Current
<1>2. \A n \in Nat : Notified(n) => news' \in Seq(Nat)
    BY <1>1 DEF Notified
<1>3. CASE Written(t, e)
  <2> DEFINE r == [text |-> t, by |-> by]
  <2>1. r \in Revision /\ r.by = by
      BY DEF Revision
  <2>2. log' = Append(log, r) /\ Notified(Current + 1) /\ Current = e
      BY <1>3 DEF Take, Written
  <2> HIDE DEF r
  <2>3. log' \in Seq(Revision) /\ Len(log') = Len(log) + 1 /\ log'[Len(log) + 1] = r
        /\ \A n \in 1 .. Len(log) : log'[n] = log[n]
      BY <1>1, <2>1, <2>2
  <2> QED BY <1>1, <1>2, <2>1, <2>2, <2>3 DEF LogOK, Current
<1>4. CASE ~Written(t, e)
  <2>1. log' = log /\ (news' = news \/ Notified(Current))
      BY <1>4 DEF Take
  <2> QED BY <1>1, <1>2, <2>1 DEF LogOK, Current
<1> QED BY <1>3, <1>4

\* A step of the daemon: sessions stay as they are.
LEMMA SessionsStay ==
    ASSUME IInv, LogOK', ScreenOK', Grows, note' = note, shown' = shown
    PROVE  NoteOK' /\ SessionsTrusted'
<1>1. NoteOK'
    BY DEF IInv, Types, NoteOK
<1> SUFFICES ASSUME NEW s \in Sessions PROVE SessionTrust(s, note[s])'
    BY <1>1 DEF SessionsTrusted
<1>2. PICK x \in SessionState : x = note[s] /\ SessionTrust(s, x)
    BY DEF IInv, Types, NoteOK, Trust, SessionsTrusted
<1>3. SessionTrust(s, x)'
    BY <1>2, SessionGrows DEF IInv, Types
<1> QED BY <1>2, <1>3 DEF SessionTrust

\* One call is answered.
LEMMA CallsAnswered ==
    ASSUME IInv, LogOK', ScreenOK', Grows, NEW i \in 1 .. Len(calls), NEW a \in Nat \union {Conflict},
           calls' = [calls EXCEPT ![i].answer = a], note' = note,
           calls[i].op # "save" => a # Conflict, a \in Nat => a <= Current'
    PROVE  CallsOK' /\ CallsTrusted' /\ OneSave'
<1>1. PICK cs \in Seq(Calls) : cs = calls
    BY DEF IInv, Types, CallsOK
<1>2. cs[i] \in Calls
    BY <1>1
<1> DEFINE c == [cs[i] EXCEPT !.answer = a]
<1>3. c \in Calls /\ c.by = cs[i].by /\ c.op = cs[i].op /\ c.expected = cs[i].expected /\ c.answer = a
    BY <1>2 DEF Calls
<1>4. calls' = [cs EXCEPT ![i] = c]
    BY <1>1
<1> HIDE DEF c
<1>5. calls' \in Seq(Calls) /\ Len(calls') = Len(cs) /\ calls'[i] = c
      /\ \A j \in 1 .. Len(cs) : j # i => calls'[j] = cs[j]
    BY <1>1, <1>3, <1>4
<1>6. \A j \in 1 .. Len(cs) : calls'[j].by = cs[j].by /\ calls'[j].op = cs[j].op
    BY <1>3, <1>5
<1>7. CallsGood(cs)'
    BY <1>1, CallsSoFar
<1>8. CallTrust(c)'
  <2>1. CallTrust(cs[i])'
      BY <1>1, <1>7 DEF CallsGood
  <2> QED BY <1>1, <1>3, <2>1 DEF CallTrust
<1>9. ASSUME NEW j \in 1 .. Len(calls') PROVE CallTrust(calls[j])'
  <2>1. CASE j = i
      BY <2>1, <1>5, <1>8 DEF CallTrust
  <2>2. CASE j # i
      BY <2>2, <1>5, <1>7 DEF CallTrust, CallsGood
  <2> QED BY <2>1, <2>2
<1>10. Match(calls', note)
  <2>1. Match(cs, note)
      BY <1>1 DEF IInv, OneSave
  <2>2. \A ds \in Seq(Calls) : Len(ds) = Len(cs) /\ (\A j \in 1 .. Len(cs) : ds[j].by = cs[j].by /\ ds[j].op = cs[j].op)
            => Match(ds, note)
      BY <2>1, MatchAnswer
  <2> HIDE DEF c
  <2> QED BY <1>5, <1>6, <2>2
<1> QED BY <1>5, <1>9, <1>10 DEF CallsOK, CallsTrusted, OneSave

LEMMA ServeReadKeeps ==
    ASSUME IInv, NotesAssumption, NEW i \in 1 .. Len(calls), ServeRead(i) PROVE IInv'
<1> USE DEF IInv, Types, Trust
<1>1. log' = log /\ stray' = stray /\ screen' = screen /\ note' = note /\ kept' = kept /\ history' = history
      /\ opened' = opened /\ shown' = shown /\ unsaved' = unsaved /\ known' = known
    BY DEF ServeRead, daemon, screen, history
<1>2. WorldOK' /\ ScreenOK' /\ LeftOK' /\ HistoryOK' /\ KeptOK' /\ StrayOK'
    BY <1>1 DEF ServeRead, WorldOK, ScreenOK, LeftOK, HistoryOK, KeptOK, StrayOK
<1>3. LogOK' /\ Grows
    BY <1>1, Frame DEF ScreenOK
<1>4. NoteOK' /\ SessionsTrusted'
    BY <1>1, <1>2, <1>3, SessionsStay
<1>5. Current \in Nat /\ Current' = Current
    BY <1>1 DEF LogOK, Current
<1>6. CallsOK' /\ CallsTrusted' /\ OneSave'
  <2>1. PICK a \in Nat \union {Conflict} : a = Current /\ a # Conflict /\ a <= Current'
      BY <1>5 DEF NotesAssumption
  <2>2. calls' = [calls EXCEPT ![i].answer = a] /\ calls[i].op # "save"
      BY <2>1 DEF ServeRead
  <2> QED BY <1>1, <1>2, <1>3, <2>1, <2>2, CallsAnswered
<1>7. StrayTrusted' /\ KeptTrusted'
    BY <1>1, <1>3, StrayGrows, KeptGrows
<1> QED BY <1>2, <1>3, <1>4, <1>6, <1>7

LEMMA ServeSaveKeeps ==
    ASSUME IInv, NotesAssumption, NEW i \in 1 .. Len(calls), ServeSave(i) PROVE IInv' /\ ReplacesKnown
<1> USE DEF IInv, Types, Trust
<1>1. stray' = stray /\ opened' = opened /\ shown' = shown /\ note' = note /\ kept' = kept /\ known' = known
    BY DEF ServeSave, screen
<1>2. PICK c \in Calls : c = calls[i] /\ CallTrust(c)
    BY Caller
<1>3. c.text \in Texts /\ c.expected \in Nat /\ c.op = "save"
    BY <1>2 DEF Calls, ServeSave
<1>4. /\ LogOK' /\ Len(log) <= Len(log') /\ (\A n \in 1 .. Len(log) : log'[n] = log[n]) /\ news' \in Seq(Nat)
      /\ Current' > Current => Current = c.expected /\ Current' = Current + 1 /\ log'[Current + 1].by = "phone"
    BY <1>2, <1>3, TakeFacts DEF ServeSave
<1>5. Grows
    BY <1>1, <1>4 DEF Grows, ScreenOK
<1>6. WorldOK' /\ ScreenOK' /\ LeftOK' /\ KeptOK' /\ StrayOK'
    BY <1>1, <1>4 DEF ServeSave, WorldOK, ScreenOK, LeftOK, KeptOK, StrayOK
<1>7. HistoryOK'
    BY <1>1 DEF ServeSave, Saved, HistoryOK
<1>8. NoteOK' /\ SessionsTrusted'
    BY <1>1, <1>4, <1>5, <1>6, SessionsStay
<1>9. Len(log') \in Nat
    BY <1>4 DEF LogOK
<1>10. CallsOK' /\ CallsTrusted' /\ OneSave'
  <2>1. PICK a \in Nat \union {Conflict} : a = IF Refused(c.text, c.expected) THEN Conflict ELSE Len(log')
      BY <1>9
  <2>2. calls' = [calls EXCEPT ![i].answer = a] /\ (a \in Nat => a <= Current')
      BY <1>2, <1>9, <2>1 DEF ServeSave, NotesAssumption, Current
  <2> QED BY <1>1, <1>2, <1>3, <1>4, <1>5, <1>6, <2>2, CallsAnswered
<1>11. StrayTrusted' /\ KeptTrusted'
    BY <1>1, <1>5, StrayGrows, KeptGrows
<1>12. ReplacesKnown
    BY <1>2, <1>3, <1>4 DEF ReplacesKnown, CallTrust, Trusted
<1> QED BY <1>4, <1>6, <1>7, <1>8, <1>10, <1>11, <1>12

LEMMA ServeStrayKeeps ==
    ASSUME IInv, NotesAssumption, NEW c \in stray, ServeStray(c) PROVE IInv' /\ ReplacesKnown
<1> USE DEF IInv, Types, Trust
<1>1. stray' \subseteq stray /\ opened' = opened /\ shown' = shown /\ note' = note /\ kept' = kept /\ known' = known
      /\ calls' = calls
    BY DEF ServeStray, screen
<1>2. c.text \in Texts /\ c.expected \in Nat /\ Trusted(c.expected)
    BY DEF StrayOK, StraySave, StrayTrusted
<1>3. /\ LogOK' /\ Len(log) <= Len(log') /\ (\A n \in 1 .. Len(log) : log'[n] = log[n]) /\ news' \in Seq(Nat)
      /\ Current' > Current => Current = c.expected /\ Current' = Current + 1 /\ log'[Current + 1].by = "phone"
    BY <1>2, TakeFacts DEF ServeStray
<1>4. Grows
    BY <1>1, <1>3 DEF Grows, ScreenOK
<1>5. WorldOK' /\ ScreenOK' /\ LeftOK' /\ KeptOK' /\ StrayOK'
    BY <1>1, <1>3 DEF ServeStray, WorldOK, ScreenOK, LeftOK, KeptOK, StrayOK
<1>6. HistoryOK'
    BY <1>1 DEF ServeStray, Saved, HistoryOK
<1>7. NoteOK' /\ SessionsTrusted' /\ CallsOK' /\ CallsTrusted'
    BY <1>1, <1>3, <1>4, <1>5, SessionsStay, CallsStay
<1>8. OneSave'
    BY <1>1 DEF OneSave
<1>9. StrayTrusted' /\ KeptTrusted'
    BY <1>1, <1>4, StrayGrows, KeptGrows
<1>10. ReplacesKnown
    BY <1>2, <1>3 DEF ReplacesKnown, Trusted
<1> QED BY <1>3, <1>5, <1>6, <1>7, <1>8, <1>9, <1>10

LEMMA OtherSavesKeeps ==
    ASSUME IInv, NotesAssumption, NEW t \in Texts, OtherSaves(t) PROVE IInv' /\ ReplacesKnown
<1> USE DEF IInv, Types, Trust
<1>1. stray' = stray /\ opened' = opened /\ shown' = shown /\ note' = note /\ kept' = kept /\ known' = known
      /\ calls' = calls /\ unsaved' = unsaved
    BY DEF OtherSaves, screen, history
<1>2. Current \in Nat
    BY DEF LogOK, Current
<1>3. /\ LogOK' /\ Len(log) <= Len(log') /\ (\A n \in 1 .. Len(log) : log'[n] = log[n]) /\ news' \in Seq(Nat)
      /\ Current' > Current => Current' = Current + 1 /\ log'[Current + 1].by = "other"
    BY <1>2, TakeFacts DEF OtherSaves
<1>4. Grows
    BY <1>1, <1>3 DEF Grows, ScreenOK
<1>5. WorldOK' /\ ScreenOK' /\ KeptOK' /\ StrayOK' /\ HistoryOK'
    BY <1>1, <1>3 DEF OtherSaves, WorldOK, ScreenOK, KeptOK, StrayOK, HistoryOK
<1>6. LeftOK'
    BY DEF OtherSaves, LeftOK, Budget
<1>7. NoteOK' /\ SessionsTrusted' /\ CallsOK' /\ CallsTrusted'
    BY <1>1, <1>3, <1>4, <1>5, SessionsStay, CallsStay
<1>8. OneSave'
    BY <1>1 DEF OneSave
<1>9. StrayTrusted' /\ KeptTrusted'
    BY <1>1, <1>4, StrayGrows, KeptGrows
<1>10. ReplacesKnown
    BY <1>3 DEF ReplacesKnown
<1> QED BY <1>3, <1>5, <1>6, <1>7, <1>8, <1>9, <1>10

\* What a step of the phone leaves alone.
LEMMA Steady ==
    ASSUME IInv, log' = log, stray' \subseteq stray, opened' = opened, shown' = shown, known \subseteq known'
    PROVE  /\ LogOK' /\ Grows /\ ScreenOK' /\ StrayOK' /\ StrayTrusted'
           /\ kept' \in {kept, None} => KeptOK' /\ KeptTrusted'
<1> USE DEF IInv, Types, Trust
<1>1. ScreenOK' /\ StrayOK' /\ (kept' \in {kept, None} => KeptOK')
    BY DEF ScreenOK, StrayOK, KeptOK
<1>2. LogOK' /\ Grows
    BY Frame DEF ScreenOK
<1>3. kept' = None => KeptTrusted'
    BY DEF KeptTrusted
<1> QED BY <1>1, <1>2, <1>3, StrayGrows, KeptGrows

LEMMA OpenKeeps == ASSUME IInv, NotesAssumption, Open PROVE IInv' /\ log' = log
<1> USE DEF IInv, Types, Trust
<1>1. log' = log /\ stray' = stray /\ kept' = kept /\ known' = known /\ unsaved' = unsaved
    BY DEF Open, daemon, history
<1>2. opened' = opened + 1 /\ shown' = opened + 1 /\ opened' \in Sessions /\ opened \in Nat
    BY DEF Open, ScreenOK, Sessions, NotesAssumption
<1>3. ScreenOK'
    BY <1>2 DEF Open, ScreenOK, NotesAssumption
<1>4. WorldOK' /\ LeftOK' /\ HistoryOK' /\ KeptOK' /\ StrayOK'
    BY <1>1 DEF Open, WorldOK, LeftOK, HistoryOK, KeptOK, StrayOK
<1>5. LogOK' /\ Grows
    BY <1>1, <1>2, Frame
<1>6. StrayTrusted' /\ KeptTrusted'
    BY <1>1, <1>5, StrayGrows, KeptGrows
<1>7. PICK s \in Sessions : s = opened'
    BY <1>2
<1>8. Fresh \in SessionState /\ Fresh.base = 0 /\ Fresh.expected = 0 /\ Fresh.draft = None
    BY DEF Fresh, SessionState
<1>9. note[s] = Fresh
    BY <1>2, <1>7 DEF SessionsTrusted, SessionTrust
<1>10. \A y \in SessionState : Keeps(Fresh, y) => SessionTrust(s, y)'
  <2>1. Current' \in Nat
      BY <1>5 DEF LogOK, Current
  <2> QED BY <2>1, <1>7, <1>8, <1>2 DEF Keeps, SessionTrust, Trusted, Familiar
<1>11. NoteOK' /\ CallsOK' /\ SessionsTrusted' /\ CallsTrusted' /\ OneSave'
  <2>1. Sync(s, Fresh)
      BY <1>7 DEF Open
  <2>2. \A r \in Sessions : r # s /\ r = shown' => r = shown
      BY <1>2, <1>7
  <2>3. s <= opened'
      BY <1>2, <1>7
  <2> HIDE DEF IInv, Types, Trust
  <2> QED BY <1>3, <1>5, <1>8, <1>9, <1>10, <2>1, <2>2, <2>3, AfterSync
<1> QED BY <1>1, <1>3, <1>4, <1>5, <1>6, <1>11

\* A save of a session, with the calls as they are.
LEMMA SaveKeeps ==
    ASSUME IInv, NotesAssumption, LogOK', ScreenOK', Grows, NEW s \in Sessions, s <= opened,
           \A r \in Sessions : r = shown' => r = shown,
           NEW x \in SessionState, Keeps(note[s], x), x.saving = note[s].saving, Save(s, x, calls)
    PROVE  NoteOK' /\ CallsOK' /\ SessionsTrusted' /\ CallsTrusted' /\ OneSave'
<1>1. PICK cs \in Seq(Calls) : cs = calls
    BY DEF IInv, Types, CallsOK
<1>2. CallsGood(cs)' /\ Match(cs, note)
    BY <1>1, CallsSoFar DEF IInv, OneSave
<1>3. \A y \in SessionState : Keeps(x, y) => SessionTrust(s, y)'
    BY SessionKeeps DEF Keeps
<1>4. s <= opened'
    BY DEF Grows, IInv, Types, ScreenOK, Sessions
<1>5. Save(s, x, cs)
    BY <1>1
<1> QED BY <1>2, <1>3, <1>4, <1>5, AfterSaveCall

LEMMA LeaveKeeps == ASSUME IInv, NotesAssumption, Leave PROVE IInv' /\ log' = log
<1> USE DEF IInv, Types, Trust
<1>1. log' = log /\ stray' = stray /\ known' = known /\ unsaved' = unsaved /\ opened' = opened
    BY DEF Leave, daemon, history
<1>10. kept' \in {kept, None}
    BY SaveKept DEF Leave
<1>2. PICK s \in Sessions : s = shown /\ s <= opened
    BY Shown DEF Leave
<1>3. shown' = 0 /\ ScreenOK' /\ \A r \in Sessions : r = shown' => r = shown
    BY <1>1 DEF Leave, ScreenOK, Sessions
<1>4. WorldOK' /\ LeftOK' /\ HistoryOK' /\ KeptOK' /\ StrayOK'
    BY <1>1, <1>10 DEF Leave, WorldOK, LeftOK, HistoryOK, KeptOK, StrayOK
<1>5. LogOK' /\ Grows
    BY <1>1, Frame DEF ScreenOK
<1>11. kept' = None => KeptTrusted'
    BY DEF KeptTrusted
<1>6. StrayTrusted' /\ KeptTrusted'
    BY <1>1, <1>5, <1>10, <1>11, StrayGrows, KeptGrows
<1>7. PICK x \in SessionState : x = note[s]
    BY DEF NoteOK
<1>8. CASE note[shown].failed
  <2> DEFINE y == [x EXCEPT !.timer = FALSE]
  <2>1. y \in SessionState /\ Keeps(x, y) /\ y.saving = x.saving
      BY DEF SessionState, Keeps
  <2>2. note' = [note EXCEPT ![s] = y] /\ calls' = calls
      BY <1>2, <1>7, <1>8 DEF Leave
  <2> HIDE DEF y, IInv, Types, Trust
  <2>3. SessionTrust(s, y)'
      BY <1>2, <1>3, <1>5, <1>7, <2>1, SessionKeeps
  <2>4. NoteOK' /\ CallsOK' /\ SessionsTrusted' /\ CallsTrusted' /\ OneSave'
      BY <1>3, <1>5, <1>7, <2>1, <2>2, <2>3, AfterNote
  <2> QED BY <1>1, <1>3, <1>4, <1>5, <1>6, <2>4 DEF IInv, Types, Trust
<1>9. CASE ~note[shown].failed
  <2>1. Save(s, x, calls) /\ Keeps(x, x)
      BY <1>2, <1>7, <1>9 DEF Leave, Keeps
  <2>2. NoteOK' /\ CallsOK' /\ SessionsTrusted' /\ CallsTrusted' /\ OneSave'
      BY <1>2, <1>3, <1>5, <1>7, <2>1, SaveKeeps
  <2> QED BY <1>1, <1>3, <1>4, <1>5, <1>6, <2>2
<1> QED BY <1>8, <1>9

LEMMA EditBackKeeps == ASSUME IInv, NotesAssumption, EditBack PROVE IInv' /\ log' = log
<1> USE DEF IInv, Types, Trust
<1>1. log' = log /\ stray' = stray /\ known' = known /\ opened' = opened /\ shown' = shown /\ calls' = calls
    BY DEF EditBack, daemon, screen
<1>2. LogOK' /\ Grows /\ ScreenOK' /\ StrayOK' /\ StrayTrusted' /\ (kept' \in {kept, None} => KeptOK' /\ KeptTrusted')
    BY <1>1, Steady
<1>3. PICK s \in Sessions : s = shown /\ s <= opened
    BY Shown DEF EditBack
<1>4. PICK x \in SessionState : x = note[s] /\ SessionTrust(s, x)
    BY DEF NoteOK, SessionsTrusted
<1>5. KeptOK' /\ KeptTrusted'
    BY <1>2 DEF EditBack, KeptOK, KeptTrusted
<1>6. WorldOK' /\ LeftOK'
    BY DEF EditBack, WorldOK, LeftOK, Budget
<1>7. HistoryOK'
  <2>1. Text(x.base) \in Texts
    <3>1. x.base \in 0 .. Len(log) /\ Len(log) \in Nat
        BY <1>4 DEF SessionTrust, SessionState, Current, LogOK
    <3>2. CASE x.base = 0
        BY <3>2 DEF Text, NotesAssumption
    <3>3. CASE x.base # 0
      <4>1. log[x.base] \in Revision
          BY <3>1, <3>3 DEF LogOK
      <4> QED BY <4>1, <3>3 DEF Text, Revision
    <3> QED BY <3>2, <3>3
  <2> QED BY <1>1, <1>3, <1>4, <2>1 DEF EditBack, HistoryOK
<1> DEFINE y == [x EXCEPT !.draft = None, !.failed = FALSE, !.touched = TRUE]
<1>8. y \in SessionState /\ y.base = x.base /\ y.expected = x.expected /\ y.draft = None /\ y.saving = x.saving
    BY DEF SessionState
<1>9. note' = [note EXCEPT ![s] = y]
    BY <1>3, <1>4 DEF EditBack, NoteOK
<1> HIDE DEF y, IInv, Types, Trust
<1>10. SessionTrust(s, y)
    BY <1>3, <1>4, <1>8 DEF SessionTrust, Sessions, IInv, Types, ScreenOK
<1>11. SessionTrust(s, y)'
    BY <1>1, <1>2, <1>8, <1>10, SessionGrows DEF IInv, Types
<1>12. NoteOK' /\ CallsOK' /\ SessionsTrusted' /\ CallsTrusted' /\ OneSave'
    BY <1>1, <1>2, <1>4, <1>8, <1>9, <1>11, AfterNote
<1> QED BY <1>1, <1>2, <1>5, <1>6, <1>7, <1>12 DEF IInv, Types, Trust

LEMMA EditKeeps == ASSUME IInv, NotesAssumption, NEW t \in Texts, Edit(t) PROVE IInv' /\ log' = log
<1> USE DEF IInv, Types, Trust
<1>1. log' = log /\ stray' = stray /\ known' = known /\ opened' = opened /\ shown' = shown /\ calls' = calls
    BY DEF Edit, daemon, screen
<1>2. LogOK' /\ Grows /\ ScreenOK' /\ StrayOK' /\ StrayTrusted'
    BY <1>1, Steady
<1>3. PICK s \in Sessions : s = shown /\ s <= opened
    BY Shown DEF Edit
<1>4. PICK x \in SessionState : x = note[s] /\ SessionTrust(s, x)
    BY DEF NoteOK, SessionsTrusted
<1>5. PICK d \in Draft : d = [text |-> t, base |-> IF x.draft = None THEN x.expected ELSE x.draft.base]
  <2>1. x.draft # None => x.draft.base \in Nat
      BY DEF SessionState, Draft
  <2> QED BY <2>1 DEF Draft, SessionState
<1>6. Trusted(d.base) /\ d # None
    BY <1>3, <1>4, <1>5 DEF SessionTrust, NotesAssumption
<1>7. Trusted(d.base)'
    BY <1>2, <1>6, TrustGrows DEF Draft
<1>8. kept' = d /\ KeptOK' /\ KeptTrusted'
    BY <1>3, <1>4, <1>5, <1>7 DEF Edit, KeptOK, KeptTrusted
<1>9. WorldOK' /\ LeftOK' /\ HistoryOK'
  <2>1. WorldOK' /\ HistoryOK'
      BY <1>1 DEF Edit, WorldOK, HistoryOK
  <2>2. LeftOK'
      BY DEF Edit, LeftOK, Budget
  <2> QED BY <2>1, <2>2
<1>10. PICK f \in BOOLEAN : f = (x.conflict /\ x.failed)
    BY Zenon DEF SessionState
<1>11. PICK r \in BOOLEAN : r = (~x.conflict \/ x.timer)
    BY Zenon DEF SessionState
<1> DEFINE y == [x EXCEPT !.draft = d, !.touched = TRUE, !.failed = f, !.timer = r]
<1>12. y \in SessionState /\ y.base = x.base /\ y.expected = x.expected /\ y.draft = d /\ y.saving = x.saving
    BY DEF SessionState
<1>13. note' = [note EXCEPT ![s] = y]
    BY <1>3, <1>4, <1>5, <1>10, <1>11 DEF Edit
<1> HIDE DEF y, IInv, Types, Trust
<1>14. SessionTrust(s, y)
    BY <1>3, <1>4, <1>6, <1>12 DEF SessionTrust, Sessions, IInv, Types, ScreenOK
<1>15. SessionTrust(s, y)'
    BY <1>1, <1>2, <1>12, <1>14, SessionGrows DEF IInv, Types
<1>16. NoteOK' /\ CallsOK' /\ SessionsTrusted' /\ CallsTrusted' /\ OneSave'
    BY <1>1, <1>2, <1>4, <1>12, <1>13, <1>15, AfterNote
<1> QED BY <1>1, <1>2, <1>8, <1>9, <1>16 DEF IInv, Types, Trust

\* Autosave, flush and retry save what the session has.
LEMMA SavingKeeps ==
    ASSUME IInv, NotesAssumption, NEW s \in Sessions, s <= opened, NEW x \in SessionState,
           Keeps(note[s], x), x.saving = note[s].saving, Save(s, x, calls),
           UNCHANGED <<target, daemon, link, news, screen, left, history>>
    PROVE  IInv' /\ log' = log
<1> USE DEF IInv, Types, Trust
<1>1. log' = log /\ stray' = stray /\ known' = known /\ unsaved' = unsaved /\ opened' = opened /\ shown' = shown
    BY DEF daemon, screen, history
<1>5. kept' \in {kept, None}
    BY SaveKept
<1>2. LogOK' /\ Grows /\ ScreenOK' /\ StrayOK' /\ StrayTrusted' /\ KeptOK' /\ KeptTrusted'
    BY <1>1, <1>5, Steady
<1>3. WorldOK' /\ LeftOK' /\ HistoryOK'
    BY <1>1 DEF WorldOK, LeftOK, HistoryOK
<1>4. NoteOK' /\ CallsOK' /\ SessionsTrusted' /\ CallsTrusted' /\ OneSave'
    BY <1>1, <1>2, SaveKeeps
<1> QED BY <1>1, <1>2, <1>3, <1>4

LEMMA AutosaveKeeps == ASSUME IInv, NotesAssumption, NEW s \in Sessions, Autosave(s) PROVE IInv' /\ log' = log
<1>1. PICK x \in SessionState : x = note[s] /\ SessionTrust(s, x)
    BY DEF IInv, Types, Trust, NoteOK, SessionsTrusted
<1>2. s <= opened
    BY <1>1 DEF Autosave, SessionTrust, Fresh, IInv, Types, ScreenOK, Sessions
<1> QED BY <1>1, <1>2, SavingKeeps DEF Autosave, Keeps

LEMMA FlushKeeps == ASSUME IInv, NotesAssumption, Flush PROVE IInv' /\ log' = log
<1>1. PICK s \in Sessions : s = shown /\ s <= opened
    BY Shown DEF Flush
<1>2. PICK x \in SessionState : x = note[s]
    BY DEF IInv, Types, NoteOK
<1> QED BY <1>1, <1>2, SavingKeeps DEF Flush, Keeps

LEMMA FailedType ==
    ASSUME NEW x \in SessionState, NEW f \in BOOLEAN
    PROVE  \E y \in SessionState : y = [x EXCEPT !.failed = f] /\ Keeps(x, y) /\ y.saving = x.saving
<1> DEFINE y == [x EXCEPT !.failed = f]
<1>1. y \in SessionState /\ Keeps(x, y) /\ y.saving = x.saving
    BY DEF SessionState, Keeps
<1> QED BY <1>1

LEMMA RetryKeeps == ASSUME IInv, NotesAssumption, Retry PROVE IInv' /\ log' = log
<1>1. PICK s \in Sessions : s = shown /\ s <= opened
    BY Shown DEF Retry
<1>2. PICK x \in SessionState : x = note[s]
    BY DEF IInv, Types, NoteOK
<1>3. PICK y \in SessionState : y = [x EXCEPT !.failed = FALSE] /\ Keeps(x, y) /\ y.saving = x.saving
    BY FailedType
<1>4. Save(s, y, calls) /\ UNCHANGED <<target, daemon, link, news, screen, left, history>>
    BY <1>1, <1>2, <1>3 DEF Retry
<1> QED BY <1>1, <1>2, <1>3, <1>4, SavingKeeps

LEMMA ChooseKeeps ==
    ASSUME IInv, NotesAssumption, NEW op \in {"mine", "theirs"}, Choose(op) PROVE IInv' /\ log' = log
<1> USE DEF IInv, Types, Trust
<1>1. log' = log /\ stray' = stray /\ known' = known /\ unsaved' = unsaved /\ opened' = opened /\ shown' = shown
      /\ kept' = kept
    BY DEF Choose, daemon, screen, history
<1>2. LogOK' /\ Grows /\ ScreenOK' /\ StrayOK' /\ StrayTrusted' /\ KeptOK' /\ KeptTrusted'
    BY <1>1, Steady
<1>3. WorldOK' /\ LeftOK' /\ HistoryOK'
  <2>1. WorldOK' /\ HistoryOK'
      BY <1>1 DEF Choose, WorldOK, HistoryOK
  <2>2. LeftOK'
      BY DEF Choose, LeftOK, Budget
  <2> QED BY <2>1, <2>2
<1>4. PICK s \in Sessions : s = shown /\ s <= opened
    BY Shown DEF Choose
<1>5. PICK x \in SessionState : x = note[s]
    BY DEF NoteOK
<1>6. CASE link
  <2>1. PICK c \in Calls : c = Call(s, op, Blank, 0) /\ c.by = s /\ c.op = op /\ c.answer = None
      BY CallType DEF NotesAssumption, Ops
  <2>2. calls' = Append(calls, c) /\ note' = note
      BY <1>4, <1>6, <2>1 DEF Choose
  <2>3. CallTrust(c)'
      BY <1>1, <1>4, <2>1 DEF CallTrust, NotesAssumption
  <2>4. CallsOK' /\ CallsTrusted'
      BY <1>2, <2>2, <2>3, CallsAppended
  <2>5. NoteOK' /\ SessionsTrusted'
      BY <1>1, <1>2, <2>2, SessionsStay
  <2>6. calls \in Seq(Calls) /\ Match(calls, note) /\ c.op # "save"
      BY <2>1 DEF CallsOK, OneSave
  <2>7. OneSave'
      BY <2>2, <2>6, MatchAppend DEF OneSave
  <2> QED BY <1>1, <1>2, <1>3, <2>4, <2>5, <2>7
<1>7. CASE ~link
  <2>1. PICK y \in SessionState : y = [x EXCEPT !.failed = TRUE] /\ Keeps(x, y) /\ y.saving = x.saving
      BY FailedType
  <2>2. note' = [note EXCEPT ![s] = y] /\ calls' = calls
      BY <1>4, <1>5, <1>7, <2>1 DEF Choose
  <2> HIDE DEF IInv, Types, Trust
  <2>3. SessionTrust(s, y)'
      BY <1>1, <1>2, <1>4, <1>5, <2>1, SessionKeeps
  <2>4. NoteOK' /\ CallsOK' /\ SessionsTrusted' /\ CallsTrusted' /\ OneSave'
      BY <1>1, <1>2, <1>5, <2>1, <2>2, <2>3, AfterNote
  <2> QED BY <1>1, <1>2, <1>3, <2>4 DEF IInv, Types, Trust
<1> QED BY <1>6, <1>7

\* The revision an answer names.
LEMMA AnswerFacts ==
    ASSUME IInv, NotesAssumption, NEW i \in 1 .. Len(calls), calls[i].answer # None, calls[i].answer # Conflict
    PROVE  calls[i].answer \in Nat /\ calls[i].answer <= Current /\ Current \in Nat
<1>1. calls[i] \in Calls /\ CallTrust(calls[i])
    BY Caller
<1> QED BY <1>1 DEF Calls, CallTrust, IInv, Types, LogOK, Current

LEMMA SeenGrows ==
    ASSUME HistoryOK, NEW s, NEW n \in Nat, Seen(s, n)
    PROVE  known' \in SUBSET Nat /\ known \subseteq known' /\ (s = shown => n \in known')
  BY DEF HistoryOK, Seen

\* What a read makes of a session without a draft, and of one with a draft.
LEMMA RestoreFacts ==
    ASSUME NEW x \in SessionState, NEW n \in Nat, kept \in Draft
    PROVE  /\ Restore(x, n) \in SessionState /\ Restore(x, n).base = n /\ Restore(x, n).expected = kept.base
           /\ Restore(x, n).draft = kept /\ Restore(x, n).saving = x.saving
<1>1. PICK f \in BOOLEAN : f = (kept # x.saving)
    OBVIOUS
<1>2. kept.base \in Nat
    BY DEF Draft
<1> DEFINE a == [x EXCEPT !.draft = kept, !.expected = kept.base, !.base = n,
                          !.touched = f, !.conflict = TRUE, !.failed = FALSE]
           b == [x EXCEPT !.draft = kept, !.expected = kept.base, !.base = n, !.touched = f, !.timer = TRUE]
<1>3. Restore(x, n) = a \/ Restore(x, n) = b
    BY <1>1 DEF Restore
<1>4. a \in SessionState /\ a.base = n /\ a.expected = kept.base /\ a.draft = kept /\ a.saving = x.saving
    BY <1>2 DEF SessionState
<1>5. b \in SessionState /\ b.base = n /\ b.expected = kept.base /\ b.draft = kept /\ b.saving = x.saving
    BY <1>2 DEF SessionState
<1> HIDE DEF a, b
<1> QED BY <1>3, <1>4, <1>5

LEMMA UnderneathFacts ==
    ASSUME NEW x \in SessionState, NEW n \in Nat
    PROVE  /\ Underneath(x, n) \in SessionState /\ Underneath(x, n).base = n
           /\ Underneath(x, n).expected = x.expected /\ Underneath(x, n).draft = x.draft
           /\ Underneath(x, n).saving = x.saving
<1> DEFINE a == [x EXCEPT !.base = n, !.conflict = TRUE, !.failed = FALSE]
           b == [x EXCEPT !.base = n]
<1>1. Underneath(x, n) = a \/ Underneath(x, n) = b
    BY DEF Underneath
<1>2. /\ a \in SessionState /\ a.base = n /\ a.expected = x.expected /\ a.draft = x.draft /\ a.saving = x.saving
      /\ b \in SessionState /\ b.base = n /\ b.expected = x.expected /\ b.draft = x.draft /\ b.saving = x.saving
    BY DEF SessionState
<1> HIDE DEF a, b
<1> QED BY <1>1, <1>2

LEMMA ReadAnsweredKeeps ==
    ASSUME IInv, NotesAssumption, NEW i \in 1 .. Len(calls), ReadAnswered(i) PROVE IInv' /\ log' = log
<1> USE DEF IInv, Types, Trust
<1>1. PICK c \in Calls : c = calls[i] /\ CallTrust(c) /\ c.by \in Sessions /\ c.by <= opened
    BY Caller
<1>2. PICK s \in Sessions : s = c.by
    BY <1>1
<1>3. c.op = "get" /\ c.answer # None /\ c.answer # Conflict
    BY <1>1 DEF ReadAnswered, Answered, CallTrust
<1>4. PICK n \in Nat : n = c.answer /\ n <= Current /\ Current \in Nat
    BY <1>1, <1>3, AnswerFacts
<1>5. PICK x \in SessionState : x = note[s] /\ SessionTrust(s, x)
    BY DEF NoteOK, SessionsTrusted
<1>6. log' = log /\ stray' = stray /\ opened' = opened /\ shown' = shown /\ kept' = kept
    BY DEF ReadAnswered, daemon, screen
<1>7. known' \in SUBSET Nat /\ known \subseteq known'
      /\ (x.draft = None /\ kept = None /\ s = shown => n \in known')
  <2>1. CASE x.draft = None /\ kept = None
    <3>1. Seen(s, n)
        BY <1>1, <1>2, <1>4, <1>5, <2>1 DEF ReadAnswered
    <3> QED BY <3>1, SeenGrows
  <2>2. CASE ~(x.draft = None /\ kept = None)
      BY <1>1, <1>2, <1>5, <2>2 DEF ReadAnswered, HistoryOK
  <2> QED BY <2>1, <2>2
<1>8. LogOK' /\ Grows /\ ScreenOK' /\ StrayOK' /\ StrayTrusted' /\ KeptOK' /\ KeptTrusted'
    BY <1>6, <1>7, Steady
<1>9. WorldOK' /\ LeftOK' /\ HistoryOK'
    BY <1>7 DEF ReadAnswered, WorldOK, LeftOK, HistoryOK
<1>10. Current' = Current
    BY <1>6 DEF Current
<1>11. PICK y \in SessionState :
            /\ y.saving = x.saving /\ SessionTrust(s, y)'
            /\ note' = [note EXCEPT ![s] = [y EXCEPT !.loaded = TRUE]]
  <2>1. \A y : (y = (IF x.draft = None
                     THEN IF kept # None THEN Restore(x, n) ELSE [x EXCEPT !.base = n, !.expected = n]
                     ELSE IF x.saving = None THEN Underneath(x, n) ELSE x))
                => note' = [note EXCEPT ![s] = [y EXCEPT !.loaded = TRUE]]
      BY <1>1, <1>2, <1>4, <1>5 DEF ReadAnswered
  <2>2. s <= opened'
      BY <1>1, <1>2, <1>6
  <2>3. CASE x.draft = None /\ kept # None
    <3>1. kept \in Draft /\ kept.base \in Nat /\ Trusted(kept.base)
        BY <2>3 DEF KeptOK, KeptTrusted, Draft
    <3>2. PICK y \in SessionState : /\ y = Restore(x, n) /\ y.base = n /\ y.expected = kept.base /\ y.draft = kept
                                   /\ y.saving = x.saving
        BY <3>1, RestoreFacts
    <3>3. PICK d \in Draft : d = kept /\ d.base \in Nat /\ Trusted(d.base)
        BY <3>1
    <3>4. Trusted(d.base)'
        BY <1>8, <3>3, TrustGrows
    <3>5. d.base <= Current'
        BY <3>4 DEF Trusted
    <3>6. SessionTrust(s, y)'
        BY <1>4, <1>6, <1>10, <2>2, <3>2, <3>3, <3>4, <3>5 DEF SessionTrust, ScreenOK, Sessions
    <3> QED BY <2>1, <2>3, <3>2, <3>6
  <2>4. CASE x.draft = None /\ kept = None
    <3> DEFINE y == [x EXCEPT !.base = n, !.expected = n]
    <3>1. y \in SessionState /\ y.base = n /\ y.expected = n /\ y.draft = None /\ y.saving = x.saving
        BY <2>4 DEF SessionState
    <3>2. note' = [note EXCEPT ![s] = [y EXCEPT !.loaded = TRUE]]
        BY <2>1, <2>4
    <3> HIDE DEF y
    <3>3. s = shown' => Trusted(n)'
        BY <1>4, <1>6, <1>7, <1>10, <2>4 DEF Trusted, Familiar
    <3>4. SessionTrust(s, y)'
        BY <1>4, <1>10, <2>2, <3>1, <3>3, <1>6 DEF SessionTrust, ScreenOK, Sessions
    <3> QED BY <3>1, <3>2, <3>4
  <2>5. CASE x.draft # None
    <3>1. PICK y \in SessionState : /\ y = IF x.saving = None THEN Underneath(x, n) ELSE x
                                   /\ y.base \in {n, x.base} /\ y.expected = x.expected /\ y.draft = x.draft
                                   /\ y.saving = x.saving
        BY UnderneathFacts
    <3>2. SessionTrust(s, x)'
        BY <1>5, <1>6, <1>8, SessionGrows
    <3>3. SessionTrust(s, y)'
        BY <1>4, <1>10, <2>2, <2>5, <3>1, <3>2, <1>6 DEF SessionTrust, ScreenOK, Sessions
    <3> QED BY <2>1, <2>5, <3>1, <3>3
  <2> QED BY <2>3, <2>4, <2>5
<1> DEFINE z == [y EXCEPT !.loaded = TRUE]
<1>12. z \in SessionState /\ Keeps(y, z) /\ z.saving = y.saving
    BY DEF SessionState, Keeps
<1>13. note' = [note EXCEPT ![s] = z] /\ calls' = RemoveAt(calls, i)
    BY <1>11 DEF ReadAnswered
<1> HIDE DEF z
<1>14. SessionTrust(s, z)'
  <2>1. s <= opened'
      BY <1>1, <1>2, <1>6
  <2> QED BY <1>11, <1>12, <1>6, <2>1 DEF SessionTrust, Keeps, ScreenOK, Sessions
<1> HIDE DEF IInv, Types, Trust
<1>15. s = calls[i].by /\ calls[i].op # "save" /\ z.saving = note[s].saving
    BY <1>1, <1>2, <1>3, <1>5, <1>11, <1>12
<1>16. NoteOK' /\ CallsOK' /\ SessionsTrusted' /\ CallsTrusted' /\ OneSave'
    BY <1>6, <1>8, <1>12, <1>13, <1>14, <1>15, AfterCall
<1> QED BY <1>6, <1>8, <1>9, <1>16 DEF IInv, Types, Trust

LEMMA AfterSaveFacts ==
    ASSUME NEW x \in SessionState, NEW n \in Nat
    PROVE  /\ AfterSave(x, n) \in SessionState /\ AfterSave(x, n).base = n /\ AfterSave(x, n).expected = n
           /\ AfterSave(x, n).saving = None
           /\ AfterSave(x, n).draft # None => AfterSave(x, n).draft \in Draft /\ AfterSave(x, n).draft.base = n
<1>1. PICK b \in SessionState : b = Based(x, n) /\ b.base = n /\ b.expected = n /\ b.saving = None /\ b.draft = x.draft
  <2>1. Based(x, n) \in SessionState
      BY DEF Based, SessionState
  <2> QED BY <2>1 DEF Based, SessionState
<1>2. CASE x.touched /\ x.draft # None
  <2>1. PICK d \in Draft : d = [x.draft EXCEPT !.base = n] /\ d.base = n
    <3>1. x.draft \in Draft
        BY <1>2 DEF SessionState
    <3>2. [x.draft EXCEPT !.base = n] \in Draft /\ [x.draft EXCEPT !.base = n].base = n
        BY <3>1 DEF Draft
    <3> QED BY <3>2
  <2> DEFINE y == [b EXCEPT !.draft = d, !.timer = TRUE]
  <2>2. y \in SessionState /\ y.base = n /\ y.expected = n /\ y.saving = None /\ y.draft = d
      BY <1>1 DEF SessionState
  <2>3. AfterSave(x, n) = y
      BY <1>1, <1>2, <2>1 DEF AfterSave, SessionState
  <2> HIDE DEF y
  <2> QED BY <2>1, <2>2, <2>3
<1>3. CASE ~(x.touched /\ x.draft # None)
  <2> DEFINE y == [b EXCEPT !.draft = None]
  <2>1. y \in SessionState /\ y.base = n /\ y.expected = n /\ y.saving = None /\ y.draft = None
      BY <1>1 DEF SessionState
  <2>2. AfterSave(x, n) = y
      BY <1>1, <1>3 DEF AfterSave
  <2> HIDE DEF y
  <2> QED BY <2>1, <2>2
<1> QED BY <1>2, <1>3

LEMMA SaveTakenKeeps ==
    ASSUME IInv, NotesAssumption, NEW i \in 1 .. Len(calls), SaveTaken(i) PROVE IInv' /\ log' = log
<1> USE DEF IInv, Types, Trust
<1>1. PICK c \in Calls : c = calls[i] /\ c.by \in Sessions /\ c.by <= opened
    BY Caller
<1>2. PICK s \in Sessions : s = c.by
    BY <1>1
<1>3. c.op = "save" /\ c.answer # None /\ c.answer # Conflict
    BY <1>1 DEF SaveTaken, Answered
<1>4. PICK n \in Nat : n = c.answer /\ n <= Current /\ Current \in Nat
    BY <1>1, <1>3, AnswerFacts
<1>5. PICK x \in SessionState : x = note[s]
    BY DEF NoteOK
<1>6. PICK y \in SessionState :
          /\ y = AfterSave(x, n) /\ y.base = n /\ y.expected = n /\ y.saving = None
          /\ y.draft # None => y.draft \in Draft /\ y.draft.base = n
    BY AfterSaveFacts
<1>7. note' = [note EXCEPT ![s] = y] /\ kept' = y.draft /\ known' = known \union {n} /\ calls' = RemoveAt(calls, i)
    BY <1>1, <1>2, <1>4, <1>5, <1>6 DEF SaveTaken
<1>8. log' = log /\ stray' = stray /\ opened' = opened /\ shown' = shown /\ unsaved' = unsaved
    BY DEF SaveTaken, daemon, screen
<1>9. LogOK' /\ Grows /\ ScreenOK' /\ StrayOK' /\ StrayTrusted'
    BY <1>7, <1>8, Steady
<1>10. WorldOK' /\ LeftOK' /\ HistoryOK'
    BY <1>7, <1>8 DEF SaveTaken, WorldOK, LeftOK, HistoryOK
<1>11. Trusted(n)'
    BY <1>4, <1>7, <1>8 DEF Trusted, Familiar, Current
<1>12. KeptOK' /\ KeptTrusted'
    BY <1>6, <1>7, <1>11 DEF KeptOK, KeptTrusted
<1>13. SessionTrust(s, y)'
    BY <1>1, <1>2, <1>6, <1>8, <1>9, <1>11 DEF SessionTrust, Trusted, ScreenOK, Sessions
<1> HIDE DEF IInv, Types, Trust
<1>14. s = calls[i].by /\ calls[i].op = "save"
    BY <1>1, <1>2, <1>3
<1>15. NoteOK' /\ CallsOK' /\ SessionsTrusted' /\ CallsTrusted' /\ OneSave'
    BY <1>6, <1>7, <1>8, <1>9, <1>13, <1>14, AfterCall
<1> QED BY <1>8, <1>9, <1>10, <1>12, <1>15 DEF IInv, Types, Trust

LEMMA SaveRefusedKeeps ==
    ASSUME IInv, NotesAssumption, NEW i \in 1 .. Len(calls), SaveRefused(i) PROVE IInv' /\ log' = log
<1> USE DEF IInv, Types, Trust
<1>1. PICK c \in Calls : c = calls[i] /\ c.by \in Sessions /\ c.by <= opened
    BY Caller
<1>2. PICK s \in Sessions : s = c.by
    BY <1>1
<1>3. PICK x \in SessionState : x = note[s]
    BY DEF NoteOK
<1> DEFINE y == [x EXCEPT !.conflict = TRUE, !.saving = None, !.failed = FALSE]
<1>4. y \in SessionState /\ Keeps(x, y) /\ y.saving = None
    BY DEF SessionState, Keeps
<1>5. note' = [note EXCEPT ![s] = y] /\ calls' = RemoveAt(calls, i) /\ calls[i].op = "save"
    BY <1>1, <1>2, <1>3 DEF SaveRefused, Answered, NoteOK
<1> HIDE DEF y
<1>6. log' = log /\ stray' = stray /\ opened' = opened /\ shown' = shown /\ unsaved' = unsaved /\ known' = known
      /\ kept' = kept
    BY DEF SaveRefused, daemon, screen, history
<1>7. LogOK' /\ Grows /\ ScreenOK' /\ StrayOK' /\ StrayTrusted' /\ KeptOK' /\ KeptTrusted'
    BY <1>6, Steady
<1>8. WorldOK' /\ LeftOK' /\ HistoryOK'
    BY <1>6 DEF SaveRefused, WorldOK, LeftOK, HistoryOK
<1> HIDE DEF IInv, Types, Trust
<1>9. SessionTrust(s, y)'
    BY <1>1, <1>2, <1>3, <1>4, <1>6, <1>7, SessionKeeps
<1>10. NoteOK' /\ CallsOK' /\ SessionsTrusted' /\ CallsTrusted' /\ OneSave'
    BY <1>1, <1>2, <1>4, <1>5, <1>6, <1>7, <1>9, AfterCall
<1> QED BY <1>6, <1>7, <1>8, <1>10 DEF IInv, Types, Trust

LEMMA KeepMineKeeps ==
    ASSUME IInv, NotesAssumption, NEW i \in 1 .. Len(calls), KeepMine(i) PROVE IInv' /\ log' = log
<1> USE DEF IInv, Types, Trust
<1>1. PICK c \in Calls : c = calls[i] /\ c.by \in Sessions /\ c.by <= opened
    BY Caller
<1>2. PICK s \in Sessions : s = c.by
    BY <1>1
<1>3. c.op = "mine" /\ c.answer # None /\ c.answer # Conflict
  <2>1. CallTrust(c)
      BY <1>1, Caller
  <2> QED BY <1>1, <2>1 DEF KeepMine, Answered, CallTrust
<1>4. PICK n \in Nat : n = c.answer /\ n <= Current /\ Current \in Nat
    BY <1>1, <1>3, AnswerFacts
<1>5. PICK x \in SessionState : x = note[s]
    BY DEF NoteOK
<1> DEFINE y == [x EXCEPT !.base = n, !.expected = n, !.conflict = FALSE, !.failed = FALSE, !.touched = TRUE]
<1>6. y \in SessionState /\ y.base = n /\ y.expected = n /\ y.draft = x.draft /\ y.saving = x.saving
    BY DEF SessionState
<1>7. PICK z \in SessionState :
         /\ z = IF x.draft = None THEN y ELSE [y EXCEPT !.draft.base = n]
         /\ z.base = n /\ z.expected = n /\ z.saving = x.saving
         /\ z.draft # None => z.draft.base = n
  <2>1. CASE x.draft = None
      BY <1>6, <2>1
  <2>2. CASE x.draft # None
    <3> HIDE DEF y
    <3>1. y.draft \in Draft
        BY <1>6, <2>2 DEF SessionState
    <3>2. PICK d \in Draft : d = [y.draft EXCEPT !.base = n] /\ d.base = n
      <4>1. [y.draft EXCEPT !.base = n] \in Draft /\ [y.draft EXCEPT !.base = n].base = n
          BY <3>1 DEF Draft
      <4> QED BY <4>1
    <3> DEFINE z == [y EXCEPT !.draft = d]
    <3>3. z \in SessionState /\ z.base = n /\ z.expected = n /\ z.saving = x.saving /\ z.draft = d
        BY <1>6 DEF SessionState
    <3>4. z = [y EXCEPT !.draft.base = n]
        BY <1>6, <3>2
    <3> HIDE DEF z
    <3> QED BY <2>2, <3>2, <3>3, <3>4
  <2> QED BY <2>1, <2>2
<1>8. Save(s, z, RemoveAt(calls, i)) /\ known' = known \union {n}
    BY <1>1, <1>2, <1>4, <1>5, <1>7 DEF KeepMine
<1> HIDE DEF y
<1>9. log' = log /\ stray' = stray /\ opened' = opened /\ shown' = shown /\ unsaved' = unsaved /\ kept' \in {kept, None}
    BY <1>8, SaveKept DEF KeepMine, daemon, screen
<1>10. LogOK' /\ Grows /\ ScreenOK' /\ StrayOK' /\ StrayTrusted' /\ KeptOK' /\ KeptTrusted'
    BY <1>8, <1>9, Steady
<1>11. WorldOK' /\ LeftOK' /\ HistoryOK'
    BY <1>8, <1>9 DEF KeepMine, WorldOK, LeftOK, HistoryOK
<1>12. Trusted(n)' /\ n <= Current'
    BY <1>4, <1>8, <1>9 DEF Trusted, Familiar, Current
<1>13. ASSUME NEW w \in SessionState, Keeps(z, w) PROVE SessionTrust(s, w)'
  <2>1. w.base = n /\ w.expected = n /\ (w.draft # None => w.draft.base = n)
      BY <1>7, <1>13 DEF Keeps
  <2>2. ~(s > opened')
      BY <1>1, <1>2, <1>9 DEF ScreenOK, Sessions
  <2> HIDE DEF IInv, Types, Trust
  <2> QED BY <1>12, <2>1, <2>2 DEF SessionTrust
<1>14. PICK cs \in Seq(Calls) : cs = RemoveAt(calls, i)
    BY Removed DEF CallsOK
<1>15. CallsGood(cs)'
    BY <1>10, <1>14, CallsSoFar
<1>16. Match(cs, note)
    BY <1>1, <1>3, <1>14, MatchRemove DEF OneSave, CallsOK
<1>17. s <= opened' /\ Save(s, z, cs) /\ z.saving = note[s].saving /\ \A r \in Sessions : r = shown' => r = shown
    BY <1>1, <1>2, <1>5, <1>7, <1>8, <1>9, <1>14
<1> HIDE DEF IInv, Types, Trust
<1>18. NoteOK' /\ CallsOK' /\ SessionsTrusted' /\ CallsTrusted' /\ OneSave'
    BY <1>10, <1>13, <1>15, <1>16, <1>17, AfterSaveCall
<1> QED BY <1>9, <1>10, <1>11, <1>18 DEF IInv, Types, Trust

LEMMA LoadTheirsKeeps ==
    ASSUME IInv, NotesAssumption, NEW i \in 1 .. Len(calls), LoadTheirs(i) PROVE IInv' /\ log' = log
<1> USE DEF IInv, Types, Trust
<1>1. PICK c \in Calls : c = calls[i] /\ CallTrust(c) /\ c.by \in Sessions /\ c.by <= opened
    BY Caller
<1>2. PICK s \in Sessions : s = c.by
    BY <1>1
<1>3. c.op = "theirs" /\ c.answer # None /\ c.answer # Conflict
    BY <1>1 DEF LoadTheirs, Answered, CallTrust
<1>4. PICK n \in Nat : n = c.answer /\ n <= Current /\ Current \in Nat
    BY <1>1, <1>3, AnswerFacts
<1>5. PICK x \in SessionState : x = note[s]
    BY DEF NoteOK
<1> DEFINE y == [x EXCEPT !.base = n, !.expected = n, !.draft = None, !.touched = TRUE,
                          !.conflict = FALSE, !.failed = FALSE]
<1>6. y \in SessionState /\ y.base = n /\ y.expected = n /\ y.draft = None /\ y.saving = x.saving
    BY DEF SessionState
<1>7. note' = [note EXCEPT ![s] = y] /\ calls' = RemoveAt(calls, i) /\ kept' = None /\ unsaved' = None /\ Seen(s, n)
    BY <1>1, <1>2, <1>4, <1>5 DEF LoadTheirs, NoteOK
<1> HIDE DEF y
<1>8. known' \in SUBSET Nat /\ known \subseteq known' /\ (s = shown => n \in known')
    BY <1>7, SeenGrows
<1>9. log' = log /\ stray' = stray /\ opened' = opened /\ shown' = shown
    BY DEF LoadTheirs, daemon, screen
<1>10. LogOK' /\ Grows /\ ScreenOK' /\ StrayOK' /\ StrayTrusted'
    BY <1>8, <1>9, Steady
<1>11. WorldOK' /\ LeftOK' /\ HistoryOK' /\ KeptOK' /\ KeptTrusted'
    BY <1>7, <1>8 DEF LoadTheirs, WorldOK, LeftOK, HistoryOK, KeptOK, KeptTrusted
<1>12. n <= Current' /\ (s = shown' => Trusted(n)')
    BY <1>4, <1>8, <1>9 DEF Trusted, Familiar, Current
<1>13. SessionTrust(s, y)'
    BY <1>1, <1>2, <1>6, <1>9, <1>12 DEF SessionTrust, ScreenOK, Sessions
<1> HIDE DEF IInv, Types, Trust
<1>14. s = calls[i].by /\ calls[i].op # "save" /\ y.saving = note[s].saving
    BY <1>1, <1>2, <1>3, <1>5, <1>6
<1>15. NoteOK' /\ CallsOK' /\ SessionsTrusted' /\ CallsTrusted' /\ OneSave'
    BY <1>6, <1>7, <1>9, <1>10, <1>13, <1>14, AfterCall
<1> QED BY <1>9, <1>10, <1>11, <1>15 DEF IInv, Types, Trust

\* The session on screen reads the note again, or nothing happens to it.
LEMMA SyncKeeps ==
    ASSUME IInv, NotesAssumption, LogOK', ScreenOK', Grows, opened' = opened, shown' = shown,
           \/ shown # 0 /\ Sync(shown, note[shown])
           \/ note' = note /\ calls' = calls
    PROVE  NoteOK' /\ CallsOK' /\ SessionsTrusted' /\ CallsTrusted' /\ OneSave'
<1>1. CASE shown # 0 /\ Sync(shown, note[shown])
  <2>1. PICK s \in Sessions : s = shown /\ s <= opened
      BY <1>1, Shown
  <2>2. PICK x \in SessionState : x = note[s]
      BY DEF IInv, Types, NoteOK
  <2>3. Sync(s, x)
      BY <1>1, <2>1, <2>2
  <2>4. \A y \in SessionState : Keeps(x, y) => SessionTrust(s, y)'
      BY <2>1, <2>2, SessionKeeps
  <2> QED BY <2>1, <2>2, <2>3, <2>4, AfterSync
<1>2. CASE note' = note /\ calls' = calls
  <2>1. NoteOK' /\ SessionsTrusted' /\ CallsOK' /\ CallsTrusted'
      BY <1>2, SessionsStay, CallsStay
  <2> QED BY <1>2, <2>1 DEF IInv, OneSave
<1> QED BY <1>1, <1>2

LEMMA NoticeKeeps == ASSUME IInv, NotesAssumption, Notice PROVE IInv' /\ log' = log
<1>1. log' = log /\ stray' = stray /\ opened' = opened /\ shown' = shown /\ unsaved' = unsaved /\ known' = known
      /\ kept' = kept
    BY DEF Notice, daemon, screen, history
<1>2. LogOK' /\ Grows /\ ScreenOK' /\ StrayOK' /\ StrayTrusted' /\ KeptOK' /\ KeptTrusted'
    BY <1>1, Steady
<1>3. WorldOK' /\ LeftOK' /\ HistoryOK'
  <2>1. news' \in Seq(Nat)
      BY DEF Notice, IInv, Types, WorldOK
  <2> QED BY <1>1, <2>1 DEF Notice, IInv, Types, WorldOK, LeftOK, HistoryOK
<1>4. \/ shown # 0 /\ Sync(shown, note[shown])
      \/ note' = note /\ calls' = calls
    BY DEF Notice
<1>5. NoteOK' /\ CallsOK' /\ SessionsTrusted' /\ CallsTrusted' /\ OneSave'
    BY <1>1, <1>2, <1>4, SyncKeeps
<1> QED BY <1>1, <1>2, <1>3, <1>5 DEF IInv, Types, Trust

LEMMA MissNoticeKeeps == ASSUME IInv, NotesAssumption, MissNotice PROVE IInv' /\ log' = log
<1>1. log' = log /\ stray' = stray /\ opened' = opened /\ shown' = shown /\ unsaved' = unsaved /\ known' = known
      /\ kept' = kept /\ note' = note /\ calls' = calls
    BY DEF MissNotice, daemon, screen, history
<1>2. LogOK' /\ Grows /\ ScreenOK' /\ StrayOK' /\ StrayTrusted' /\ KeptOK' /\ KeptTrusted'
    BY <1>1, Steady
<1>3. WorldOK' /\ HistoryOK'
  <2>1. news' \in Seq(Nat)
      BY DEF MissNotice, IInv, Types, WorldOK
  <2> QED BY <1>1, <2>1 DEF MissNotice, IInv, Types, WorldOK, HistoryOK
<1>4. LeftOK'
    BY DEF MissNotice, IInv, Types, LeftOK, Budget
<1>5. NoteOK' /\ CallsOK' /\ SessionsTrusted' /\ CallsTrusted' /\ OneSave'
    BY <1>1, <1>2, SyncKeeps
<1> QED BY <1>1, <1>2, <1>3, <1>4, <1>5 DEF IInv, Types, Trust

LEMMA DropKeeps == ASSUME IInv, NotesAssumption, Drop PROVE IInv' /\ log' = log
<1>1. log' = log /\ stray' = stray /\ opened' = opened /\ shown' = shown /\ unsaved' = unsaved /\ known' = known
      /\ kept' = kept
    BY DEF Drop, daemon, screen, history
<1>2. LogOK' /\ Grows /\ ScreenOK' /\ StrayOK' /\ StrayTrusted' /\ KeptOK' /\ KeptTrusted'
    BY <1>1, Steady
<1>3. WorldOK' /\ HistoryOK'
  <2>1. news' \in Seq(Nat) /\ link' \in BOOLEAN
    <3>1. news' = << >>
        BY DEF Drop
    <3>2. link' \in BOOLEAN
        BY Zenon DEF Drop
    <3>3. << >> \in Seq(Nat)
        OBVIOUS
    <3> QED BY <3>1, <3>2, <3>3
  <2> QED BY <1>1, <2>1 DEF Drop, IInv, Types, WorldOK, HistoryOK
<1>4. LeftOK'
    BY DEF Drop, IInv, Types, LeftOK, Budget
<1>5. \/ shown # 0 /\ Sync(shown, note[shown])
      \/ note' = note /\ calls' = calls
    BY DEF Drop
<1>6. NoteOK' /\ CallsOK' /\ SessionsTrusted' /\ CallsTrusted' /\ OneSave'
    BY <1>1, <1>2, <1>5, SyncKeeps
<1> QED BY <1>1, <1>2, <1>3, <1>4, <1>6 DEF IInv, Types, Trust

LEMMA ReconnectKeeps == ASSUME IInv, NotesAssumption, Reconnect PROVE IInv' /\ log' = log
<1>1. log' = log /\ stray' = stray /\ opened' = opened /\ shown' = shown /\ unsaved' = unsaved /\ known' = known
      /\ kept' = kept
    BY DEF Reconnect, daemon, screen, history
<1>2. LogOK' /\ Grows /\ ScreenOK' /\ StrayOK' /\ StrayTrusted' /\ KeptOK' /\ KeptTrusted'
    BY <1>1, Steady
<1>3. WorldOK' /\ HistoryOK' /\ LeftOK'
    BY <1>1 DEF Reconnect, IInv, Types, WorldOK, HistoryOK, LeftOK
<1>4. \/ shown # 0 /\ Sync(shown, note[shown])
      \/ note' = note /\ calls' = calls
    BY DEF Reconnect
<1>5. NoteOK' /\ CallsOK' /\ SessionsTrusted' /\ CallsTrusted' /\ OneSave'
    BY <1>1, <1>2, <1>4, SyncKeeps
<1> QED BY <1>1, <1>2, <1>3, <1>5 DEF IInv, Types, Trust

LEMMA CallFailsKeeps ==
    ASSUME IInv, NotesAssumption, NEW i \in 1 .. Len(calls), CallFails(i) PROVE IInv' /\ log' = log
<1> USE DEF IInv, Types, Trust
<1>1. PICK c \in Calls : c = calls[i] /\ CallTrust(c) /\ c.by \in Sessions /\ c.by <= opened
    BY Caller
<1>2. PICK s \in Sessions : s = c.by
    BY <1>1
<1>3. PICK x \in SessionState : x = note[s]
    BY DEF NoteOK
<1> DEFINE gone == [x EXCEPT !.loaded = TRUE]
           unsaid == [x EXCEPT !.failed = TRUE, !.saving = None]
           told == [x EXCEPT !.failed = TRUE]
<1>4. /\ gone \in SessionState /\ Keeps(x, gone) /\ gone.saving = x.saving
      /\ unsaid \in SessionState /\ Keeps(x, unsaid) /\ unsaid.saving = None
      /\ told \in SessionState /\ Keeps(x, told) /\ told.saving = x.saving
    BY DEF SessionState, Keeps
<1>5. Failure(x, c.op) = IF c.op = "get" THEN gone ELSE IF c.op = "save" THEN unsaid ELSE told
    BY DEF Failure
<1> HIDE DEF gone, unsaid, told
<1>6. PICK y \in SessionState :
          /\ y = Failure(x, c.op) /\ Keeps(x, y) /\ y.saving = IF c.op = "save" THEN None ELSE x.saving
    BY <1>4, <1>5
<1>7. note' = [note EXCEPT ![s] = y] /\ calls' = RemoveAt(calls, i)
    BY <1>1, <1>2, <1>3, <1>6 DEF CallFails, NoteOK
<1>8. log' = log /\ opened' = opened /\ shown' = shown /\ unsaved' = unsaved /\ known' = known /\ kept' = kept
    BY DEF CallFails, screen, history
<1>9. LogOK' /\ Grows /\ ScreenOK'
    BY <1>8, Frame DEF ScreenOK
<1>10. KeptOK' /\ KeptTrusted' /\ WorldOK' /\ LeftOK' /\ HistoryOK'
    BY <1>8, <1>9, KeptGrows DEF CallFails, KeptOK, WorldOK, LeftOK, HistoryOK
<1>11. StrayOK' /\ StrayTrusted'
  <2> DEFINE late == [text |-> c.text, expected |-> c.expected]
  <2>1. late \in StraySave /\ late.expected = c.expected
      BY DEF Calls, StraySave
  <2>2. stray' = stray \/ (c.op = "save" /\ stray' = stray \union {late})
      BY <1>1 DEF CallFails
  <2> HIDE DEF late
  <2>3. StrayOK'
      BY <2>1, <2>2 DEF StrayOK
  <2>4. ASSUME NEW d \in stray' PROVE Trusted(d.expected)'
    <3>1. d.expected \in Nat /\ Trusted(d.expected)
        BY <1>1, <2>1, <2>2 DEF StrayOK, StraySave, StrayTrusted, CallTrust
    <3>2. \A n \in Nat : Trusted(n) => Trusted(n)'
        BY <1>9, TrustGrows
    <3> QED BY <3>1, <3>2
  <2> QED BY <2>3, <2>4 DEF StrayTrusted
<1> HIDE DEF IInv, Types, Trust
<1>12. SessionTrust(s, y)'
    BY <1>1, <1>2, <1>3, <1>6, <1>8, <1>9, SessionKeeps
<1>13. s = calls[i].by /\ y.saving = IF calls[i].op = "save" THEN None ELSE note[s].saving
    BY <1>1, <1>2, <1>3, <1>6
<1>14. NoteOK' /\ CallsOK' /\ SessionsTrusted' /\ CallsTrusted' /\ OneSave'
    BY <1>7, <1>8, <1>9, <1>12, <1>13, AfterCall
<1> QED BY <1>8, <1>9, <1>10, <1>11, <1>14 DEF IInv, Types, Trust

-----------------------------------------------------------------------------
LEMMA Quiet == ASSUME IInv, log' = log PROVE ReplacesKnown
<1>1. Current' = Current /\ Current \in Nat
    BY DEF IInv, Types, LogOK, Current
<1> QED BY <1>1 DEF ReplacesKnown

LEMMA Step == ASSUME IInv, NotesAssumption, [Next]_vars PROVE IInv' /\ ReplacesKnown
<1>1. CASE User
  <2>1. IInv' /\ log' = log
      BY <1>1, OpenKeeps, LeaveKeeps, EditBackKeeps, EditKeeps, FlushKeeps, RetryKeeps, ChooseKeeps DEF User
  <2> QED BY <2>1, Quiet
<1>2. CASE Serve
    BY <1>2, ServeReadKeeps, ServeSaveKeeps, Quiet DEF Serve, Out, ServeRead, daemon
<1>3. CASE Answer
  <2>1. IInv' /\ log' = log
      BY <1>3, ReadAnsweredKeeps, SaveTakenKeeps, SaveRefusedKeeps, KeepMineKeeps, LoadTheirsKeeps, CallFailsKeeps
      DEF Answer, Out
  <2> QED BY <2>1, Quiet
<1>4. CASE \E c \in stray : ServeStray(c)
    BY <1>4, ServeStrayKeeps
<1>5. CASE \E t \in Texts : OtherSaves(t)
    BY <1>5, OtherSavesKeeps
<1>6. CASE \E s \in Sessions : Autosave(s)
    BY <1>6, AutosaveKeeps, Quiet
<1>7. CASE Notice \/ MissNotice \/ Drop \/ Reconnect
    BY <1>7, NoticeKeeps, MissNoticeKeeps, DropKeeps, ReconnectKeeps, Quiet
<1>8. CASE UNCHANGED vars
  <2> USE <1>8 DEF IInv, Types, Trust, vars, daemon, screen, history
  <2>1. WorldOK' /\ LogOK' /\ CallsOK' /\ StrayOK' /\ ScreenOK' /\ NoteOK' /\ KeptOK' /\ LeftOK' /\ HistoryOK'
      BY DEF WorldOK, LogOK, CallsOK, StrayOK, ScreenOK, NoteOK, KeptOK, LeftOK, HistoryOK
  <2>2. LogOK' /\ Grows /\ StrayTrusted' /\ KeptTrusted'
      BY Steady
  <2>3. SessionsTrusted' /\ CallsTrusted' /\ OneSave'
      BY <2>1, <2>2, SyncKeeps
  <2> QED BY <2>1, <2>2, <2>3, Quiet
<1> QED BY <1>1, <1>2, <1>3, <1>4, <1>5, <1>6, <1>7, <1>8 DEF Next

-----------------------------------------------------------------------------
(* A thread's note is not taken for one that was never made.  In order, no *)
(* session that saw the note is told again that there is none, so a draft  *)
(* that is blank always lies on a note, and run does not drop it.          *)

Given(c) == c.answer \in Nat \ {0}
Tidy(cs) ==
    /\ \A i, j \in 1 .. Len(cs) : i < j /\ cs[j].answer # None => cs[i].answer # None
    /\ \A i, j \in 1 .. Len(cs) : i < j /\ Given(cs[i]) => cs[j].answer # 0
    /\ \A i \in 1 .. Len(cs) : cs[i].op = "save" => cs[i].answer # 0
NoZero(cs) == \A i \in 1 .. Len(cs) : cs[i].answer # 0

BlankDraft(d) == d # None /\ d.text = Blank
Found == BlankDraft(kept) \/ \E s \in Sessions : note[s].base # 0
Ordered ==
    /\ Tidy(calls)
    /\ Found => Current # 0 /\ NoZero(calls)
    /\ \A s \in Sessions : BlankDraft(note[s].draft) => note[s].base # 0

LEMMA TidyAppend ==
    ASSUME NotesAssumption, NEW cs \in Seq(Calls), NEW c \in Calls, c.answer = None
    PROVE  (Tidy(cs) => Tidy(Append(cs, c))) /\ (NoZero(cs) => NoZero(Append(cs, c)))
<1>1. Len(Append(cs, c)) = Len(cs) + 1 /\ Append(cs, c)[Len(cs) + 1] = c
      /\ \A i \in 1 .. Len(cs) : Append(cs, c)[i] = cs[i]
    OBVIOUS
<1>2. Len(cs) \in Nat /\ c.answer # 0
    BY DEF NotesAssumption
<1>3. PICK ds : ds = Append(cs, c)
    OBVIOUS
<1>4. Len(ds) = Len(cs) + 1 /\ ds[Len(cs) + 1] = c /\ \A i \in 1 .. Len(cs) : ds[i] = cs[i]
    BY <1>1, <1>3
<1>5. NoZero(cs) => NoZero(ds)
    BY <1>2, <1>4 DEF NoZero
<1>6. Tidy(cs) => Tidy(ds)
    BY <1>2, <1>4 DEF Tidy
<1> QED BY <1>3, <1>5, <1>6

LEMMA TidyRemove ==
    ASSUME NEW cs \in Seq(Calls), NEW k \in 1 .. Len(cs)
    PROVE  /\ Tidy(cs) => Tidy(RemoveAt(cs, k))
           /\ NoZero(cs) => NoZero(RemoveAt(cs, k))
           /\ Tidy(cs) /\ k = 1 /\ Given(cs[1]) => NoZero(RemoveAt(cs, k))
<1>1. PICK ds : ds = RemoveAt(cs, k)
    OBVIOUS
<1>2. Len(ds) = Len(cs) - 1 /\ \A j \in 1 .. (Len(cs) - 1) : ds[j] = IF j < k THEN cs[j] ELSE cs[j + 1]
    BY <1>1, Removed
<1>3. Len(cs) \in Nat
    OBVIOUS
<1>4. \A j \in 1 .. Len(ds) : (IF j < k THEN j ELSE j + 1) \in 1 .. Len(cs) /\ ds[j] = cs[IF j < k THEN j ELSE j + 1]
    BY <1>2, <1>3
<1>5. NoZero(cs) => NoZero(ds)
    BY <1>4 DEF NoZero
<1>8. \A i, j \in 1 .. Len(ds) : i < j => (IF i < k THEN i ELSE i + 1) < (IF j < k THEN j ELSE j + 1)
    BY <1>2, <1>3
<1>6. Tidy(cs) => Tidy(ds)
  <2> SUFFICES ASSUME Tidy(cs) PROVE Tidy(ds)
      OBVIOUS
  <2>1. \A i, j \in 1 .. Len(ds) : i < j /\ ds[j].answer # None => ds[i].answer # None
      BY <1>4, <1>8 DEF Tidy
  <2>2. \A i, j \in 1 .. Len(ds) : i < j /\ Given(ds[i]) => ds[j].answer # 0
      BY <1>4, <1>8 DEF Tidy
  <2>3. \A i \in 1 .. Len(ds) : ds[i].op = "save" => ds[i].answer # 0
      BY <1>4 DEF Tidy
  <2> QED BY <2>1, <2>2, <2>3 DEF Tidy
<1>7. Tidy(cs) /\ k = 1 /\ Given(cs[1]) => NoZero(ds)
    BY <1>2, <1>3, <1>4 DEF Tidy, NoZero
<1> QED BY <1>1, <1>5, <1>6, <1>7

LEMMA TidyAnswer ==
    ASSUME NotesAssumption, NEW cs \in Seq(Calls), NEW k \in 1 .. Len(cs), NEW a \in Nat \union {Conflict},
           \A j \in 1 .. (k - 1) : cs[j].answer # None, cs[k].answer = None,
           cs[k].op = "save" => a # 0, a = 0 => \A j \in 1 .. Len(cs) : ~Given(cs[j])
    PROVE  /\ Tidy(cs) => Tidy([cs EXCEPT ![k].answer = a])
           /\ NoZero(cs) /\ a # 0 => NoZero([cs EXCEPT ![k].answer = a])
<1>1. cs[k] \in Calls
    OBVIOUS
<1>2. PICK c : c = [cs[k] EXCEPT !.answer = a]
    OBVIOUS
<1>3. c.answer = a /\ c.op = cs[k].op
    BY <1>1, <1>2 DEF Calls
<1>4. PICK ds : ds = [cs EXCEPT ![k].answer = a]
    OBVIOUS
<1>5. Len(ds) = Len(cs) /\ ds[k] = c /\ \A j \in 1 .. Len(cs) : j # k => ds[j] = cs[j]
    BY <1>2, <1>4
<1>6. Len(cs) \in Nat
    OBVIOUS
<1>7. a # None /\ None \notin Nat
    BY DEF NotesAssumption
<1>8. NoZero(cs) /\ a # 0 => NoZero(ds)
    BY <1>3, <1>5 DEF NoZero
<1>9. ASSUME Tidy(cs) PROVE Tidy(ds)
  <2>1. ASSUME NEW i \in 1 .. Len(ds), NEW j \in 1 .. Len(ds), i < j, ds[j].answer # None PROVE ds[i].answer # None
    <3>1. CASE i = k
        BY <3>1, <1>3, <1>5, <1>7
    <3>2. CASE i # k /\ j = k
        BY <3>2, <2>1, <1>5, <1>6
    <3>3. CASE i # k /\ j # k
        BY <3>3, <2>1, <1>5, <1>9 DEF Tidy
    <3> QED BY <3>1, <3>2, <3>3
  <2>2. ASSUME NEW i \in 1 .. Len(ds), NEW j \in 1 .. Len(ds), i < j, Given(ds[i]) PROVE ds[j].answer # 0
    <3>1. CASE i = k
      <4>1. cs[j].answer = None
          BY <3>1, <2>2, <1>5, <1>9 DEF Tidy
      <4> QED BY <4>1, <3>1, <2>2, <1>5, <1>6, <1>7
    <3>2. CASE i # k /\ j = k
        BY <3>2, <2>2, <1>3, <1>5 DEF Given
    <3>3. CASE i # k /\ j # k
        BY <3>3, <2>2, <1>5, <1>9 DEF Tidy
    <3> QED BY <3>1, <3>2, <3>3
  <2>3. \A i \in 1 .. Len(ds) : ds[i].op = "save" => ds[i].answer # 0
      BY <1>3, <1>5, <1>9 DEF Tidy
  <2> QED BY <2>1, <2>2, <2>3 DEF Tidy
<1> QED BY <1>4, <1>8, <1>9

\* One session changes.
LEMMA OrderedOne ==
    ASSUME IInv, Ordered, NEW s \in Sessions, NEW y \in SessionState, note' = [note EXCEPT ![s] = y],
           Current # 0 => Current' # 0, Tidy(calls'), NoZero(calls) => NoZero(calls'),
           BlankDraft(y.draft) => y.base # 0,
           y.base # 0 => Found \/ (Current' # 0 /\ NoZero(calls')),
           BlankDraft(kept') => BlankDraft(kept) \/ y.base # 0
    PROVE  Ordered'
<1>1. note'[s] = y /\ \A r \in Sessions : r # s => note'[r] = note[r]
    BY DEF IInv, Types, NoteOK
<1>2. Tidy(calls)'
    BY DEF Tidy, Given
<1>3. ASSUME Found' PROVE Current' # 0 /\ NoZero(calls')
  <2>1. Found \/ y.base # 0
      BY <1>1, <1>3 DEF Found, BlankDraft
  <2> QED BY <2>1 DEF Ordered
<1>4. \A r \in Sessions : BlankDraft(note'[r].draft) => note'[r].base # 0
    BY <1>1 DEF Ordered
<1> QED BY <1>2, <1>3, <1>4 DEF Ordered, NoZero, BlankDraft

\* A session that keeps what it has, or drops its draft.
LEMMA OrderedKeeps ==
    ASSUME IInv, Ordered, NEW s \in Sessions, NEW y \in SessionState, note' = [note EXCEPT ![s] = y],
           Keeps(note[s], y), log' = log, kept' \in {kept, None}, Tidy(calls'), NoZero(calls) => NoZero(calls')
    PROVE  Ordered'
<1>1. BlankDraft(y.draft) => y.base # 0
    BY DEF Keeps, Ordered, BlankDraft
<1>2. y.base # 0 => Found
    BY DEF Keeps, Found
<1>3. BlankDraft(kept') => BlankDraft(kept)
    BY DEF BlankDraft
<1>4. Current' = Current
    BY DEF Current
<1> QED BY <1>1, <1>2, <1>3, <1>4, OrderedOne

\* No session changes.
LEMMA OrderedStays ==
    ASSUME Ordered, note' = note, kept' = kept, Current # 0 => Current' # 0, Tidy(calls'), NoZero(calls) /\ Found => NoZero(calls')
    PROVE  Ordered'
<1>1. Found' => Found
    BY DEF Found, BlankDraft
<1> QED BY <1>1 DEF Ordered, NoZero, Tidy, BlankDraft, Given

LEMMA CallsSeq == ASSUME IInv PROVE calls \in Seq(Calls)
  BY DEF IInv, Types, CallsOK

\* A session that reads the note, or saves it.
LEMMA OrderedSync ==
    ASSUME IInv, NotesAssumption, Ordered, NEW s \in Sessions, NEW x \in SessionState, Sync(s, x), Keeps(note[s], x),
           log' = log, kept' = kept
    PROVE  Ordered'
<1>1. PICK y \in SessionState :
              /\ note' = [note EXCEPT ![s] = y] /\ Keeps(x, y)
              /\ calls' = calls \/ calls' = Append(calls, Call(s, "get", Blank, 0))
    BY SyncFacts
<1>2. Call(s, "get", Blank, 0) \in Calls /\ Call(s, "get", Blank, 0).answer = None
    BY CallType DEF NotesAssumption, Ops
<1>3. Tidy(calls') /\ (NoZero(calls) => NoZero(calls'))
    BY <1>1, <1>2, CallsSeq, TidyAppend DEF Ordered
<1>4. Keeps(note[s], y)
    BY <1>1 DEF Keeps
<1> QED BY <1>1, <1>3, <1>4, OrderedKeeps

LEMMA SaveTidy ==
    ASSUME NotesAssumption, NEW s \in Sessions, NEW x \in SessionState, NEW cs \in Seq(Calls), Save(s, x, cs), Tidy(cs)
    PROVE  \E y \in SessionState :
              /\ note' = [note EXCEPT ![s] = y] /\ Keeps(x, y)
              /\ Tidy(calls') /\ (NoZero(cs) => NoZero(calls'))
<1>1. PICK y \in SessionState :
              /\ note' = [note EXCEPT ![s] = y] /\ Keeps(x, y)
              /\ \/ calls' = cs
                 \/ x.draft # None /\ calls' = Append(cs, Call(s, "save", x.draft.text, x.expected))
    BY SaveFacts
<1>2. CASE calls' = cs
    BY <1>1, <1>2
<1>3. CASE x.draft # None /\ calls' = Append(cs, Call(s, "save", x.draft.text, x.expected))
  <2>1. x.draft.text \in Texts /\ x.expected \in Nat
      BY <1>3 DEF SessionState, Draft
  <2>2. Call(s, "save", x.draft.text, x.expected) \in Calls /\ Call(s, "save", x.draft.text, x.expected).answer = None
      BY <2>1, CallType DEF Ops
  <2> QED BY <1>1, <1>3, <2>2, TidyAppend
<1> QED BY <1>1, <1>2, <1>3

LEMMA OrderedSave ==
    ASSUME IInv, NotesAssumption, Ordered, NEW s \in Sessions, NEW x \in SessionState, Save(s, x, calls), Keeps(note[s], x),
           log' = log
    PROVE  Ordered'
<1>1. PICK y \in SessionState :
              /\ note' = [note EXCEPT ![s] = y] /\ Keeps(x, y)
              /\ Tidy(calls') /\ (NoZero(calls) => NoZero(calls'))
    BY CallsSeq, SaveTidy DEF Ordered
<1>2. Keeps(note[s], y) /\ kept' \in {kept, None}
    BY <1>1, SaveKept DEF Keeps
<1> QED BY <1>1, <1>2, OrderedKeeps

LEMMA KeepsFailed == ASSUME NEW x \in SessionState, NEW y, y = [x EXCEPT !.failed = FALSE] PROVE y \in SessionState /\ Keeps(x, y)
  BY DEF Keeps, SessionState

LEMMA OrderedUser == ASSUME IInv, NotesAssumption, Ordered, User PROVE Ordered'
<1>1. CASE Open
  <2>1. log' = log /\ kept' = kept /\ opened' \in Sessions /\ opened' > opened /\ Sync(opened', Fresh)
      BY <1>1 DEF Open, daemon, IInv, Types, ScreenOK, Sessions, NotesAssumption
  <2>2. PICK s \in Sessions : s = opened'
      BY <2>1
  <2>3. note[s] = Fresh
      BY <2>1, <2>2 DEF IInv, Trust, SessionsTrusted, SessionTrust
  <2>4. Fresh \in SessionState /\ Keeps(note[s], Fresh)
      BY <2>3 DEF Fresh, SessionState, Keeps
  <2> QED BY <2>1, <2>2, <2>4, OrderedSync
<1>2. CASE Leave \/ Flush \/ Retry
  <2>1. PICK s \in Sessions : s = shown
      BY <1>2, Shown DEF Leave, Flush, Retry
  <2>2. PICK x \in SessionState : x = note[s]
      BY DEF IInv, Types, NoteOK
  <2>3. log' = log
      BY <1>2 DEF Leave, Flush, Retry, daemon
  <2>4. CASE Leave /\ note[shown].failed
    <3> DEFINE y == [x EXCEPT !.timer = FALSE]
    <3>1. y \in SessionState /\ Keeps(x, y)
        BY DEF SessionState, Keeps
    <3>2. note' = [note EXCEPT ![s] = y] /\ calls' = calls /\ kept' = kept
        BY <2>1, <2>2, <2>4 DEF Leave
    <3> HIDE DEF y
    <3>3. Tidy(calls') /\ (NoZero(calls) => NoZero(calls'))
        BY <3>2 DEF Ordered
    <3> QED BY <2>2, <2>3, <3>1, <3>2, <3>3, OrderedKeeps
  <2>5. CASE ~(Leave /\ note[shown].failed)
    <3>1. PICK y \in SessionState : Save(s, y, calls) /\ Keeps(x, y)
      <4>1. CASE Leave \/ Flush
          BY <1>2, <2>1, <2>2, <2>5, <4>1 DEF Leave, Flush, Keeps
      <4>2. CASE Retry
          BY <2>1, <2>2, <4>2, KeepsFailed DEF Retry
      <4> QED BY <1>2, <4>1, <4>2
    <3> QED BY <2>2, <2>3, <3>1, OrderedSave
  <2> QED BY <2>4, <2>5
<1>3. CASE EditBack
  <2>1. PICK s \in Sessions : s = shown
      BY <1>3, Shown DEF EditBack
  <2>2. PICK x \in SessionState : x = note[s]
      BY DEF IInv, Types, NoteOK
  <2> DEFINE y == [x EXCEPT !.draft = None, !.failed = FALSE, !.touched = TRUE]
  <2>3. y \in SessionState /\ Keeps(x, y)
      BY DEF SessionState, Keeps
  <2>4. note' = [note EXCEPT ![s] = y] /\ calls' = calls /\ log' = log /\ kept' \in {kept, None}
      BY <1>3, <2>1, <2>2 DEF EditBack, IInv, Types, NoteOK, daemon
  <2> HIDE DEF y
  <2>5. Tidy(calls') /\ (NoZero(calls) => NoZero(calls'))
      BY <2>4 DEF Ordered
  <2> QED BY <2>2, <2>3, <2>4, <2>5, OrderedKeeps
<1>4. CASE \E t \in Texts : Edit(t)
  <2>1. PICK t \in Texts : Edit(t)
      BY <1>4
  <2>2. PICK s \in Sessions : s = shown
      BY <2>1, Shown DEF Edit
  <2>3. PICK x \in SessionState : x = note[s]
      BY DEF IInv, Types, NoteOK
  <2>4. PICK d \in Draft : d.text = t /\ d = [text |-> t, base |-> IF x.draft = None THEN x.expected ELSE x.draft.base]
    <3>1. x.draft # None => x.draft.base \in Nat
        BY DEF SessionState, Draft
    <3> QED BY <3>1 DEF Draft, SessionState
  <2>5. PICK f \in BOOLEAN : f = (x.conflict /\ x.failed)
      BY Zenon DEF SessionState
  <2>6. PICK r \in BOOLEAN : r = (~x.conflict \/ x.timer)
      BY Zenon DEF SessionState
  <2> DEFINE y == [x EXCEPT !.draft = d, !.touched = TRUE, !.failed = f, !.timer = r]
  <2>7. y \in SessionState /\ y.draft = d /\ y.base = x.base
      BY DEF SessionState
  <2>8. note' = [note EXCEPT ![s] = y] /\ kept' = d /\ calls' = calls /\ log' = log /\ t # Text(x.base)
      BY <2>1, <2>2, <2>3, <2>4, <2>5, <2>6 DEF Edit, daemon
  <2> HIDE DEF y
  <2>9. BlankDraft(d) => x.base # 0
      BY <2>4, <2>8 DEF BlankDraft, Text
  <2>10. x.base # 0 => Found
      BY <2>3 DEF Found
  <2>11. Tidy(calls') /\ (NoZero(calls) => NoZero(calls')) /\ Current' = Current
      BY <2>8 DEF Ordered, Current
  <2> QED BY <2>7, <2>8, <2>9, <2>10, <2>11, OrderedOne
<1>5. CASE \E op \in {"mine", "theirs"} : Choose(op)
  <2>1. PICK op \in {"mine", "theirs"} : Choose(op)
      BY <1>5
  <2>2. PICK s \in Sessions : s = shown
      BY <2>1, Shown DEF Choose
  <2>3. log' = log /\ kept' = kept /\ Current' = Current
      BY <2>1 DEF Choose, daemon, Current
  <2>4. CASE link
    <3>1. Call(s, op, Blank, 0) \in Calls /\ Call(s, op, Blank, 0).answer = None
        BY CallType DEF NotesAssumption, Ops
    <3>2. calls' = Append(calls, Call(s, op, Blank, 0)) /\ note' = note
        BY <2>1, <2>2, <2>4 DEF Choose
    <3>3. Tidy(calls') /\ (NoZero(calls) => NoZero(calls'))
        BY <3>1, <3>2, CallsSeq, TidyAppend DEF Ordered
    <3> QED BY <2>3, <3>2, <3>3, OrderedStays
  <2>5. CASE ~link
    <3>1. PICK x \in SessionState : x = note[s]
        BY DEF IInv, Types, NoteOK
    <3> DEFINE y == [x EXCEPT !.failed = TRUE]
    <3>2. y \in SessionState /\ Keeps(x, y)
        BY DEF SessionState, Keeps
    <3>3. note' = [note EXCEPT ![s] = y] /\ calls' = calls
        BY <2>1, <2>2, <2>5, <3>1 DEF Choose, IInv, Types, NoteOK
    <3> HIDE DEF y
    <3>4. Tidy(calls') /\ (NoZero(calls) => NoZero(calls'))
        BY <3>3 DEF Ordered
    <3> QED BY <2>3, <3>1, <3>2, <3>3, <3>4, OrderedKeeps
  <2> QED BY <2>4, <2>5
<1> QED BY <1>1, <1>2, <1>3, <1>4, <1>5 DEF User

LEMMA OrderedServe ==
    ASSUME IInv, NotesAssumption, ~May("late"), Ordered, NEW i \in 1 .. Len(calls), ServeRead(i) \/ ServeSave(i)
    PROVE  Ordered'
<1>1. PICK cs \in Seq(Calls) : cs = calls /\ Tidy(cs)
    BY CallsSeq DEF Ordered
<1>2. Current \in Nat /\ Len(log) \in Nat
    BY DEF IInv, Types, LogOK, Current
<1>3. \A j \in 1 .. (i - 1) : cs[j].answer # None
    BY <1>1 DEF ServeRead, ServeSave, Turn
<1>4. note' = note /\ kept' = kept /\ cs[i].answer = None
    BY <1>1 DEF ServeRead, ServeSave
<1>5. \A j \in 1 .. Len(cs) : Given(cs[j]) => Current # 0
  <2> SUFFICES ASSUME NEW j \in 1 .. Len(cs), Given(cs[j]) PROVE Current # 0
      OBVIOUS
  <2>1. CallTrust(cs[j])
      BY <1>1, Caller
  <2> QED BY <1>2, <2>1 DEF CallTrust, Given
<1>6. PICK a \in Nat \union {Conflict} :
         /\ calls' = [cs EXCEPT ![i].answer = a] /\ (a = 0 => cs[i].op # "save" /\ Current = 0)
         /\ Current # 0 => Current' # 0
  <2>1. CASE ServeRead(i)
      BY <1>1, <1>2, <2>1 DEF ServeRead, daemon, Current
  <2>2. CASE ServeSave(i)
    <3>1. PICK r \in BOOLEAN : r = Refused(calls[i].text, calls[i].expected)
        BY Zenon DEF Refused
    <3>2. calls' = [calls EXCEPT ![i].answer = IF r THEN Conflict ELSE Len(log')]
        BY <2>2, <3>1 DEF ServeSave
    <3>3. Take(calls[i].text, calls[i].expected, "phone")
        BY <2>2 DEF ServeSave
    <3>4. Len(log') \in Nat /\ Current <= Len(log') /\ (~r => Len(log') # 0)
      <4>1. CASE Written(calls[i].text, calls[i].expected)
          BY <1>2, <3>3, <4>1 DEF Take, Current, IInv, Types, LogOK
      <4>2. CASE ~Written(calls[i].text, calls[i].expected)
        <5>1. log' = log
            BY <3>3, <4>2 DEF Take
        <5>2. ~r => Current # 0
            BY <3>1, <4>2 DEF Written, Refused
        <5> QED BY <1>2, <5>1, <5>2 DEF Current
      <4> QED BY <4>1, <4>2
    <3>5. PICK a \in Nat \union {Conflict} : a = IF r THEN Conflict ELSE Len(log')
        BY <3>4
    <3>6. a # 0
        BY <3>4, <3>5 DEF NotesAssumption
    <3>7. Current # 0 => Current' # 0
        BY <1>2, <3>4 DEF Current
    <3> QED BY <1>1, <3>2, <3>5, <3>6, <3>7
  <2> QED BY <2>1, <2>2
<1>7. a = 0 => \A j \in 1 .. Len(cs) : ~Given(cs[j])
    BY <1>5, <1>6
<1>8. Tidy(calls') /\ (NoZero(cs) /\ a # 0 => NoZero(calls'))
    BY <1>1, <1>3, <1>4, <1>6, <1>7, TidyAnswer
<1>9. Found => a # 0
    BY <1>6 DEF Ordered
<1> QED BY <1>1, <1>4, <1>6, <1>8, <1>9, OrderedStays

\* An answer: the first of those that are out.
LEMMA FirstAnswer ==
    ASSUME IInv, NotesAssumption, ~May("late"), Ordered, NEW i \in 1 .. Len(calls), NEW op \in Ops, Answered(i, op),
           calls[i].answer # Conflict
    PROVE  /\ calls[i].answer \in Nat /\ (calls[i].answer # 0 => Current # 0 /\ NoZero(RemoveAt(calls, i)))
           /\ Found => calls[i].answer # 0
           /\ Tidy(RemoveAt(calls, i)) /\ (NoZero(calls) => NoZero(RemoveAt(calls, i)))
           /\ op = "save" => calls[i].answer # 0
<1>1. i = 1 /\ calls[i].op = op /\ calls[i].answer # None
    BY DEF Answered
<1>2. calls[i] \in Calls /\ CallTrust(calls[i]) /\ calls \in Seq(Calls)
    BY Caller, CallsSeq
<1>3. calls[i].answer \in Nat
    BY <1>1, <1>2 DEF Calls
<1>4. Current \in Nat
    BY DEF IInv, Types, LogOK, Current
<1>5. calls[i].answer # 0 => Current # 0 /\ Given(calls[1])
    BY <1>1, <1>2, <1>3, <1>4 DEF CallTrust, Given
<1>6. calls[i].answer # 0 => NoZero(RemoveAt(calls, i))
    BY <1>1, <1>2, <1>5, TidyRemove DEF Ordered
<1>7. Found => calls[i].answer # 0
    BY DEF Ordered, NoZero
<1>8. op = "save" => calls[i].answer # 0
    BY <1>1 DEF Ordered, Tidy
<1>9. Tidy(RemoveAt(calls, i)) /\ (NoZero(calls) => NoZero(RemoveAt(calls, i)))
    BY <1>2, TidyRemove DEF Ordered
<1> QED BY <1>3, <1>5, <1>6, <1>7, <1>8, <1>9

\* A session that takes the note from an answer.
LEMMA OrderedAnswer ==
    ASSUME IInv, NotesAssumption, ~May("late"), Ordered, NEW i \in 1 .. Len(calls), NEW op \in Ops, Answered(i, op),
           calls[i].answer # Conflict, log' = log,
           NEW s \in Sessions, NEW y \in SessionState, note' = [note EXCEPT ![s] = y],
           calls' = RemoveAt(calls, i), y.base \in {note[s].base, calls[i].answer},
           BlankDraft(y.draft) =>
               op = "save" \/ BlankDraft(note[s].draft) \/ (BlankDraft(kept) /\ y.base = calls[i].answer),
           BlankDraft(kept') => BlankDraft(kept) \/ (op = "save" /\ y.base = calls[i].answer),
           op = "save" => y.base = calls[i].answer
    PROVE  Ordered'
<1>1. /\ calls[i].answer # 0 => Current # 0 /\ NoZero(calls')
      /\ Found => calls[i].answer # 0
      /\ Tidy(calls') /\ (NoZero(calls) => NoZero(calls'))
      /\ op = "save" => calls[i].answer # 0
    BY FirstAnswer
<1>2. Current' = Current
    BY DEF Current
<1>3. y.base # 0 => Found \/ (Current' # 0 /\ NoZero(calls'))
    BY <1>1, <1>2 DEF Found
<1>4. BlankDraft(note[s].draft) => note[s].base # 0 /\ Found
    BY DEF Ordered, Found
<1>7. BlankDraft(kept) => Found
    BY DEF Found
<1>5. BlankDraft(y.draft) => y.base # 0
    BY <1>1, <1>4, <1>7
<1>6. BlankDraft(kept') => BlankDraft(kept) \/ y.base # 0
    BY <1>1
<1> QED BY <1>1, <1>2, <1>3, <1>5, <1>6, OrderedOne

LEMMA OrderedAnswers ==
    ASSUME IInv, NotesAssumption, ~May("late"), Ordered, NEW i \in 1 .. Len(calls),
           ReadAnswered(i) \/ SaveTaken(i) \/ SaveRefused(i) \/ KeepMine(i) \/ LoadTheirs(i) \/ CallFails(i)
    PROVE  Ordered'
<1>1. PICK c \in Calls : c = calls[i] /\ CallTrust(c)
    BY Caller
<1>2. PICK s \in Sessions : s = c.by
    BY DEF Calls
<1>3. PICK x \in SessionState : x = note[s]
    BY DEF IInv, Types, NoteOK
<1>4. /\ Tidy(RemoveAt(calls, i)) /\ (NoZero(calls) => NoZero(RemoveAt(calls, i)))
      /\ RemoveAt(calls, i) \in Seq(Calls)
    BY CallsSeq, Removed, TidyRemove DEF Ordered
<1>5. log' = log
    BY DEF ReadAnswered, SaveTaken, SaveRefused, KeepMine, LoadTheirs, CallFails, daemon
<1>6. CASE ReadAnswered(i)
  <2>1. Answered(i, "get") /\ c.answer # Conflict /\ calls' = RemoveAt(calls, i) /\ kept' = kept
      BY <1>1, <1>6 DEF ReadAnswered, Answered, CallTrust
  <2>2. PICK n \in Nat : n = c.answer
      BY <1>1, <2>1 DEF Answered, Calls
  <2>3. PICK y \in SessionState :
           /\ y = IF x.draft = None
                  THEN IF kept # None THEN Restore(x, n) ELSE [x EXCEPT !.base = n, !.expected = n]
                  ELSE IF x.saving = None THEN Underneath(x, n) ELSE x
           /\ \/ y.draft = x.draft /\ y.base \in {x.base, n}
              \/ kept # None /\ y.draft = kept /\ y.base = n
    <3>1. CASE x.draft = None /\ kept # None
      <4>1. kept \in Draft
          BY <3>1 DEF IInv, Types, KeptOK
      <4>2. /\ Restore(x, n) \in SessionState /\ Restore(x, n).base = n /\ Restore(x, n).draft = kept
          BY <3>1, <4>1, RestoreFacts
      <4> QED BY <3>1, <4>2
    <3>2. CASE x.draft = None /\ kept = None
      <4> DEFINE z == [x EXCEPT !.base = n, !.expected = n]
      <4>1. z \in SessionState /\ z.base = n /\ z.draft = x.draft
          BY DEF SessionState
      <4> QED BY <3>2, <4>1
    <3>3. CASE x.draft # None
      <4>1. Underneath(x, n) \in SessionState /\ Underneath(x, n).base = n /\ Underneath(x, n).draft = x.draft
          BY UnderneathFacts
      <4> QED BY <3>3, <4>1
    <3> QED BY <3>1, <3>2, <3>3
  <2> DEFINE z == [y EXCEPT !.loaded = TRUE]
  <2>4. z \in SessionState /\ z.base = y.base /\ z.draft = y.draft
      BY DEF SessionState
  <2>5. note' = [note EXCEPT ![s] = z]
      BY <1>1, <1>2, <1>3, <1>6, <2>2, <2>3 DEF ReadAnswered
  <2> HIDE DEF z
  <2>6. /\ z.base \in {note[s].base, calls[i].answer}
        /\ BlankDraft(z.draft) => BlankDraft(note[s].draft) \/ (BlankDraft(kept) /\ z.base = calls[i].answer)
      BY <1>1, <1>3, <2>2, <2>3, <2>4 DEF BlankDraft
  <2>7. "get" \in Ops /\ "get" # "save"
      BY DEF Ops
  <2> QED BY <1>1, <1>5, <2>1, <2>4, <2>5, <2>6, <2>7, OrderedAnswer
<1>7. CASE SaveTaken(i)
  <2>1. Answered(i, "save") /\ c.answer # Conflict /\ calls' = RemoveAt(calls, i)
      BY <1>1, <1>7 DEF SaveTaken
  <2>2. PICK n \in Nat : n = c.answer
      BY <1>1, <2>1 DEF Answered, Calls
  <2>3. PICK y \in SessionState : y = AfterSave(x, n) /\ y.base = n
      BY AfterSaveFacts
  <2>4. note' = [note EXCEPT ![s] = y] /\ kept' = y.draft
      BY <1>1, <1>2, <1>3, <1>7, <2>2, <2>3 DEF SaveTaken
  <2>5. "save" \in Ops
      BY DEF Ops
  <2> QED BY <1>1, <1>5, <2>1, <2>2, <2>3, <2>4, <2>5, OrderedAnswer
<1>8. CASE SaveRefused(i)
  <2> DEFINE y == [x EXCEPT !.conflict = TRUE, !.saving = None, !.failed = FALSE]
  <2>1. y \in SessionState /\ Keeps(x, y)
      BY DEF SessionState, Keeps
  <2>2. note' = [note EXCEPT ![s] = y] /\ calls' = RemoveAt(calls, i) /\ kept' = kept
      BY <1>1, <1>2, <1>3, <1>8 DEF SaveRefused, IInv, Types, NoteOK
  <2> HIDE DEF y
  <2> QED BY <1>3, <1>4, <1>5, <2>1, <2>2, OrderedKeeps
<1>9. CASE KeepMine(i)
  <2>1. Answered(i, "mine") /\ c.answer # Conflict
      BY <1>1, <1>9 DEF KeepMine, Answered, CallTrust
  <2>2. PICK n \in Nat : n = c.answer
      BY <1>1, <2>1 DEF Answered, Calls
  <2> DEFINE y == [x EXCEPT !.base = n, !.expected = n, !.conflict = FALSE, !.failed = FALSE, !.touched = TRUE]
  <2>3. y \in SessionState /\ y.base = n /\ y.draft = x.draft
      BY DEF SessionState
  <2>4. Save(s, IF x.draft = None THEN y ELSE [y EXCEPT !.draft.base = n], RemoveAt(calls, i))
      BY <1>1, <1>2, <1>3, <1>9, <2>2 DEF KeepMine
  <2> HIDE DEF y
  <2>5. PICK z \in SessionState :
           /\ z = IF x.draft = None THEN y ELSE [y EXCEPT !.draft.base = n]
           /\ z.base = n /\ (BlankDraft(z.draft) => BlankDraft(x.draft))
    <3>1. CASE x.draft = None
        BY <2>3, <3>1
    <3>2. CASE x.draft # None
      <4>1. y.draft \in Draft
          BY <2>3, <3>2 DEF SessionState
      <4>2. PICK d \in Draft : d = [y.draft EXCEPT !.base = n] /\ d.text = y.draft.text
        <5>1. [y.draft EXCEPT !.base = n] \in Draft /\ [y.draft EXCEPT !.base = n].text = y.draft.text
            BY <4>1 DEF Draft
        <5> QED BY <5>1
      <4> DEFINE z == [y EXCEPT !.draft = d]
      <4>3. z \in SessionState /\ z.base = n /\ z.draft = d
          BY <2>3 DEF SessionState
      <4>4. z = [y EXCEPT !.draft.base = n]
          BY <2>3, <4>2
      <4> HIDE DEF z
      <4>5. BlankDraft(z.draft) => BlankDraft(x.draft)
          BY <2>3, <3>2, <4>2, <4>3 DEF BlankDraft
      <4> QED BY <3>2, <4>3, <4>4, <4>5
    <3> QED BY <3>1, <3>2
  <2>6. PICK cs \in Seq(Calls) : cs = RemoveAt(calls, i) /\ Tidy(cs)
      BY <1>4
  <2>7. PICK w \in SessionState :
              /\ note' = [note EXCEPT ![s] = w] /\ Keeps(z, w)
              /\ Tidy(calls') /\ (NoZero(cs) => NoZero(calls'))
      BY <2>4, <2>5, <2>6, SaveTidy
  <2>8. "mine" \in Ops
      BY DEF Ops
  <2>9. /\ n # 0 => Current # 0 /\ NoZero(cs)
        /\ Found => n # 0
        /\ NoZero(calls) => NoZero(cs)
      BY <1>1, <2>1, <2>2, <2>6, <2>8, FirstAnswer
  <2>10. w.base = n /\ (BlankDraft(w.draft) => BlankDraft(x.draft))
      BY <2>5, <2>7 DEF Keeps, BlankDraft
  <2>11. BlankDraft(x.draft) => Found
      BY <1>3 DEF Ordered, Found
  <2>12. kept' \in {kept, None}
      BY <2>4, SaveKept
  <2>13. BlankDraft(kept') => BlankDraft(kept)
      BY <2>12 DEF BlankDraft
  <2>14. Current' = Current
      BY <1>5 DEF Current
  <2> QED BY <2>7, <2>9, <2>10, <2>11, <2>13, <2>14, OrderedOne
<1>10. CASE LoadTheirs(i)
  <2>1. Answered(i, "theirs") /\ c.answer # Conflict /\ calls' = RemoveAt(calls, i) /\ kept' = None
      BY <1>1, <1>10 DEF LoadTheirs, Answered, CallTrust
  <2>2. PICK n \in Nat : n = c.answer
      BY <1>1, <2>1 DEF Answered, Calls
  <2> DEFINE y == [x EXCEPT !.base = n, !.expected = n, !.draft = None, !.touched = TRUE,
                            !.conflict = FALSE, !.failed = FALSE]
  <2>3. y \in SessionState /\ y.base = n /\ y.draft = None
      BY DEF SessionState
  <2>4. note' = [note EXCEPT ![s] = y]
      BY <1>1, <1>2, <1>3, <1>10, <2>2 DEF LoadTheirs, IInv, Types, NoteOK
  <2> HIDE DEF y
  <2>5. "theirs" \in Ops /\ "theirs" # "save" /\ ~BlankDraft(None)
      BY DEF Ops, BlankDraft
  <2> QED BY <1>1, <1>5, <2>1, <2>2, <2>3, <2>4, <2>5, OrderedAnswer
<1>11. CASE CallFails(i)
  <2> DEFINE gone == [x EXCEPT !.loaded = TRUE]
             unsaid == [x EXCEPT !.failed = TRUE, !.saving = None]
             told == [x EXCEPT !.failed = TRUE]
  <2>1. gone \in SessionState /\ Keeps(x, gone) /\ unsaid \in SessionState /\ Keeps(x, unsaid)
        /\ told \in SessionState /\ Keeps(x, told)
      BY DEF SessionState, Keeps
  <2>2. \A op : Failure(x, op) = IF op = "get" THEN gone ELSE IF op = "save" THEN unsaid ELSE told
      BY DEF Failure
  <2> HIDE DEF gone, unsaid, told
  <2>3. PICK y \in SessionState : y = Failure(x, c.op) /\ Keeps(x, y)
      BY <2>1, <2>2
  <2>4. note' = [note EXCEPT ![s] = y] /\ calls' = RemoveAt(calls, i) /\ kept' = kept
      BY <1>1, <1>2, <1>3, <1>11, <2>3 DEF CallFails, IInv, Types, NoteOK
  <2> QED BY <1>3, <1>4, <1>5, <2>3, <2>4, OrderedKeeps
<1> QED BY <1>6, <1>7, <1>8, <1>9, <1>10, <1>11

\* What the daemon does by itself.
LEMMA OrderedQuiet ==
    ASSUME IInv, Ordered, note' = note, calls' = calls, kept' = kept, Len(log) <= Len(log'), IInv'
    PROVE  Ordered'
<1>1. Current # 0 => Current' # 0
    BY DEF IInv, Types, LogOK, Current
<1>2. Tidy(calls') /\ (NoZero(calls) => NoZero(calls'))
    BY DEF Ordered
<1> QED BY <1>1, <1>2, OrderedStays

LEMMA TakeGrows ==
    ASSUME IInv, NEW t, NEW e, NEW by, Take(t, e, by)
    PROVE  Len(log) <= Len(log')
<1>1. Len(log) \in Nat /\ log \in Seq(Revision)
    BY DEF IInv, Types, LogOK
<1>2. log' = log \/ log' = Append(log, [text |-> t, by |-> by])
    BY DEF Take
<1> QED BY <1>1, <1>2

LEMMA OrderedStep == ASSUME IInv, IInv', NotesAssumption, ~May("late"), Ordered, [Next]_vars PROVE Ordered'
<1>1. CASE User
    BY <1>1, OrderedUser
<1>2. CASE Serve
    BY <1>2, OrderedServe DEF Serve, Out
<1>3. CASE Answer
    BY <1>3, OrderedAnswers DEF Answer, Out
<1>4. CASE \E c \in stray : ServeStray(c)
    BY <1>4, OrderedQuiet, TakeGrows DEF ServeStray
<1>5. CASE \E t \in Texts : OtherSaves(t)
  <2>1. note' = note /\ calls' = calls /\ kept' = kept /\ Len(log) <= Len(log')
      BY <1>5, TakeGrows DEF OtherSaves
  <2> QED BY <2>1, OrderedQuiet
<1>6. CASE \E s \in Sessions : Autosave(s)
  <2>1. PICK s \in Sessions : Autosave(s)
      BY <1>6
  <2>2. PICK x \in SessionState : x = note[s] /\ Keeps(note[s], x)
      BY DEF IInv, Types, NoteOK, Keeps
  <2>3. Save(s, x, calls) /\ log' = log
      BY <2>1, <2>2 DEF Autosave, daemon
  <2> QED BY <2>2, <2>3, OrderedSave
<1>7. CASE MissNotice \/ UNCHANGED vars
  <2>1. note' = note /\ calls' = calls /\ kept' = kept /\ log' = log
      BY <1>7 DEF MissNotice, vars, daemon
  <2>2. Len(log) <= Len(log')
      BY <2>1 DEF IInv, Types, LogOK
  <2> QED BY <2>1, <2>2, OrderedQuiet
<1>8. CASE Notice \/ Drop \/ Reconnect
  <2>1. kept' = kept /\ log' = log
      BY <1>8 DEF Notice, Drop, Reconnect, daemon
  <2>2. CASE note' = note /\ calls' = calls
    <3>1. Len(log) <= Len(log')
        BY <2>1 DEF IInv, Types, LogOK
    <3> QED BY <2>1, <2>2, <3>1, OrderedQuiet
  <2>3. CASE shown # 0 /\ Sync(shown, note[shown])
    <3>1. PICK s \in Sessions : s = shown
        BY <2>3, Shown
    <3>2. PICK x \in SessionState : x = note[s] /\ Keeps(note[s], x)
        BY DEF IInv, Types, NoteOK, Keeps
    <3> QED BY <2>1, <2>3, <3>1, <3>2, OrderedSync
  <2> QED BY <1>8, <2>2, <2>3 DEF Notice, Drop, Reconnect
<1> QED BY <1>1, <1>2, <1>3, <1>4, <1>5, <1>6, <1>7, <1>8 DEF Next

LEMMA OrderedInit == ASSUME NotesAssumption, Init PROVE Ordered
<1>1. calls = << >> /\ kept = None /\ \A s \in Sessions : note[s].base = 0 /\ note[s].draft = None
    BY DEF Init, Fresh
<1> QED BY <1>1 DEF Ordered, Tidy, Found, BlankDraft

-----------------------------------------------------------------------------
(* What is typed is kept.  Without "reopen" only the latest session ever   *)
(* has anything to do, and without "revert" it does not take back a text   *)
(* whose save may be under way.  Then the text typed last is the one that  *)
(* was kept, it is what the draft says, and a save that is out either says *)
(* it too, or was refused, or will find that the session was touched since.*)

Plain == left.may \cap {"reopen", "revert"} = {}
Asked(cs) == {cs[i] : i \in 1 .. Len(cs)}

Latest ==
    /\ shown \in {0, opened}
    /\ \A c \in Asked(calls) : c.by = opened
    /\ \A s \in Sessions : s # opened => ~note[s].timer

Carries(x, c) == c.op = "save" => x.touched \/ c.answer = Conflict \/ (c.answer = None /\ c.text = unsaved)
HeldBy(x) ==
    /\ x.draft # None => x.draft.text = unsaved
    /\ x.saving # None => x.draft # None
    /\ \A c \in Asked(calls) : Carries(x, c)
Held ==
    unsaved # None /\ ~Dropped(unsaved) =>
        /\ kept # None /\ kept.text = unsaved
        /\ opened \in Sessions /\ HeldBy(note[opened])

HInv == IInv /\ (May("late") \/ Ordered) /\ (Plain => Latest /\ Held)

\* What no step changes.
Fixed == target' = target /\ left'.may = left.may

LEMMA HeldNothingLost == HInv => NothingLost
  BY DEF HInv, Plain, Held, NothingLost

LEMMA FixedDropped == ASSUME Fixed, NEW t PROVE Dropped(t)' <=> Dropped(t)
  BY DEF Fixed, Dropped, May

\* A session with the note as it is drops nothing, unless answers come late.
LEMMA Undropped ==
    ASSUME May("late") \/ Ordered, NEW s \in Sessions, NEW x, x.base = note[s].base, x.draft = note[s].draft
    PROVE  May("late") \/ ~Drops(x)
  BY DEF Ordered, Drops, CanSave, BlankDraft

\* The calls as a set.
LEMMA AskedAll ==
    ASSUME NEW cs \in Seq(Calls)
    PROVE  /\ Asked(cs) \subseteq Calls
           /\ \A i \in 1 .. Len(cs) : cs[i] \in Asked(cs) /\ Asked(RemoveAt(cs, i)) \subseteq Asked(cs)
           /\ \A c \in Calls : Asked(Append(cs, c)) = Asked(cs) \union {c}
           /\ \A i \in 1 .. Len(cs) : \A c \in Calls : Asked([cs EXCEPT ![i] = c]) \subseteq Asked(cs) \union {c}
<1>1. Asked(cs) \subseteq Calls /\ \A i \in 1 .. Len(cs) : cs[i] \in Asked(cs)
    BY DEF Asked
<1>2. Len(cs) \in Nat
    OBVIOUS
<1>3. ASSUME NEW i \in 1 .. Len(cs) PROVE Asked(RemoveAt(cs, i)) \subseteq Asked(cs)
  <2>1. /\ Len(RemoveAt(cs, i)) = Len(cs) - 1
        /\ \A j \in 1 .. (Len(cs) - 1) : RemoveAt(cs, i)[j] = IF j < i THEN cs[j] ELSE cs[j + 1]
      BY Removed
  <2>2. ASSUME NEW j \in 1 .. Len(RemoveAt(cs, i)) PROVE RemoveAt(cs, i)[j] \in Asked(cs)
    <3>1. PICK k \in 1 .. Len(cs) : RemoveAt(cs, i)[j] = cs[k]
        BY <1>2, <2>1
    <3> QED BY <1>1, <3>1
  <2> QED BY <2>2 DEF Asked
<1>4. ASSUME NEW c \in Calls PROVE Asked(Append(cs, c)) = Asked(cs) \union {c}
  <2>1. Len(Append(cs, c)) = Len(cs) + 1 /\ Append(cs, c)[Len(cs) + 1] = c
        /\ \A i \in 1 .. Len(cs) : Append(cs, c)[i] = cs[i]
      OBVIOUS
  <2> QED BY <1>2, <2>1 DEF Asked
<1>5. ASSUME NEW i \in 1 .. Len(cs), NEW c \in Calls PROVE Asked([cs EXCEPT ![i] = c]) \subseteq Asked(cs) \union {c}
  <2>1. Len([cs EXCEPT ![i] = c]) = Len(cs) /\ \A j \in 1 .. Len(cs) : [cs EXCEPT ![i] = c][j] = IF j = i THEN c ELSE cs[j]
      BY <1>2
  <2> QED BY <2>1 DEF Asked
<1> QED BY <1>1, <1>3, <1>4, <1>5

\* The session that answers is the latest one, and without a save of its own
\* no save is out.
LEMMA LatestAsks ==
    ASSUME IInv, Latest
    PROVE  /\ calls \in Seq(Calls) /\ Asked(calls) \subseteq Calls
           /\ \A i \in 1 .. Len(calls) : calls[i] \in Asked(calls) /\ calls[i] \in Calls /\ calls[i].by = opened
           /\ calls # << >> => opened \in Sessions
           /\ opened \in Sessions /\ note[opened].saving = None => \A c \in Asked(calls) : c.op # "save"
<1>1. calls \in Seq(Calls)
    BY DEF IInv, Types, CallsOK
<1>2. Asked(calls) \subseteq Calls /\ \A i \in 1 .. Len(calls) : calls[i] \in Asked(calls) /\ calls[i].by = opened
    BY <1>1, AskedAll DEF Latest
<1>3. calls # << >> => opened \in Sessions
  <2> SUFFICES ASSUME calls # << >> PROVE opened \in Sessions
      OBVIOUS
  <2>1. 1 \in 1 .. Len(calls)
      BY <1>1
  <2>2. calls[1] \in Calls
      BY <1>1, <2>1
  <2> QED BY <1>2, <2>1, <2>2 DEF Calls
<1>4. ASSUME opened \in Sessions, note[opened].saving = None PROVE \A c \in Asked(calls) : c.op # "save"
  <2>1. \A i \in 1 .. Len(calls) : ~IsSave(calls[i], opened)
      BY <1>4 DEF IInv, OneSave, Match
  <2> QED BY <1>2, <2>1 DEF Asked, IsSave
<1> QED BY <1>1, <1>2, <1>3, <1>4

\* A session that goes on holding what it held.
Tame(x, y) ==
    /\ x.draft = None <=> y.draft = None
    /\ x.draft # None => y.draft.text = x.draft.text
    /\ y.saving # None => x.saving # None
    /\ x.touched => y.touched

LEMMA HeldOn ==
    ASSUME IInv, IInv', Fixed, Held, kept' = kept, opened' = opened, unsaved' \in {unsaved, None},
           opened \in Sessions => Tame(note[opened], note'[opened]),
           \A c \in Asked(calls') : c.op = "save" => c \in Asked(calls)
    PROVE  Held'
<1> SUFFICES ASSUME unsaved' # None, ~Dropped(unsaved)'
             PROVE  /\ kept' # None /\ kept'.text = unsaved' /\ opened' \in Sessions
                    /\ HeldBy(note[opened])'
    BY DEF Held, HeldBy, Carries
<1>9. unsaved' = unsaved /\ ~Dropped(unsaved)
    BY DEF Fixed, Dropped, May
<1>1. unsaved' = unsaved /\ kept # None /\ kept.text = unsaved /\ opened \in Sessions /\ HeldBy(note[opened])
    BY <1>9 DEF Held
<1>2. PICK x : x = note[opened]
    OBVIOUS
<1>3. PICK y : y = note'[opened]
    OBVIOUS
<1>4. HeldBy(x) /\ Tame(x, y)
    BY <1>1, <1>2, <1>3
<1>5. y.draft # None => y.draft.text = unsaved
    BY <1>4 DEF HeldBy, Tame
<1>6. y.saving # None => y.draft # None
    BY <1>4 DEF HeldBy, Tame
<1>7. \A c \in Asked(calls') : c.op = "save" => y.touched \/ c.answer = Conflict \/ (c.answer = None /\ c.text = unsaved)
    BY <1>4 DEF HeldBy, Tame, Carries
<1>8. HeldBy(note[opened])'
    BY <1>1, <1>3, <1>5, <1>6, <1>7 DEF HeldBy, Carries
<1> QED BY <1>1, <1>8

LEMMA LatestOn ==
    ASSUME Latest, opened' = opened, shown' \in {0, shown}, \A c \in Asked(calls') : c.by = opened,
           \A s \in Sessions : s # opened => note'[s] = note[s]
    PROVE  Latest'
  BY DEF Latest

\* Only the latest session changes.
LEMMA SessionOn ==
    ASSUME IInv, IInv', Fixed, Latest, Held, kept' = kept, opened' = opened, shown' \in {0, shown}, unsaved' \in {unsaved, None},
           opened \in Sessions,
           NEW y \in SessionState, note' = [note EXCEPT ![opened] = y], Tame(note[opened], y),
           \A c \in Asked(calls') : c.by = opened /\ (c.op = "save" => c \in Asked(calls))
    PROVE  Latest' /\ Held'
<1>1. note'[opened] = y /\ \A s \in Sessions : s # opened => note'[s] = note[s]
    BY DEF IInv, Types, NoteOK
<1> QED BY <1>1, HeldOn, LatestOn

\* No session changes.
LEMMA NoteOn ==
    ASSUME IInv, IInv', Fixed, Latest, Held, kept' = kept, opened' = opened, shown' \in {0, shown}, unsaved' \in {unsaved, None},
           note' = note, \A c \in Asked(calls') : c.by = opened /\ (c.op = "save" => c \in Asked(calls))
    PROVE  Latest' /\ Held'
  BY HeldOn, LatestOn DEF Tame

\* A session that reads the note, or does nothing.
LEMMA SyncOn ==
    ASSUME IInv, IInv', Fixed, NotesAssumption, Latest, Held, kept' = kept, opened' = opened, shown' = shown, unsaved' = unsaved,
           \/ shown # 0 /\ Sync(shown, note[shown])
           \/ note' = note /\ calls' = calls
    PROVE  Latest' /\ Held'
<1>1. CASE note' = note /\ calls' = calls
    BY <1>1, NoteOn DEF Latest
<1>2. CASE shown # 0 /\ Sync(shown, note[shown])
  <2>1. shown = opened /\ opened \in Sessions
      BY <1>2, Shown DEF Latest
  <2>2. PICK x \in SessionState : x = note[opened]
      BY <2>1 DEF IInv, Types, NoteOK
  <2>3. PICK y \in SessionState : note' = [note EXCEPT ![opened] = y] /\ Tame(x, y)
    <3>1. CASE link'
        BY <1>2, <2>1, <2>2, <3>1 DEF Sync, Tame
    <3>2. CASE ~link'
      <4>1. [x EXCEPT !.loaded = TRUE] \in SessionState /\ Tame(x, [x EXCEPT !.loaded = TRUE])
          BY DEF SessionState, Tame
      <4> QED BY <1>2, <2>1, <2>2, <3>2, <4>1 DEF Sync
    <3> QED BY <3>1, <3>2
  <2>4. PICK c \in Calls : c = Call(opened, "get", Blank, 0) /\ c.by = opened /\ c.op = "get"
      BY <2>1, CallType DEF NotesAssumption, Ops
  <2>5. calls' = calls \/ calls' = Append(calls, c)
      BY <1>2, <2>1, <2>4 DEF Sync
  <2>6. Asked(calls') \subseteq Asked(calls) \union {c}
      BY <2>5, LatestAsks, AskedAll
  <2>7. \A d \in Asked(calls') : d.by = opened /\ (d.op = "save" => d \in Asked(calls))
      BY <2>4, <2>6 DEF Latest
  <2> QED BY <2>1, <2>2, <2>3, <2>7, SessionOn
<1> QED BY <1>1, <1>2

\* A session that saves what it holds, with the calls as they are or one less.
LEMMA SaveOn ==
    ASSUME IInv, IInv', Fixed, NotesAssumption, Latest, Held, opened' = opened, shown' \in {0, shown}, unsaved' = unsaved,
           opened \in Sessions, NEW x \in SessionState, Tame(note[opened], x), x.saving = note[opened].saving,
           NEW cs \in Seq(Calls), Asked(cs) \subseteq Asked(calls), Save(opened, x, cs), May("late") \/ ~Drops(x)
    PROVE  Latest' /\ Held'
<1>0. CASE Drops(x)
  <2>1. May("late") /\ target = "thread" /\ x.draft # None /\ x.draft.text = Blank
      BY <1>0 DEF Drops, CanSave
  <2> DEFINE y == [x EXCEPT !.draft = None, !.timer = FALSE, !.failed = FALSE]
  <2>2. y \in SessionState
      BY DEF SessionState
  <2>3. note' = [note EXCEPT ![opened] = y] /\ calls' = cs
      BY <1>0 DEF Save
  <2> HIDE DEF y
  <2>4. \A s \in Sessions : s # opened => note'[s] = note[s]
      BY <2>2, <2>3 DEF IInv, Types, NoteOK
  <2>5. Latest'
      BY <2>3, <2>4, LatestOn DEF Latest
  <2>6. ASSUME unsaved # None, ~Dropped(unsaved) PROVE FALSE
    <3>1. x.draft.text = unsaved
        BY <2>1, <2>6 DEF Held, HeldBy, Tame
    <3> QED BY <2>1, <2>6, <3>1 DEF Dropped
  <2>7. Held'
    <3>1. Dropped(unsaved)' <=> Dropped(unsaved)
        BY FixedDropped DEF Fixed, Dropped, May
    <3> QED BY <2>6, <3>1 DEF Held
  <2> QED BY <2>5, <2>7
<1>3. ~Drops(x) => kept' = kept /\ Sends(opened, x, cs)
    BY DEF Save
<1>1. CASE ~Drops(x) /\ ~(CanSave(x) /\ Reaches(x))
  <2>1. PICK f \in BOOLEAN : f = (CanSave(x) \/ x.failed)
      BY Zenon DEF CanSave, SessionState
  <2> DEFINE y == [x EXCEPT !.timer = FALSE, !.failed = f]
  <2>2. y \in SessionState /\ y.draft = x.draft /\ y.saving = x.saving /\ y.touched = x.touched
      BY DEF SessionState
  <2>3. note' = [note EXCEPT ![opened] = y] /\ calls' = cs /\ kept' = kept
      BY <1>1, <1>3, <2>1 DEF Sends
  <2> HIDE DEF y
  <2>4. Tame(note[opened], y)
      BY <2>2 DEF Tame
  <2>5. \A c \in Asked(calls') : c.by = opened /\ (c.op = "save" => c \in Asked(calls))
      BY <2>3 DEF Latest
  <2> QED BY <2>2, <2>3, <2>4, <2>5, SessionOn
<1>2. CASE ~Drops(x) /\ CanSave(x) /\ Reaches(x)
  <2> DEFINE y == [x EXCEPT !.saving = x.draft, !.touched = FALSE, !.timer = FALSE, !.failed = FALSE]
  <2>1. y \in SessionState /\ y.draft = x.draft /\ y.saving = x.draft
      BY DEF SessionState
  <2>2. x.saving = None /\ x.draft # None /\ x.draft.text \in Texts /\ x.expected \in Nat
      BY <1>2 DEF CanSave, SessionState, Draft
  <2>3. PICK c \in Calls : /\ c = Call(opened, "save", x.draft.text, x.expected) /\ c.by = opened
                           /\ c.answer = None /\ c.text = x.draft.text
    <3>1. \A t, e : Call(opened, "save", t, e).text = t
        BY DEF Call
    <3> QED BY <2>2, <3>1, CallType DEF Ops
  <2>4. note' = [note EXCEPT ![opened] = y] /\ calls' = Append(cs, c) /\ kept' = kept
      BY <1>2, <1>3, <2>3 DEF Sends
  <2> HIDE DEF y
  <2>5. note'[opened] = y /\ \A s \in Sessions : s # opened => note'[s] = note[s]
      BY <2>4 DEF IInv, Types, NoteOK
  <2>6. Asked(calls') = Asked(cs) \union {c}
      BY <2>4, AskedAll
  <2>7. Latest'
      BY <2>3, <2>5, <2>6, LatestOn DEF Latest
  <2>8. \A d \in Asked(cs) : d.op # "save"
      BY <2>2, LatestAsks
  <2>9. ASSUME unsaved # None, ~Dropped(unsaved)
        PROVE  kept # None /\ kept.text = unsaved /\ x.draft.text = unsaved
      BY <2>2, <2>9 DEF Held, HeldBy, Tame
  <2>10. ASSUME unsaved # None, ~Dropped(unsaved), NEW d \in Asked(calls'), d.op = "save"
         PROVE d.answer = None /\ d.text = unsaved
      BY <2>3, <2>6, <2>8, <2>9, <2>10
  <2>12. Dropped(unsaved)' <=> Dropped(unsaved)
      BY DEF Fixed, Dropped, May
  <2>11. Held'
      BY <2>1, <2>2, <2>4, <2>5, <2>9, <2>10, <2>12 DEF Held, HeldBy, Carries
  <2> QED BY <2>7, <2>11
<1> QED BY <1>0, <1>1, <1>2

\* The session that is left, and every other before it, has nothing to do when
\* the note is opened again.
LEMMA OpenHolds ==
    ASSUME IInv, IInv', Fixed, NotesAssumption, Plain, Latest, Held, Open PROVE Latest' /\ Held'
<1>1. opened' = opened + 1 /\ shown' = opened' /\ opened' \in Sessions /\ opened \in Nat /\ kept' = kept /\ unsaved' = unsaved
    BY DEF Open, history, IInv, Types, ScreenOK, Sessions, NotesAssumption
<1>2. \A s \in 1 .. opened : ~Busy(s)
    BY DEF Open, Plain, May
<1>3. calls = << >>
  <2> SUFFICES ASSUME calls # << >> PROVE FALSE
      OBVIOUS
  <2>1. opened \in Sessions /\ calls \in Seq(Calls) /\ \A i \in 1 .. Len(calls) : calls[i].by = opened
      BY LatestAsks
  <2>2. 1 \in 1 .. Len(calls)
      BY <2>1
  <2>3. opened \in 1 .. opened /\ Busy(opened)
      BY <2>1, <2>2 DEF Busy, Sessions
  <2> QED BY <1>2, <2>3
<1>4. PICK s \in Sessions : s = opened'
    BY <1>1
<1>5. Fresh \in SessionState /\ Fresh.draft = None /\ Fresh.saving = None
    BY DEF Fresh, SessionState
<1>6. PICK y \in SessionState : note' = [note EXCEPT ![s] = y] /\ y.draft = None /\ y.saving = None
  <2>1. \E y \in SessionState : note' = [note EXCEPT ![s] = y] /\ Keeps(Fresh, y) /\ y.saving = Fresh.saving
      BY <1>4, <1>5, SyncFacts DEF Open
  <2> QED BY <1>5, <2>1 DEF Keeps
<1>7. note'[s] = y /\ \A r \in Sessions : r # s => note'[r] = note[r]
    BY <1>6 DEF IInv, Types, NoteOK
<1>8. PICK c \in Calls : c = Call(s, "get", Blank, 0) /\ c.by = s /\ c.op = "get"
    BY CallType DEF NotesAssumption, Ops
<1>9. \A d \in Asked(calls') : d = c
  <2>1. calls' = calls \/ calls' = Append(calls, c)
      BY <1>4, <1>8 DEF Open, Sync
  <2>2. calls \in Seq(Calls) /\ Asked(calls) = {}
      BY <1>3 DEF Asked
  <2>3. Asked(Append(calls, c)) = Asked(calls) \union {c}
      BY <2>2, AskedAll
  <2>4. Asked(calls') = Asked(calls) \/ Asked(calls') = Asked(calls) \union {c}
      BY <2>1, <2>3
  <2> QED BY <2>2, <2>4
<1>10. ASSUME NEW r \in Sessions, r # s PROVE ~note'[r].timer
  <2>1. CASE r \in 1 .. opened
      BY <1>2, <1>7, <1>10, <2>1 DEF Busy
  <2>2. CASE r \notin 1 .. opened
    <3>1. r > opened
        BY <1>1, <2>2 DEF Sessions
    <3>2. note[r] = Fresh
        BY <3>1 DEF IInv, Trust, SessionsTrusted, SessionTrust
    <3> QED BY <1>7, <1>10, <3>2 DEF Fresh
  <2> QED BY <2>1, <2>2
<1>11. Latest'
    BY <1>1, <1>4, <1>8, <1>9, <1>10 DEF Latest
<1>12. Held'
  <2>1. unsaved # None /\ ~Dropped(unsaved) => kept # None /\ kept.text = unsaved
      BY DEF Held
  <2>4. Dropped(unsaved)' <=> Dropped(unsaved)
      BY <1>1 DEF Fixed, Dropped, May
  <2>2. \A d \in Asked(calls') : d.op # "save"
      BY <1>8, <1>9
  <2>3. note'[opened'].draft = None /\ note'[opened'].saving = None /\ opened' \in Sessions
      BY <1>4, <1>6, <1>7
  <2> QED BY <1>1, <2>1, <2>2, <2>3, <2>4 DEF Held, HeldBy, Carries
<1> QED BY <1>11, <1>12

LEMMA LeaveHolds ==
    ASSUME IInv, IInv', Fixed, NotesAssumption, May("late") \/ Ordered, Latest, Held, Leave PROVE Latest' /\ Held'
<1>1. shown' = 0 /\ opened' = opened /\ unsaved' = unsaved
    BY DEF Leave, history
<1>2. shown = opened /\ opened \in Sessions
    BY Shown DEF Leave, Latest
<1>3. PICK x \in SessionState : x = note[opened]
    BY <1>2 DEF IInv, Types, NoteOK
<1>4. PICK cs \in Seq(Calls) : cs = calls
    BY LatestAsks
<1>5. CASE note[shown].failed
  <2> DEFINE y == [x EXCEPT !.timer = FALSE]
  <2>1. y \in SessionState /\ Tame(x, y)
      BY DEF SessionState, Tame
  <2>2. note' = [note EXCEPT ![opened] = y] /\ calls' = calls /\ kept' = kept
      BY <1>2, <1>3, <1>5 DEF Leave
  <2> HIDE DEF y
  <2> QED BY <1>1, <1>2, <1>3, <2>1, <2>2, SessionOn DEF Latest
<1>6. CASE ~note[shown].failed
  <2>1. Save(opened, x, cs) /\ Tame(note[opened], x) /\ (May("late") \/ ~Drops(x))
      BY <1>2, <1>3, <1>4, <1>6, Undropped DEF Leave, Tame
  <2> QED BY <1>1, <1>2, <1>3, <1>4, <2>1, SaveOn
<1> QED BY <1>5, <1>6

\* Without a save whose outcome is open, nothing that was typed is left.
LEMMA EditBackHolds ==
    ASSUME IInv, IInv', Fixed, NotesAssumption, Plain, Latest, Held, EditBack PROVE Latest' /\ Held'
<1>1. unsaved' = None
    BY DEF EditBack, Plain, May
<1>2. shown = opened /\ opened' = opened /\ shown' = shown /\ calls' = calls
    BY Shown DEF EditBack, Latest, screen
<1>3. \A s \in Sessions : s # opened => note'[s] = note[s]
    BY <1>2 DEF EditBack, IInv, Types, NoteOK
<1> QED BY <1>1, <1>2, <1>3, LatestOn DEF Latest, Held

LEMMA EditHolds ==
    ASSUME IInv, IInv', Fixed, NotesAssumption, Latest, NEW t \in Texts, Edit(t) PROVE Latest' /\ Held'
<1>1. shown = opened /\ opened \in Sessions
    BY Shown DEF Edit, Latest
<1>2. opened' = opened /\ shown' = shown /\ calls' = calls
    BY DEF Edit, screen
<1>3. PICK x \in SessionState : x = note[opened]
    BY <1>1 DEF IInv, Types, NoteOK
<1>4. PICK d \in Draft : d.text = t /\ d = [text |-> t, base |-> IF x.draft = None THEN x.expected ELSE x.draft.base]
  <2>1. x.draft # None => x.draft.base \in Nat
      BY DEF SessionState, Draft
  <2> QED BY <2>1 DEF Draft, SessionState
<1>5. d # None /\ kept' = d /\ unsaved' = t
    BY <1>1, <1>3, <1>4 DEF Edit, NotesAssumption
<1>6. PICK f \in BOOLEAN : f = (x.conflict /\ x.failed)
    BY Zenon DEF SessionState
<1>7. PICK r \in BOOLEAN : r = (~x.conflict \/ x.timer)
    BY Zenon DEF SessionState
<1> DEFINE y == [x EXCEPT !.draft = d, !.touched = TRUE, !.failed = f, !.timer = r]
<1>8. y \in SessionState /\ y.draft = d /\ y.touched
    BY DEF SessionState
<1>9. note' = [note EXCEPT ![opened] = y]
    BY <1>1, <1>3, <1>4, <1>6, <1>7 DEF Edit
<1> HIDE DEF y
<1>10. note'[opened] = y /\ \A s \in Sessions : s # opened => note'[s] = note[s]
    BY <1>1, <1>9 DEF IInv, Types, NoteOK
<1>11. Latest'
    BY <1>2, <1>10, LatestOn DEF Latest
<1>12. Held'
    BY <1>1, <1>2, <1>4, <1>5, <1>8, <1>10 DEF Held, HeldBy, Carries
<1> QED BY <1>11, <1>12

\* The timer, flush and retry.
LEMMA SavingHolds ==
    ASSUME IInv, IInv', Fixed, NotesAssumption, Latest, Held, opened \in Sessions, NEW x \in SessionState,
           Tame(note[opened], x), x.saving = note[opened].saving, Save(opened, x, calls), May("late") \/ ~Drops(x),
           UNCHANGED <<target, daemon, link, news, screen, left, history>>
    PROVE  Latest' /\ Held'
<1>1. shown' = shown /\ opened' = opened /\ unsaved' = unsaved
    BY DEF screen, history
<1>2. PICK cs \in Seq(Calls) : cs = calls
    BY LatestAsks
<1> QED BY <1>1, <1>2, SaveOn

LEMMA AutosaveHolds ==
    ASSUME IInv, IInv', Fixed, NotesAssumption, May("late") \/ Ordered, Latest, Held, NEW s \in Sessions, Autosave(s) PROVE Latest' /\ Held'
<1>1. s = opened
    BY DEF Autosave, Latest
<1>2. PICK x \in SessionState : x = note[opened] /\ Tame(note[opened], x)
    BY <1>1 DEF IInv, Types, NoteOK, Tame
<1>3. May("late") \/ ~Drops(x)
    BY <1>1, <1>2, Undropped
<1> QED BY <1>1, <1>2, <1>3, SavingHolds DEF Autosave

LEMMA FlushHolds ==
    ASSUME IInv, IInv', Fixed, NotesAssumption, May("late") \/ Ordered, Latest, Held, Flush PROVE Latest' /\ Held'
<1>1. shown = opened /\ opened \in Sessions
    BY Shown DEF Flush, Latest
<1>2. PICK x \in SessionState : x = note[opened] /\ Tame(note[opened], x)
    BY <1>1 DEF IInv, Types, NoteOK, Tame
<1>3. May("late") \/ ~Drops(x)
    BY <1>1, <1>2, Undropped
<1> QED BY <1>1, <1>2, <1>3, SavingHolds DEF Flush

LEMMA FailedTame ==
    ASSUME NEW x \in SessionState, NEW f \in BOOLEAN
    PROVE  \E y \in SessionState :
              y = [x EXCEPT !.failed = f] /\ Tame(x, y) /\ y.saving = x.saving /\ y.base = x.base /\ y.draft = x.draft
<1> DEFINE y == [x EXCEPT !.failed = f]
<1>1. y \in SessionState /\ Tame(x, y) /\ y.saving = x.saving /\ y.base = x.base /\ y.draft = x.draft
    BY DEF SessionState, Tame
<1> QED BY <1>1

LEMMA RetryHolds ==
    ASSUME IInv, IInv', Fixed, NotesAssumption, May("late") \/ Ordered, Latest, Held, Retry PROVE Latest' /\ Held'
<1>1. shown = opened /\ opened \in Sessions
    BY Shown DEF Retry, Latest
<1>2. PICK x \in SessionState : x = note[opened]
    BY <1>1 DEF IInv, Types, NoteOK
<1>3. PICK y \in SessionState :
         y = [x EXCEPT !.failed = FALSE] /\ Tame(x, y) /\ y.saving = x.saving /\ y.base = x.base /\ y.draft = x.draft
    BY FailedTame
<1>4. Save(opened, y, calls) /\ UNCHANGED <<target, daemon, link, news, screen, left, history>>
    BY <1>1, <1>2, <1>3 DEF Retry
<1>5. May("late") \/ ~Drops(y)
    BY <1>1, <1>2, <1>3, Undropped
<1> QED BY <1>1, <1>2, <1>3, <1>4, <1>5, SavingHolds

LEMMA ChooseHolds ==
    ASSUME IInv, IInv', Fixed, NotesAssumption, Latest, Held, NEW op \in {"mine", "theirs"}, Choose(op)
    PROVE  Latest' /\ Held'
<1>1. shown = opened /\ opened \in Sessions
    BY Shown DEF Choose, Latest
<1>2. opened' = opened /\ shown' = shown /\ kept' = kept /\ unsaved' = unsaved
    BY DEF Choose, screen, history
<1>3. CASE link
  <2>1. PICK c \in Calls : c = Call(opened, op, Blank, 0) /\ c.by = opened /\ c.op = op
      BY <1>1, CallType DEF NotesAssumption, Ops
  <2>2. calls' = Append(calls, c) /\ note' = note
      BY <1>1, <1>3, <2>1 DEF Choose
  <2>3. Asked(calls') = Asked(calls) \union {c}
      BY <2>2, LatestAsks, AskedAll
  <2>4. \A d \in Asked(calls') : d.by = opened /\ (d.op = "save" => d \in Asked(calls))
      BY <2>1, <2>3 DEF Latest
  <2> QED BY <1>2, <2>2, <2>4, NoteOn
<1>4. CASE ~link
  <2>1. PICK x \in SessionState : x = note[opened]
      BY <1>1 DEF IInv, Types, NoteOK
  <2>2. PICK y \in SessionState : y = [x EXCEPT !.failed = TRUE] /\ Tame(x, y)
      BY FailedTame
  <2>3. note' = [note EXCEPT ![opened] = y] /\ calls' = calls
      BY <1>1, <1>4, <2>1, <2>2 DEF Choose
  <2> QED BY <1>1, <1>2, <2>1, <2>2, <2>3, SessionOn DEF Latest
<1> QED BY <1>3, <1>4

\* The calls that are left when one was answered.
LEMMA AnswerLeaves ==
    ASSUME IInv, Latest, NEW i \in 1 .. Len(calls)
    PROVE  /\ calls[i] \in Calls /\ calls[i] \in Asked(calls) /\ calls[i].by = opened /\ opened \in Sessions
           /\ RemoveAt(calls, i) \in Seq(Calls) /\ Asked(RemoveAt(calls, i)) \subseteq Asked(calls)
<1>1. calls[i] \in Calls /\ calls[i] \in Asked(calls) /\ calls[i].by = opened /\ calls \in Seq(Calls)
    BY LatestAsks
<1>2. opened \in Sessions
    BY <1>1 DEF Calls
<1> QED BY <1>1, <1>2, Removed, AskedAll

LEMMA ReadAnsweredHolds ==
    ASSUME IInv, IInv', Fixed, NotesAssumption, Latest, Held, NEW i \in 1 .. Len(calls), ReadAnswered(i)
    PROVE  Latest' /\ Held'
<1>1. /\ calls[i] \in Calls /\ calls[i] \in Asked(calls) /\ calls[i].by = opened /\ opened \in Sessions
      /\ Asked(calls') \subseteq Asked(calls)
    BY AnswerLeaves DEF ReadAnswered
<1>2. opened' = opened /\ shown' = shown /\ kept' = kept /\ unsaved' = unsaved
    BY DEF ReadAnswered, screen
<1>3. PICK n \in Nat : n = calls[i].answer
  <2>1. calls[i].op = "get" /\ calls[i].answer # None /\ CallTrust(calls[i])
      BY Caller DEF ReadAnswered, Answered
  <2> QED BY <2>1, AnswerFacts DEF CallTrust
<1>4. PICK x \in SessionState : x = note[opened]
    BY <1>1 DEF IInv, Types, NoteOK
<1> DEFINE read == IF x.draft = None
                   THEN IF kept # None THEN Restore(x, n) ELSE [x EXCEPT !.base = n, !.expected = n]
                   ELSE IF x.saving = None THEN Underneath(x, n) ELSE x
<1>5. note' = [note EXCEPT ![opened] = [read EXCEPT !.loaded = TRUE]]
    BY <1>1, <1>3, <1>4 DEF ReadAnswered
<1>6. \A s \in Sessions : s # opened => note'[s] = note[s]
    BY <1>5 DEF IInv, Types, NoteOK
<1>7. Latest'
    BY <1>1, <1>2, <1>6, LatestOn DEF Latest
<1>10. Dropped(unsaved)' <=> Dropped(unsaved)
    BY <1>2 DEF Fixed, Dropped, May
<1>8. ASSUME unsaved # None, ~Dropped(unsaved) PROVE Held'
  <2>1. kept # None /\ kept \in Draft /\ kept.text = unsaved /\ HeldBy(x)
      BY <1>4, <1>8 DEF Held, IInv, Types, KeptOK
  <2>2. CASE x.draft = None
    <3>1. x.saving = None /\ \A c \in Asked(calls) : c.op # "save"
        BY <1>1, <1>4, <2>1, <2>2, LatestAsks DEF HeldBy
    <3>2. PICK y \in SessionState : y = Restore(x, n) /\ y.draft = kept /\ y.saving = None
        BY <2>1, <3>1, RestoreFacts
    <3> DEFINE z == [y EXCEPT !.loaded = TRUE]
    <3>3. z.draft = kept /\ z.saving = None
        BY <3>2 DEF SessionState
    <3>4. note'[opened] = z
        BY <1>1, <1>5, <2>1, <2>2, <3>2 DEF IInv, Types, NoteOK
    <3> HIDE DEF z
    <3>5. note'[opened].draft = kept /\ note'[opened].saving = None /\ \A c \in Asked(calls') : c.op # "save"
        BY <1>1, <3>1, <3>3, <3>4
    <3> QED BY <1>1, <1>2, <2>1, <3>5 DEF Held, HeldBy, Carries
  <2>3. CASE x.draft # None
    <3>1. PICK y \in SessionState : /\ y = IF x.saving = None THEN Underneath(x, n) ELSE x
                                   /\ y.draft = x.draft /\ y.saving = x.saving /\ y.touched = x.touched
      <4>1. Underneath(x, n) \in SessionState /\ Underneath(x, n).draft = x.draft /\ Underneath(x, n).saving = x.saving
          BY UnderneathFacts
      <4>2. Underneath(x, n).touched = x.touched
          BY DEF Underneath, SessionState
      <4> QED BY <4>1, <4>2
    <3> DEFINE z == [y EXCEPT !.loaded = TRUE]
    <3>2. z \in SessionState /\ z.draft = x.draft /\ z.saving = x.saving /\ z.touched = x.touched
        BY <3>1 DEF SessionState
    <3>3. note' = [note EXCEPT ![opened] = z]
        BY <1>5, <2>3, <3>1
    <3> HIDE DEF z
    <3>4. Tame(note[opened], z)
        BY <1>4, <3>2 DEF Tame
    <3> QED BY <1>1, <1>2, <3>2, <3>3, <3>4, SessionOn DEF Latest
  <2> QED BY <2>2, <2>3
<1>9. unsaved = None \/ Dropped(unsaved) => Held'
    BY <1>2, <1>10 DEF Held
<1> QED BY <1>7, <1>8, <1>9

\* A save that was taken: if something was typed since, it is kept; if not, the
\* save carried all of it.
LEMMA SaveTakenHolds ==
    ASSUME IInv, IInv', Fixed, NotesAssumption, Latest, Held, NEW i \in 1 .. Len(calls), SaveTaken(i)
    PROVE  Latest' /\ Held'
<1>1. /\ calls[i] \in Calls /\ calls[i] \in Asked(calls) /\ calls[i].by = opened /\ opened \in Sessions
      /\ Asked(calls') \subseteq Asked(calls)
    BY AnswerLeaves DEF SaveTaken
<1>2. opened' = opened /\ shown' = shown /\ unsaved' = unsaved
    BY DEF SaveTaken, screen
<1>3. calls[i].op = "save" /\ calls[i].answer # None /\ calls[i].answer # Conflict
    BY DEF SaveTaken, Answered
<1>4. PICK n \in Nat : n = calls[i].answer
    BY <1>3, AnswerFacts
<1>5. PICK x \in SessionState : x = note[opened]
    BY <1>1 DEF IInv, Types, NoteOK
<1>6. PICK y \in SessionState : y = AfterSave(x, n) /\ y.saving = None
  <2>1. AfterSave(x, n) \in SessionState /\ AfterSave(x, n).saving = None
      BY ONLY AfterSaveFacts, x \in SessionState, n \in Nat
  <2> QED BY <2>1, Zenon
<1>7. note' = [note EXCEPT ![opened] = y] /\ kept' = y.draft
    BY <1>1, <1>4, <1>5, <1>6 DEF SaveTaken
<1>8. note'[opened] = y /\ \A s \in Sessions : s # opened => note'[s] = note[s]
    BY <1>1, <1>7 DEF IInv, Types, NoteOK
<1>9. Latest'
    BY <1>1, <1>2, <1>8, LatestOn DEF Latest
<1>12. Dropped(unsaved)' <=> Dropped(unsaved)
    BY <1>2 DEF Fixed, Dropped, May
<1>10. ASSUME unsaved # None, ~Dropped(unsaved) PROVE Held'
  <2>1. HeldBy(x)
      BY <1>5, <1>10 DEF Held
  <2>2. x.touched
      BY <1>1, <1>3, <2>1 DEF HeldBy, Carries
  <2>3. x.saving # None
      BY <1>1, <1>3, <1>5 DEF IInv, OneSave, Match, IsSave
  <2>4. x.draft # None /\ x.draft \in Draft /\ x.draft.text = unsaved
      BY <2>1, <2>3 DEF HeldBy, SessionState
  <2>5. y.draft # None /\ y.draft.text = unsaved
    <3>1. PICK b \in SessionState : b = Based(x, n) /\ b.draft = x.draft
      <4>1. Based(x, n) \in SessionState /\ Based(x, n).draft = x.draft
          BY DEF Based, SessionState
      <4> QED BY <4>1
    <3>2. PICK d \in Draft : d = [x.draft EXCEPT !.base = n] /\ d.text = unsaved
      <4>1. [x.draft EXCEPT !.base = n] \in Draft /\ [x.draft EXCEPT !.base = n].text = unsaved
          BY <2>4 DEF Draft
      <4> QED BY <4>1
    <3>3. y = [b EXCEPT !.draft.base = n, !.timer = TRUE]
        BY <1>6, <2>2, <2>4, <3>1 DEF AfterSave
    <3>4. y.draft = d
        BY <3>1, <3>2, <3>3 DEF SessionState
    <3> QED BY <3>2, <3>4 DEF NotesAssumption
  <2>6. \A c \in Asked(calls') : c.op # "save"
    <3>1. note'[opened'].saving = None /\ opened' \in Sessions
        BY <1>1, <1>2, <1>6, <1>8
    <3>2. \A j \in 1 .. Len(calls') : ~IsSave(calls'[j], opened)
        BY <1>2, <3>1 DEF IInv, OneSave, Match
    <3>3. \A c \in Asked(calls') : ~IsSave(c, opened)
        BY <3>2 DEF Asked
    <3> QED BY <1>1, <3>3 DEF Latest, IsSave
  <2> QED BY <1>1, <1>2, <1>6, <1>7, <1>8, <2>5, <2>6 DEF Held, HeldBy, Carries
<1>11. unsaved = None \/ Dropped(unsaved) => Held'
    BY <1>2, <1>12 DEF Held
<1> QED BY <1>9, <1>10, <1>11

LEMMA SaveRefusedHolds ==
    ASSUME IInv, IInv', Fixed, NotesAssumption, Latest, Held, NEW i \in 1 .. Len(calls), SaveRefused(i)
    PROVE  Latest' /\ Held'
<1>1. calls[i].by = opened /\ opened \in Sessions /\ Asked(calls') \subseteq Asked(calls)
    BY AnswerLeaves DEF SaveRefused
<1>2. opened' = opened /\ shown' = shown /\ kept' = kept /\ unsaved' = unsaved
    BY DEF SaveRefused, screen, history
<1>3. PICK x \in SessionState : x = note[opened]
    BY <1>1 DEF IInv, Types, NoteOK
<1> DEFINE y == [x EXCEPT !.conflict = TRUE, !.saving = None, !.failed = FALSE]
<1>4. y \in SessionState /\ Tame(x, y)
    BY DEF SessionState, Tame
<1>5. note' = [note EXCEPT ![opened] = y]
    BY <1>1, <1>3 DEF SaveRefused, IInv, Types, NoteOK
<1> HIDE DEF y
<1> QED BY <1>1, <1>2, <1>3, <1>4, <1>5, SessionOn DEF Latest

LEMMA KeepMineHolds ==
    ASSUME IInv, IInv', Fixed, NotesAssumption, May("late") \/ Ordered, Latest, Held, NEW i \in 1 .. Len(calls), KeepMine(i)
    PROVE  Latest' /\ Held'
<1>1. /\ calls[i].by = opened /\ opened \in Sessions
      /\ RemoveAt(calls, i) \in Seq(Calls) /\ Asked(RemoveAt(calls, i)) \subseteq Asked(calls)
    BY AnswerLeaves
<1>2. opened' = opened /\ shown' = shown /\ unsaved' = unsaved
    BY DEF KeepMine, screen
<1>3. PICK n \in Nat : n = calls[i].answer
  <2>1. calls[i].op = "mine" /\ calls[i].answer # None /\ CallTrust(calls[i])
      BY Caller DEF KeepMine, Answered
  <2> QED BY <2>1, AnswerFacts DEF CallTrust
<1>4. PICK x \in SessionState : x = note[opened]
    BY <1>1 DEF IInv, Types, NoteOK
<1> DEFINE y == [x EXCEPT !.base = n, !.expected = n, !.conflict = FALSE, !.failed = FALSE, !.touched = TRUE]
<1>5. y \in SessionState /\ y.base = n /\ y.draft = x.draft /\ y.saving = x.saving /\ y.touched
    BY DEF SessionState
<1>6. Save(opened, IF x.draft = None THEN y ELSE [y EXCEPT !.draft.base = n], RemoveAt(calls, i))
    BY <1>1, <1>3, <1>4 DEF KeepMine
<1> HIDE DEF y
<1>7. PICK z \in SessionState :
         /\ z = IF x.draft = None THEN y ELSE [y EXCEPT !.draft.base = n]
         /\ Tame(x, z) /\ z.saving = x.saving /\ z.base = n
  <2>1. CASE x.draft = None
      BY <1>5, <2>1 DEF Tame
  <2>2. CASE x.draft # None
    <3>1. y.draft \in Draft
        BY <1>5, <2>2 DEF SessionState
    <3>2. PICK d \in Draft : d = [y.draft EXCEPT !.base = n] /\ d.text = y.draft.text
      <4>1. [y.draft EXCEPT !.base = n] \in Draft /\ [y.draft EXCEPT !.base = n].text = y.draft.text
          BY <3>1 DEF Draft
      <4> QED BY <4>1
    <3> DEFINE z == [y EXCEPT !.draft = d]
    <3>3. z \in SessionState /\ z.base = n /\ z.saving = x.saving /\ z.draft = d /\ z.touched
        BY <1>5 DEF SessionState
    <3>4. z = [y EXCEPT !.draft.base = n]
        BY <1>5, <3>2
    <3> HIDE DEF z
    <3>5. Tame(x, z)
        BY <1>5, <2>2, <3>2, <3>3 DEF Tame, NotesAssumption
    <3> QED BY <2>2, <3>3, <3>4, <3>5
  <2> QED BY <2>1, <2>2
<1>8. PICK cs \in Seq(Calls) : cs = RemoveAt(calls, i)
    BY <1>1
<1>9. Save(opened, z, cs) /\ Asked(cs) \subseteq Asked(calls) /\ Tame(note[opened], z) /\ z.saving = note[opened].saving
    BY <1>1, <1>4, <1>6, <1>7, <1>8
<1>10. ASSUME ~May("late"), Drops(z) PROVE FALSE
  <2>1. BlankDraft(x.draft) /\ z.base = 0
      BY <1>7, <1>10 DEF Drops, CanSave, BlankDraft, Tame
  <2>2. Found /\ Ordered
      BY <1>1, <1>4, <1>10, <2>1 DEF Ordered, Found
  <2>3. Answered(i, "mine") /\ "mine" \in Ops /\ calls[i].answer # Conflict
      BY <1>3 DEF KeepMine, Ops, NotesAssumption
  <2>4. n # 0
      BY <1>3, <1>10, <2>2, <2>3, FirstAnswer
  <2> QED BY <1>7, <2>1, <2>4
<1> QED BY <1>1, <1>2, <1>9, <1>10, SaveOn

\* The user gave it up.
LEMMA LoadTheirsHolds ==
    ASSUME IInv, IInv', Fixed, NotesAssumption, Latest, NEW i \in 1 .. Len(calls), LoadTheirs(i)
    PROVE  Latest' /\ Held'
<1>1. calls[i].by = opened /\ opened \in Sessions /\ Asked(calls') \subseteq Asked(calls)
    BY AnswerLeaves DEF LoadTheirs
<1>2. opened' = opened /\ shown' = shown /\ unsaved' = None
    BY DEF LoadTheirs, screen
<1>3. \A s \in Sessions : s # opened => note'[s] = note[s]
    BY <1>1 DEF LoadTheirs, IInv, Types, NoteOK
<1> QED BY <1>1, <1>2, <1>3, LatestOn DEF Latest, Held

LEMMA CallFailsHolds ==
    ASSUME IInv, IInv', Fixed, NotesAssumption, Latest, Held, NEW i \in 1 .. Len(calls), CallFails(i)
    PROVE  Latest' /\ Held'
<1>1. calls[i].by = opened /\ opened \in Sessions /\ Asked(calls') \subseteq Asked(calls)
    BY AnswerLeaves DEF CallFails
<1>2. opened' = opened /\ shown' = shown /\ kept' = kept /\ unsaved' = unsaved
    BY DEF CallFails, screen, history
<1>3. PICK x \in SessionState : x = note[opened]
    BY <1>1 DEF IInv, Types, NoteOK
<1> DEFINE gone == [x EXCEPT !.loaded = TRUE]
           unsaid == [x EXCEPT !.failed = TRUE, !.saving = None]
           told == [x EXCEPT !.failed = TRUE]
<1>4. gone \in SessionState /\ Tame(x, gone) /\ unsaid \in SessionState /\ Tame(x, unsaid)
      /\ told \in SessionState /\ Tame(x, told)
    BY DEF SessionState, Tame
<1>5. \A op : Failure(x, op) = IF op = "get" THEN gone ELSE IF op = "save" THEN unsaid ELSE told
    BY DEF Failure
<1> HIDE DEF gone, unsaid, told
<1>6. PICK y \in SessionState : y = Failure(x, calls[i].op) /\ Tame(x, y)
    BY <1>4, <1>5
<1>7. note' = [note EXCEPT ![opened] = y]
    BY <1>1, <1>3, <1>6 DEF CallFails, IInv, Types, NoteOK
<1> QED BY <1>1, <1>2, <1>3, <1>6, <1>7, SessionOn DEF Latest

\* A call with its answer.
LEMMA AnswerOn ==
    ASSUME IInv, Latest, NEW i \in 1 .. Len(calls), NEW a \in Nat \union {Conflict},
           calls' = [calls EXCEPT ![i].answer = a]
    PROVE  /\ opened \in Sessions /\ calls[i] \in Asked(calls)
           /\ \A d \in Asked(calls') :
                 \/ d \in Asked(calls)
                 \/ d.by = opened /\ d.op = calls[i].op /\ d.text = calls[i].text /\ d.answer = a
<1>1. PICK cs \in Seq(Calls) : cs = calls /\ cs[i] \in Calls /\ cs[i] \in Asked(cs) /\ cs[i].by = opened
    BY LatestAsks
<1> DEFINE c == [cs[i] EXCEPT !.answer = a]
<1>2. c \in Calls /\ c.by = cs[i].by /\ c.op = cs[i].op /\ c.text = cs[i].text /\ c.answer = a
    BY <1>1 DEF Calls
<1>3. calls' = [cs EXCEPT ![i] = c]
    BY <1>1
<1> HIDE DEF c
<1>4. Asked(calls') \subseteq Asked(cs) \union {c}
    BY <1>1, <1>2, <1>3, AskedAll
<1> QED BY <1>1, <1>2, <1>4 DEF Calls

LEMMA ServeReadHolds ==
    ASSUME IInv, IInv', Fixed, NotesAssumption, Latest, Held, NEW i \in 1 .. Len(calls), ServeRead(i)
    PROVE  Latest' /\ Held'
<1>1. opened' = opened /\ shown' = shown /\ kept' = kept /\ unsaved' = unsaved /\ note' = note
    BY DEF ServeRead, screen, history
<1>2. PICK a \in Nat \union {Conflict} : a = Current
    BY DEF IInv, Types, LogOK, Current
<1>3. calls' = [calls EXCEPT ![i].answer = a] /\ calls[i].op # "save"
    BY <1>2 DEF ServeRead
<1>5. \A d \in Asked(calls') : d \in Asked(calls) \/ (d.by = opened /\ d.op = calls[i].op)
    BY ZenonT(40), <1>3, AnswerOn
<1>4. \A d \in Asked(calls') : d.by = opened /\ (d.op = "save" => d \in Asked(calls))
    BY <1>3, <1>5 DEF Latest
<1> QED BY <1>1, <1>4, NoteOn

\* A save that is not refused was of the text typed last, or the session was
\* touched since.
LEMMA ServeSaveHolds ==
    ASSUME IInv, IInv', Fixed, NotesAssumption, Latest, Held, NEW i \in 1 .. Len(calls), ServeSave(i)
    PROVE  Latest' /\ Held'
<1>1. opened' = opened /\ shown' = shown /\ kept' = kept /\ note' = note
    BY DEF ServeSave, screen
<1>2. PICK r \in BOOLEAN : r = Refused(calls[i].text, calls[i].expected)
    BY Zenon DEF Refused
<1>3. PICK a \in Nat \union {Conflict} : a = IF r THEN Conflict ELSE Len(log')
  <2>1. Len(log') \in Nat
      BY DEF IInv, Types, LogOK
  <2> QED BY <2>1
<1>4. /\ calls' = [calls EXCEPT ![i].answer = a] /\ calls[i].op = "save" /\ calls[i].answer = None
      /\ unsaved' = IF calls[i].text = unsaved /\ ~r THEN None ELSE unsaved
    BY <1>2, <1>3 DEF ServeSave, Saved
<1>5. /\ opened \in Sessions /\ calls[i] \in Asked(calls)
      /\ \A d \in Asked(calls') :
            \/ d \in Asked(calls)
            \/ d.by = opened /\ d.op = calls[i].op /\ d.text = calls[i].text /\ d.answer = a
    BY <1>4, AnswerOn
<1>6. Latest'
    BY <1>1, <1>5, LatestOn DEF Latest
<1>7. ASSUME unsaved' # None, ~Dropped(unsaved)' PROVE Held'
  <2>6. unsaved' = unsaved /\ ~Dropped(unsaved)
      BY <1>4, <1>7 DEF Fixed, Dropped, May
  <2>1. unsaved' = unsaved /\ unsaved # None /\ ~(calls[i].text = unsaved /\ ~r)
      BY <1>4, <1>7
  <2>2. PICK x : x = note[opened]
      OBVIOUS
  <2>3. kept # None /\ kept.text = unsaved /\ HeldBy(x)
      BY <2>1, <2>2, <2>6 DEF Held
  <2>4. x.touched \/ a = Conflict
    <3>1. Carries(x, calls[i])
        BY <1>5, <2>3 DEF HeldBy
    <3> QED BY <1>3, <1>4, <2>1, <3>1 DEF Carries, NotesAssumption
  <2>5. \A d \in Asked(calls') : Carries(x, d)
      BY <1>5, <2>3, <2>4 DEF HeldBy, Carries
  <2> QED BY <1>1, <1>5, <2>1, <2>2, <2>3, <2>5 DEF Held, HeldBy, Carries
<1>8. unsaved' = None \/ Dropped(unsaved)' => Held'
    BY DEF Held
<1> QED BY <1>6, <1>7, <1>8

\* What the daemon does by itself, and a notice that is missed.
LEMMA QuietHolds ==
    ASSUME IInv, IInv', Fixed, Latest, Held, screen' = screen, note' = note, calls' = calls, kept' = kept,
           unsaved' \in {unsaved, None}
    PROVE  Latest' /\ Held'
<1>1. opened' = opened /\ shown' = shown
    BY DEF screen
<1> QED BY <1>1, NoteOn DEF Latest

\* What may go wrong is settled at the start.
LEMMA Spent ==
    ASSUME LeftOK, NEW n,
           \/ left' = left \/ left' = [left EXCEPT !.edits = n] \/ left' = [left EXCEPT !.others = n]
           \/ left' = [left EXCEPT !.losses = n] \/ left' = [left EXCEPT !.choices = n]
    PROVE  left'.may = left.may
  BY DEF LeftOK, Budget

LEMMA PlainStays == ASSUME IInv, [Next]_vars PROVE left'.may = left.may
<1>1. LeftOK
    BY DEF IInv, Types
<1>2. CASE EditBack
  <2>1. left' = [left EXCEPT !.edits = left.edits - 1]
      BY <1>2 DEF EditBack
  <2> QED BY <1>1, <2>1, Spent
<1>3. CASE \E t \in Texts : Edit(t)
  <2>1. left' = [left EXCEPT !.edits = left.edits - 1]
      BY <1>3 DEF Edit
  <2> QED BY <1>1, <2>1, Spent
<1>4. CASE \E op \in {"mine", "theirs"} : Choose(op)
  <2>1. left' = [left EXCEPT !.choices = left.choices - 1]
      BY <1>4 DEF Choose
  <2> QED BY <1>1, <2>1, Spent
<1>5. CASE Open \/ Leave \/ Flush \/ Retry
    BY <1>5 DEF Open, Leave, Flush, Retry
<1>6. CASE Serve
    BY <1>6 DEF Serve, ServeRead, ServeSave
<1>7. CASE Answer
  <2>1. PICK i \in Out : \/ ReadAnswered(i) \/ SaveTaken(i) \/ SaveRefused(i)
                        \/ KeepMine(i) \/ LoadTheirs(i) \/ CallFails(i)
      BY <1>7 DEF Answer
  <2>2. ReadAnswered(i) => left' = left
      BY Zenon DEF ReadAnswered
  <2>3. SaveTaken(i) \/ SaveRefused(i) => left' = left
      BY DEF SaveTaken, SaveRefused
  <2>4. KeepMine(i) \/ LoadTheirs(i) \/ CallFails(i) => left' = left
      BY DEF KeepMine, LoadTheirs, CallFails
  <2> QED BY <2>1, <2>2, <2>3, <2>4
<1>8. CASE \E c \in stray : ServeStray(c)
    BY <1>8 DEF ServeStray
<1>9. CASE \E t \in Texts : OtherSaves(t)
  <2>1. left' = [left EXCEPT !.others = left.others - 1]
      BY <1>9 DEF OtherSaves
  <2> QED BY <1>1, <2>1, Spent
<1>10. CASE (\E s \in Sessions : Autosave(s)) \/ Notice \/ Reconnect
  <2>1. CASE \E s \in Sessions : Autosave(s)
      BY <2>1 DEF Autosave
  <2>2. CASE Notice \/ Reconnect
      BY <2>2 DEF Notice, Reconnect
  <2> QED BY <1>10, <2>1, <2>2
<1>11. CASE MissNotice \/ Drop
  <2>1. left' = [left EXCEPT !.losses = left.losses - 1]
      BY <1>11 DEF MissNotice, Drop
  <2> QED BY <1>1, <2>1, Spent
<1>12. CASE UNCHANGED vars
    BY <1>12 DEF vars
<1> QED BY <1>2, <1>3, <1>4, <1>5, <1>6, <1>7, <1>8, <1>9, <1>10, <1>11, <1>12 DEF Next, User

LEMMA TargetStays == ASSUME [Next]_vars PROVE target' = target
<1>1. User \/ Serve \/ Answer => target' = target
  <2>1. User => target' = target
    <3>1. Open \/ Leave \/ EditBack => target' = target
        BY Zenon DEF Open, Leave, EditBack
    <3>2. (\E t \in Texts : Edit(t)) \/ (\E op \in {"mine", "theirs"} : Choose(op)) => target' = target
        BY Zenon DEF Edit, Choose
    <3>3. Flush \/ Retry => target' = target
        BY Zenon DEF Flush, Retry
    <3> QED BY <3>1, <3>2, <3>3 DEF User
  <2>2. Serve => target' = target
      BY DEF Serve, ServeRead, ServeSave
  <2>3. Answer => target' = target
    <3>1. \A i \in Out : ReadAnswered(i) \/ SaveTaken(i) \/ SaveRefused(i) => target' = target
        BY Zenon DEF ReadAnswered, SaveTaken, SaveRefused
    <3>2. \A i \in Out : KeepMine(i) \/ LoadTheirs(i) \/ CallFails(i) => target' = target
        BY Zenon DEF KeepMine, LoadTheirs, CallFails
    <3> QED BY <3>1, <3>2 DEF Answer
  <2> QED BY <2>1, <2>2, <2>3
<1>2. (\E c \in stray : ServeStray(c)) \/ (\E t \in Texts : OtherSaves(t)) => target' = target
    BY DEF ServeStray, OtherSaves
<1>3. (\E s \in Sessions : Autosave(s)) \/ Notice \/ MissNotice \/ Drop \/ Reconnect => target' = target
    BY DEF Autosave, Notice, MissNotice, Drop, Reconnect
<1> QED BY <1>1, <1>2, <1>3 DEF Next, vars

LEMMA HeldStep == ASSUME HInv, NotesAssumption, [Next]_vars PROVE HInv'
<1>1. IInv /\ IInv'
    BY Step DEF HInv
<1>11. Fixed
    BY <1>1, PlainStays, TargetStays DEF Fixed
<1>2. (Plain' <=> Plain) /\ (May("late")' <=> May("late"))
    BY <1>11 DEF Plain, Fixed, May
<1>12. May("late") \/ Ordered
    BY DEF HInv
<1>13. (May("late") \/ Ordered)'
    BY <1>1, <1>2, <1>12, OrderedStep
<1> SUFFICES ASSUME Plain PROVE Latest' /\ Held'
    BY <1>1, <1>2, <1>13 DEF HInv
<1>3. Latest /\ Held
    BY DEF HInv
<1>4. CASE User
    BY <1>1, <1>3, <1>11, <1>12, <1>4, OpenHolds, LeaveHolds, EditBackHolds, EditHolds, FlushHolds, RetryHolds, ChooseHolds DEF User
<1>5. CASE Serve
    BY <1>1, <1>3, <1>11, <1>12, <1>5, ServeReadHolds, ServeSaveHolds DEF Serve, Out
<1>6. CASE Answer
    BY <1>1, <1>3, <1>11, <1>12, <1>6, ReadAnsweredHolds, SaveTakenHolds, SaveRefusedHolds, KeepMineHolds, LoadTheirsHolds, CallFailsHolds
    DEF Answer, Out
<1>7. CASE \E c \in stray : ServeStray(c)
  <2>1. screen' = screen /\ note' = note /\ calls' = calls /\ kept' = kept /\ unsaved' \in {unsaved, None}
      BY <1>7 DEF ServeStray, Saved
  <2> QED BY <1>1, <1>3, <1>11, <1>12, <2>1, QuietHolds
<1>8. CASE (\E t \in Texts : OtherSaves(t)) \/ MissNotice \/ UNCHANGED vars
  <2>1. screen' = screen /\ note' = note /\ calls' = calls /\ kept' = kept /\ unsaved' = unsaved
      BY <1>8 DEF OtherSaves, MissNotice, vars, history
  <2> QED BY <1>1, <1>3, <1>11, <1>12, <2>1, QuietHolds
<1>9. CASE \E s \in Sessions : Autosave(s)
    BY <1>1, <1>3, <1>11, <1>12, <1>9, AutosaveHolds
<1>10. CASE Notice \/ Drop \/ Reconnect
  <2>1. kept' = kept /\ opened' = opened /\ shown' = shown /\ unsaved' = unsaved
      BY <1>10 DEF Notice, Drop, Reconnect, screen, history
  <2>2. \/ shown # 0 /\ Sync(shown, note[shown])
        \/ note' = note /\ calls' = calls
      BY <1>10 DEF Notice, Drop, Reconnect
  <2> QED BY <1>1, <1>3, <1>11, <1>12, <2>1, <2>2, SyncOn
<1> QED BY <1>4, <1>5, <1>6, <1>7, <1>8, <1>9, <1>10 DEF Next

LEMMA HeldInit == ASSUME NotesAssumption, Init PROVE HInv
<1>1. IInv
    BY InitHolds
<1>2. Latest
  <2>1. \A s \in Sessions : note[s].timer = FALSE
      BY DEF Init, Fresh
  <2>2. Asked(calls) = {} /\ shown = 0
      BY DEF Init, Asked
  <2> QED BY <2>1, <2>2 DEF Latest
<1>3. Held
    BY DEF Init, Held
<1> QED BY <1>1, <1>2, <1>3, OrderedInit DEF HInv

\* A text that was typed is saved, or the phone still has it: for any texts and
\* any number of openings, edits, lost connections and answers out of order,
\* while the note is opened again only when its last session has settled and
\* nothing is taken back whose save may be under way.  The erasing of a thread's
\* note counts only as long as answers come in order: then run never takes the
\* note for one that was not made (Ordered).
THEOREM NothingLostHolds == Spec => []NothingLost
<1>1. Init => HInv
    BY HeldInit, NotesAssumption
<1>2. HInv /\ [Next]_vars => HInv'
    BY HeldStep, NotesAssumption
<1>3. HInv => NothingLost
    BY HeldNothingLost
<1> QED BY <1>1, <1>2, <1>3, PTL DEF Spec

-----------------------------------------------------------------------------
(* A conflict is never about the phone's own save.  In order and without   *)
(* losses nothing the session goes by is older than a save of the phone,   *)
(* unless something of another device came in between, or the answer that  *)
(* says so is still to come.                                               *)

Newer(e) == \E n \in (e + 1) .. Current : log[n].by = "other"
Honest(e) == e < Current => Newer(e)

Took(c) == c.op = "save" /\ c.answer \in Nat
Taken(cs) == \E c \in Asked(cs) : Took(c)
Sound(e, cs) == Honest(e) \/ Taken(cs)

SaveSound(c) == IF c.answer = None THEN Honest(c.expected)
                ELSE IF c.answer = Conflict THEN Newer(c.expected) ELSE Honest(c.answer)
\* Calls are served in order: a read tells the last revision, or the save that
\* was served since is behind it.
InTurn(cs) ==
    /\ \A i \in 1 .. Len(cs) : cs[i].op = "save" => SaveSound(cs[i])
    /\ \A i \in 1 .. Len(cs) : cs[i].op # "save" /\ cs[i].answer # None =>
          Honest(cs[i].answer) \/ \E k \in 1 .. Len(cs) : k > i /\ Took(cs[k])
    /\ \A i, j \in 1 .. Len(cs) : i < j /\ cs[j].answer # None => cs[i].answer # None

SessionSound(x, k, cs) ==
    /\ x.loaded \/ x.draft = None
    /\ x.loaded => Sound(x.expected, cs)
    /\ x.draft # None => Sound(x.draft.base, cs)
    /\ x.draft = None /\ k # None => x.saving = None
KeptSound(k, cs) == k # None => Sound(k.base, cs)

Sure ==
    /\ link /\ stray = {} /\ InTurn(calls) /\ KeptSound(kept, calls)
    /\ opened # 0 => SessionSound(note[opened], kept, calls)

AInv == HInv /\ (left.may = {} => Sure)

\* No session meets a conflict in this step.
NoAlarm == \A s \in Sessions : note'[s].conflict => note[s].conflict

LEMMA NoneAlarmed == ASSUME NoAlarm PROVE AlarmIsTrue
  BY DEF NoAlarm, AlarmIsTrue

LEMMA SureOn ==
    ASSUME log' = log, link', stray' = {}, InTurn(calls'), KeptSound(kept', calls'),
           opened' # 0 => SessionSound(note'[opened'], kept', calls')
    PROVE  Sure'
<1>1. InTurn(calls)'
    BY DEF InTurn, SaveSound, Honest, Newer, Current, Took
<1>2. KeptSound(kept, calls)'
    BY DEF KeptSound, Sound, Honest, Newer, Current, Taken, Took
<1>3. opened' # 0 => SessionSound(note[opened], kept, calls)'
    BY DEF SessionSound, Sound, Honest, Newer, Current, Taken, Took
<1> QED BY <1>1, <1>2, <1>3 DEF Sure

\* The calls of a step.
LEMMA InTurnAppend ==
    ASSUME NEW cs \in Seq(Calls), NEW c \in Calls, InTurn(cs), c.answer = None, c.op = "save" => Honest(c.expected)
    PROVE  InTurn(Append(cs, c)) /\ (Taken(cs) => Taken(Append(cs, c)))
<1> DEFINE ds == Append(cs, c)
<1>1. Len(ds) = Len(cs) + 1 /\ ds[Len(cs) + 1] = c /\ \A i \in 1 .. Len(cs) : ds[i] = cs[i]
    OBVIOUS
<1>2. Len(cs) \in Nat /\ Asked(ds) = Asked(cs) \union {c}
    BY AskedAll
<1> HIDE DEF ds
<1>3. \A i \in 1 .. Len(ds) : ds[i].op = "save" => SaveSound(ds[i])
    BY <1>1, <1>2 DEF InTurn, SaveSound
<1>4. ASSUME NEW i \in 1 .. Len(ds), ds[i].op # "save", ds[i].answer # None
      PROVE  Honest(ds[i].answer) \/ \E k \in 1 .. Len(ds) : k > i /\ Took(ds[k])
  <2>1. i \in 1 .. Len(cs) /\ ds[i] = cs[i]
      BY <1>1, <1>2, <1>4
  <2>2. Honest(cs[i].answer) \/ \E k \in 1 .. Len(cs) : k > i /\ Took(cs[k])
      BY <1>4, <2>1 DEF InTurn
  <2> QED BY <1>1, <1>2, <2>1, <2>2
<1>5. \A i, j \in 1 .. Len(ds) : i < j /\ ds[j].answer # None => ds[i].answer # None
    BY <1>1, <1>2 DEF InTurn
<1>6. Taken(cs) => Taken(ds)
    BY <1>2 DEF Taken
<1> QED BY <1>3, <1>4, <1>5, <1>6 DEF ds, InTurn

LEMMA InTurnNext ==
    ASSUME NEW cs \in Seq(Calls), cs # << >>, InTurn(cs)
    PROVE  /\ InTurn(RemoveAt(cs, 1))
           /\ Taken(cs) /\ ~Took(cs[1]) => Taken(RemoveAt(cs, 1))
           /\ cs[1].op # "save" /\ cs[1].answer # None => Sound(cs[1].answer, RemoveAt(cs, 1))
<1> DEFINE ds == RemoveAt(cs, 1)
<1>1. Len(cs) \in Nat /\ 1 \in 1 .. Len(cs)
    OBVIOUS
<1>2. Len(ds) = Len(cs) - 1 /\ ds \in Seq(Calls)
      /\ \A j \in 1 .. (Len(cs) - 1) : ds[j] = IF j < 1 THEN cs[j] ELSE cs[j + 1]
    BY <1>1, Removed
<1> HIDE DEF ds
<1>3. \A j \in 1 .. Len(ds) : ds[j] = cs[j + 1] /\ j + 1 \in 1 .. Len(cs)
    BY <1>1, <1>2
<1>4. \A k \in 1 .. Len(cs) : k > 1 => k - 1 \in 1 .. Len(ds) /\ ds[k - 1] = cs[k]
    BY <1>1, <1>2
<1>5. \A i \in 1 .. Len(ds) : ds[i].op = "save" => SaveSound(ds[i])
    BY <1>3 DEF InTurn
<1>6. ASSUME NEW i \in 1 .. Len(ds), ds[i].op # "save", ds[i].answer # None
      PROVE  Honest(ds[i].answer) \/ \E k \in 1 .. Len(ds) : k > i /\ Took(ds[k])
  <2>1. i + 1 \in 1 .. Len(cs) /\ ds[i] = cs[i + 1]
      BY <1>3
  <2>2. Honest(cs[i + 1].answer) \/ \E k \in 1 .. Len(cs) : k > i + 1 /\ Took(cs[k])
      BY <1>6, <2>1 DEF InTurn
  <2>3. ASSUME NEW k \in 1 .. Len(cs), k > i + 1, Took(cs[k]) PROVE \E m \in 1 .. Len(ds) : m > i /\ Took(ds[m])
    <3>1. k > 1 /\ k - 1 > i
        BY <1>2, <2>3
    <3>2. k - 1 \in 1 .. Len(ds) /\ ds[k - 1] = cs[k]
        BY <1>4, <3>1
    <3> QED BY <2>3, <3>1, <3>2
  <2> QED BY <2>1, <2>2, <2>3
<1>7. ASSUME NEW i \in 1 .. Len(ds), NEW j \in 1 .. Len(ds), i < j, ds[j].answer # None PROVE ds[i].answer # None
  <2>1. i + 1 \in 1 .. Len(cs) /\ j + 1 \in 1 .. Len(cs) /\ i + 1 < j + 1
      BY <1>3, <1>7
  <2> QED BY <1>3, <1>7, <2>1 DEF InTurn
<1>8. ASSUME NEW k \in 1 .. Len(cs), k > 1, Took(cs[k]) PROVE Taken(ds)
    BY <1>4, <1>8 DEF Taken, Asked
<1>9. Taken(cs) /\ ~Took(cs[1]) => Taken(ds)
  <2> SUFFICES ASSUME Taken(cs), ~Took(cs[1]) PROVE Taken(ds)
      OBVIOUS
  <2>1. PICK k \in 1 .. Len(cs) : Took(cs[k])
      BY DEF Taken, Asked
  <2> QED BY <1>1, <1>8, <2>1
<1>10. cs[1].op # "save" /\ cs[1].answer # None => Honest(cs[1].answer) \/ Taken(ds)
    BY <1>1, <1>8 DEF InTurn
<1>11. InTurn(ds)
    BY <1>5, <1>6, <1>7 DEF InTurn
<1> QED BY <1>9, <1>10, <1>11 DEF ds, Sound

\* While no save is out none was taken.
LEMMA NoSaveTaken ==
    ASSUME IInv, Latest, opened \in Sessions, note[opened].saving = None, NEW cs, Asked(cs) \subseteq Asked(calls)
    PROVE  ~Taken(cs)
  BY LatestAsks DEF Taken, Took

\* Only the latest session changes.
LEMMA SureSession ==
    ASSUME IInv, log' = log, link', stray' = {}, opened' = opened, opened \in Sessions,
           NEW y \in SessionState, note' = [note EXCEPT ![opened] = y],
           InTurn(calls'), KeptSound(kept', calls'), SessionSound(y, kept', calls')
    PROVE  Sure' /\ (\A s \in Sessions : s # opened => note'[s] = note[s]) /\ note'[opened] = y
<1>1. note'[opened] = y /\ \A s \in Sessions : s # opened => note'[s] = note[s]
    BY DEF IInv, Types, NoteOK
<1> QED BY <1>1, SureOn

\* A session that goes by what it went by.
Mild(x, y) ==
    /\ y.loaded = x.loaded /\ y.expected = x.expected /\ y.draft = x.draft
    /\ x.draft = None => y.saving = x.saving
    /\ y.conflict => x.conflict

LEMMA MildSound ==
    ASSUME NEW x, NEW y, Mild(x, y), NEW k, NEW cs, SessionSound(x, k, cs), NEW ds, Taken(cs) => Taken(ds)
    PROVE  SessionSound(y, k, ds)
  BY DEF Mild, SessionSound, Sound

LEMMA SureSave ==
    ASSUME IInv, NotesAssumption, Latest, log' = log, link', stray' = {}, opened' = opened, opened \in Sessions,
           NEW x \in SessionState, x.saving = note[opened].saving, x.conflict => note[opened].conflict,
           NEW cs \in Seq(Calls), Asked(cs) \subseteq Asked(calls), InTurn(cs), KeptSound(kept, cs), SessionSound(x, kept, cs),
           Save(opened, x, cs)
    PROVE  Sure' /\ NoAlarm
<1>0. CASE Drops(x)
  <2> DEFINE y == [x EXCEPT !.draft = None, !.timer = FALSE, !.failed = FALSE]
  <2>1. /\ y \in SessionState /\ y.draft = None /\ y.loaded = x.loaded /\ y.expected = x.expected
        /\ y.conflict = x.conflict
      BY DEF SessionState
  <2>2. note' = [note EXCEPT ![opened] = y] /\ calls' = cs /\ kept' = None
      BY <1>0 DEF Save
  <2> HIDE DEF y
  <2>3. SessionSound(y, kept', calls') /\ KeptSound(kept', calls') /\ InTurn(calls')
      BY <2>1, <2>2 DEF SessionSound, KeptSound
  <2>4. Sure' /\ note'[opened] = y /\ \A s \in Sessions : s # opened => note'[s] = note[s]
      BY <2>1, <2>2, <2>3, SureSession
  <2> QED BY <2>1, <2>4 DEF NoAlarm
<1>3. ~Drops(x) => kept' = kept /\ Sends(opened, x, cs)
    BY DEF Save
<1>1. CASE ~Drops(x) /\ ~(CanSave(x) /\ Reaches(x))
  <2>1. PICK f \in BOOLEAN : f = (CanSave(x) \/ x.failed)
      BY Zenon DEF CanSave, SessionState
  <2> DEFINE y == [x EXCEPT !.timer = FALSE, !.failed = f]
  <2>2. y \in SessionState /\ Mild(x, y)
      BY DEF SessionState, Mild
  <2>3. note' = [note EXCEPT ![opened] = y] /\ calls' = cs /\ kept' = kept
      BY <1>1, <1>3, <2>1 DEF Sends
  <2> HIDE DEF y
  <2>4. SessionSound(y, kept', calls') /\ KeptSound(kept', calls') /\ InTurn(calls')
      BY <2>2, <2>3, MildSound
  <2>5. Sure' /\ note'[opened] = y /\ \A s \in Sessions : s # opened => note'[s] = note[s]
      BY <2>2, <2>3, <2>4, SureSession
  <2> QED BY <2>2, <2>5 DEF NoAlarm, Mild
<1>2. CASE ~Drops(x) /\ CanSave(x) /\ Reaches(x)
  <2> DEFINE y == [x EXCEPT !.saving = x.draft, !.touched = FALSE, !.timer = FALSE, !.failed = FALSE]
  <2>1. x.saving = None /\ x.draft # None /\ x.draft.text \in Texts /\ x.expected \in Nat
      BY <1>2 DEF CanSave, SessionState, Draft
  <2>2. y \in SessionState /\ Mild(x, y)
      BY <2>1 DEF SessionState, Mild
  <2>3. PICK c \in Calls : /\ c = Call(opened, "save", x.draft.text, x.expected)
                           /\ c.answer = None /\ c.expected = x.expected
      BY <2>1, CallType DEF Ops
  <2>4. note' = [note EXCEPT ![opened] = y] /\ calls' = Append(cs, c) /\ kept' = kept
      BY <1>2, <1>3, <2>3 DEF Sends
  <2> HIDE DEF y
  <2>5. Honest(x.expected)
    <3>1. ~Taken(cs)
        BY <2>1, NoSaveTaken
    <3> QED BY <2>1, <3>1 DEF SessionSound, Sound
  <2>6. InTurn(calls') /\ (Taken(cs) => Taken(calls'))
      BY <2>3, <2>4, <2>5, InTurnAppend
  <2>7. SessionSound(y, kept', calls') /\ KeptSound(kept', calls')
    <3>1. SessionSound(y, kept, calls')
        BY <2>2, <2>6, MildSound
    <3> QED BY <2>4, <2>6, <3>1 DEF KeptSound, Sound
  <2>8. Sure' /\ note'[opened] = y /\ \A s \in Sessions : s # opened => note'[s] = note[s]
      BY <2>2, <2>4, <2>6, <2>7, SureSession
  <2> QED BY <2>2, <2>8 DEF NoAlarm, Mild
<1> QED BY <1>0, <1>1, <1>2

\* What is kept and read when nothing is out.
LEMMA OpenSure ==
    ASSUME IInv, IInv', NotesAssumption, Plain, Latest, Sure, Open PROVE Sure' /\ NoAlarm
<1>1. opened' = opened + 1 /\ opened' \in Sessions /\ opened \in Nat /\ kept' = kept /\ link' = link
      /\ log' = log /\ stray' = stray
    BY DEF Open, daemon, IInv, Types, ScreenOK, Sessions, NotesAssumption
<1>2. PICK s \in Sessions : s = opened'
    BY <1>1
<1>3. note' = [note EXCEPT ![s] = Fresh] /\ calls' = Append(calls, Call(s, "get", Blank, 0))
    BY <1>1, <1>2 DEF Open, Sync, Sure
<1>4. note[s] = Fresh
    BY <1>1, <1>2 DEF IInv, Trust, SessionsTrusted, SessionTrust
<1>5. note' = note
    BY <1>3, <1>4 DEF IInv, Types, NoteOK
<1>6. PICK c \in Calls : c = Call(s, "get", Blank, 0) /\ c.op = "get" /\ c.answer = None
    BY CallType DEF NotesAssumption, Ops
<1>7. InTurn(calls') /\ (Taken(calls) => Taken(calls'))
    BY <1>3, <1>6, InTurnAppend, LatestAsks DEF Sure
<1>8. KeptSound(kept', calls')
    BY <1>1, <1>7 DEF Sure, KeptSound, Sound
<1>9. SessionSound(Fresh, kept', calls')
    BY DEF SessionSound, Fresh
<1> QED BY <1>1, <1>2, <1>4, <1>5, <1>7, <1>8, <1>9, SureOn DEF Sure, NoAlarm

\* The session on screen saves, with the calls as they are.
LEMMA SavingSure ==
    ASSUME IInv, NotesAssumption, Latest, Sure, opened \in Sessions, log' = log, link' = link, stray' = stray,
           opened' = opened,
           NEW x \in SessionState, Mild(note[opened], x), x.saving = note[opened].saving, Save(opened, x, calls)
    PROVE  Sure' /\ NoAlarm
<1>1. PICK cs \in Seq(Calls) : cs = calls
    BY LatestAsks
<1>2. SessionSound(note[opened], kept, calls)
    BY DEF Sure, Sessions
<1>3. SessionSound(x, kept, cs)
    BY <1>1, <1>2, MildSound
<1>4. Save(opened, x, cs) /\ Asked(cs) \subseteq Asked(calls) /\ InTurn(cs) /\ KeptSound(kept, cs) /\ link' /\ stray' = {}
      /\ (x.conflict => note[opened].conflict)
    BY <1>1 DEF Sure, Mild
<1> QED BY <1>3, <1>4, SureSave

\* The latest session changes a little, with the calls as they are.
LEMMA MildSure ==
    ASSUME IInv, Latest, Sure, opened \in Sessions, log' = log, link' = link, stray' = stray, opened' = opened, kept' = kept,
           calls' = calls, NEW y \in SessionState, note' = [note EXCEPT ![opened] = y], Mild(note[opened], y)
    PROVE  Sure' /\ NoAlarm
<1>1. SessionSound(note[opened], kept, calls)
    BY DEF Sure, Sessions
<1>2. SessionSound(y, kept', calls')
    BY <1>1, MildSound
<1>3. Sure' /\ (\A s \in Sessions : s # opened => note'[s] = note[s]) /\ note'[opened] = y
    BY <1>2, SureSession DEF Sure
<1> QED BY <1>3 DEF NoAlarm, Mild

\* A read is asked for, and nothing else happens.
LEMMA AskSure ==
    ASSUME IInv, Latest, Sure, log' = log, link' = link, stray' = stray, opened' = opened, kept' = kept, note' = note,
           \/ calls' = calls
           \/ \E c \in Calls : calls' = Append(calls, c) /\ c.op # "save" /\ c.answer = None
    PROVE  Sure' /\ NoAlarm
<1>1. InTurn(calls') /\ (Taken(calls) => Taken(calls'))
    BY InTurnAppend, LatestAsks DEF Sure
<1>2. KeptSound(kept', calls') /\ (opened' # 0 => SessionSound(note'[opened'], kept', calls'))
    BY <1>1 DEF Sure, KeptSound, SessionSound, Sound
<1> QED BY <1>1, <1>2, SureOn DEF Sure, NoAlarm

LEMMA SyncSure ==
    ASSUME IInv, NotesAssumption, Latest, Sure, log' = log, link' = link, stray' = stray, opened' = opened, kept' = kept,
           \/ shown # 0 /\ Sync(shown, note[shown])
           \/ note' = note /\ calls' = calls
    PROVE  Sure' /\ NoAlarm
<1>1. CASE note' = note /\ calls' = calls
    BY <1>1, AskSure
<1>2. CASE shown # 0 /\ Sync(shown, note[shown])
  <2>1. PICK s \in Sessions : s = shown
      BY <1>2, Shown
  <2>2. note' = note /\ calls' = Append(calls, Call(s, "get", Blank, 0))
    <3>1. note' = [note EXCEPT ![s] = note[s]] /\ calls' = Append(calls, Call(s, "get", Blank, 0))
        BY <1>2, <2>1 DEF Sync, Sure
    <3> QED BY <3>1 DEF IInv, Types, NoteOK
  <2>3. PICK c \in Calls : c = Call(s, "get", Blank, 0) /\ c.op = "get" /\ c.answer = None
      BY CallType DEF NotesAssumption, Ops
  <2> QED BY <2>2, <2>3, AskSure
<1> QED BY <1>1, <1>2

LEMMA LeaveSure == ASSUME IInv, NotesAssumption, Latest, Sure, Leave PROVE Sure' /\ NoAlarm
<1>1. log' = log /\ link' = link /\ stray' = stray /\ opened' = opened
    BY DEF Leave, daemon
<1>2. shown = opened /\ opened \in Sessions
    BY Shown DEF Leave, Latest
<1>3. PICK x \in SessionState : x = note[opened]
    BY <1>2 DEF IInv, Types, NoteOK
<1>4. CASE note[shown].failed
  <2> DEFINE y == [x EXCEPT !.timer = FALSE]
  <2>1. y \in SessionState /\ Mild(x, y)
      BY DEF SessionState, Mild
  <2>2. note' = [note EXCEPT ![opened] = y] /\ calls' = calls /\ kept' = kept
      BY <1>2, <1>3, <1>4 DEF Leave
  <2> HIDE DEF y
  <2> QED BY <1>1, <1>2, <1>3, <2>1, <2>2, MildSure
<1>5. CASE ~note[shown].failed
  <2>1. Save(opened, x, calls) /\ Mild(note[opened], x)
      BY <1>2, <1>3, <1>5 DEF Leave, Mild
  <2> QED BY <1>1, <1>2, <1>3, <2>1, SavingSure
<1> QED BY <1>4, <1>5

\* Nothing is taken back while a save is out.
LEMMA EditBackSure ==
    ASSUME IInv, NotesAssumption, Plain, Latest, Sure, EditBack PROVE Sure' /\ NoAlarm
<1>1. log' = log /\ link' = link /\ stray' = stray /\ opened' = opened /\ calls' = calls
    BY DEF EditBack, daemon, screen
<1>2. shown = opened /\ opened \in Sessions
    BY Shown DEF EditBack, Latest
<1>3. PICK x \in SessionState : x = note[opened] /\ x.loaded
    BY <1>2 DEF EditBack, IInv, Types, NoteOK
<1>4. x.saving = None
  <2>1. ~\E i \in 1 .. Len(calls) : calls[i].op = "save"
      BY <1>2 DEF EditBack, OwnUnknown, Plain, May
  <2> QED BY <1>2, <1>3, <2>1 DEF IInv, OneSave, Match, IsSave
<1> DEFINE y == [x EXCEPT !.draft = None, !.failed = FALSE, !.touched = TRUE]
<1>5. y \in SessionState /\ y.draft = None /\ y.saving = None /\ y.loaded /\ y.expected = x.expected /\ y.conflict = x.conflict
    BY <1>3, <1>4 DEF SessionState
<1>6. note' = [note EXCEPT ![opened] = y]
    BY <1>2, <1>3 DEF EditBack, IInv, Types, NoteOK
<1> HIDE DEF y
<1>7. kept' = kept \/ kept' = None
    BY DEF EditBack
<1>8. SessionSound(x, kept, calls)
    BY <1>2, <1>3 DEF Sure, Sessions
<1>9. SessionSound(y, kept', calls')
    BY <1>1, <1>3, <1>5, <1>8 DEF SessionSound
<1>10. KeptSound(kept', calls') /\ InTurn(calls') /\ link' /\ stray' = {}
    BY <1>1, <1>7 DEF Sure, KeptSound
<1>11. Sure' /\ (\A s \in Sessions : s # opened => note'[s] = note[s]) /\ note'[opened] = y
    BY <1>1, <1>2, <1>5, <1>6, <1>9, <1>10, SureSession
<1> QED BY <1>3, <1>5, <1>11 DEF NoAlarm

LEMMA EditSure ==
    ASSUME IInv, NotesAssumption, Latest, Sure, NEW t \in Texts, Edit(t) PROVE Sure' /\ NoAlarm
<1>1. log' = log /\ link' = link /\ stray' = stray /\ opened' = opened /\ calls' = calls
    BY DEF Edit, daemon, screen
<1>2. shown = opened /\ opened \in Sessions
    BY Shown DEF Edit, Latest
<1>3. PICK x \in SessionState : x = note[opened] /\ x.loaded
    BY <1>2 DEF Edit, IInv, Types, NoteOK
<1>4. PICK b \in Nat : b = IF x.draft = None THEN x.expected ELSE x.draft.base
  <2>1. x.draft # None => x.draft.base \in Nat
      BY DEF SessionState, Draft
  <2> QED BY <2>1 DEF SessionState
<1>15. PICK d \in Draft : d.base = b /\ d = [text |-> t, base |-> IF x.draft = None THEN x.expected ELSE x.draft.base]
  <2>1. [text |-> t, base |-> b] \in Draft /\ [text |-> t, base |-> b].base = b
      BY DEF Draft
  <2> QED BY <1>4, <2>1
<1>5. d # None /\ kept' = d
    BY <1>2, <1>3, <1>15 DEF Edit, NotesAssumption
<1>6. PICK f \in BOOLEAN : f = (x.conflict /\ x.failed)
    BY Zenon DEF SessionState
<1>7. PICK r \in BOOLEAN : r = (~x.conflict \/ x.timer)
    BY Zenon DEF SessionState
<1> DEFINE y == [x EXCEPT !.draft = d, !.touched = TRUE, !.failed = f, !.timer = r]
<1>8. y \in SessionState /\ y.draft = d /\ y.loaded /\ y.expected = x.expected /\ y.conflict = x.conflict
    BY <1>3 DEF SessionState
<1>9. note' = [note EXCEPT ![opened] = y]
    BY <1>2, <1>3, <1>6, <1>7, <1>15 DEF Edit
<1> HIDE DEF y
<1>10. SessionSound(x, kept, calls)
    BY <1>2, <1>3 DEF Sure, Sessions
<1>11. Sound(d.base, calls')
    BY <1>1, <1>3, <1>4, <1>10, <1>15 DEF SessionSound
<1>12. SessionSound(y, kept', calls')
    BY <1>1, <1>3, <1>5, <1>8, <1>10, <1>11 DEF SessionSound
<1>13. KeptSound(kept', calls') /\ InTurn(calls') /\ link' /\ stray' = {}
    BY <1>1, <1>5, <1>11 DEF Sure, KeptSound
<1>14. Sure' /\ (\A s \in Sessions : s # opened => note'[s] = note[s]) /\ note'[opened] = y
    BY <1>1, <1>2, <1>8, <1>9, <1>12, <1>13, SureSession
<1> QED BY <1>3, <1>8, <1>14 DEF NoAlarm

LEMMA AutosaveSure ==
    ASSUME IInv, NotesAssumption, Latest, Sure, NEW s \in Sessions, Autosave(s) PROVE Sure' /\ NoAlarm
<1>1. s = opened
    BY DEF Autosave, Latest
<1>2. PICK x \in SessionState : x = note[opened] /\ Mild(note[opened], x)
    BY <1>1 DEF IInv, Types, NoteOK, Mild
<1>3. log' = log /\ link' = link /\ stray' = stray /\ opened' = opened
    BY DEF Autosave, daemon, screen
<1> QED BY <1>1, <1>2, <1>3, SavingSure DEF Autosave

LEMMA FlushSure == ASSUME IInv, NotesAssumption, Latest, Sure, Flush PROVE Sure' /\ NoAlarm
<1>1. shown = opened /\ opened \in Sessions
    BY Shown DEF Flush, Latest
<1>2. PICK x \in SessionState : x = note[opened] /\ Mild(note[opened], x)
    BY <1>1 DEF IInv, Types, NoteOK, Mild
<1>3. log' = log /\ link' = link /\ stray' = stray /\ opened' = opened
    BY DEF Flush, daemon, screen
<1> QED BY <1>1, <1>2, <1>3, SavingSure DEF Flush

LEMMA RetrySure == ASSUME IInv, NotesAssumption, Latest, Sure, Retry PROVE Sure' /\ NoAlarm
<1>1. shown = opened /\ opened \in Sessions
    BY Shown DEF Retry, Latest
<1>2. PICK x \in SessionState : x = note[opened]
    BY <1>1 DEF IInv, Types, NoteOK
<1>3. PICK y \in SessionState : y = [x EXCEPT !.failed = FALSE] /\ Mild(x, y) /\ y.saving = x.saving
  <2> DEFINE y == [x EXCEPT !.failed = FALSE]
  <2>1. y \in SessionState /\ Mild(x, y) /\ y.saving = x.saving
      BY DEF SessionState, Mild
  <2> QED BY <2>1
<1>4. log' = log /\ link' = link /\ stray' = stray /\ opened' = opened /\ Save(opened, y, calls)
    BY <1>1, <1>2, <1>3 DEF Retry, daemon, screen
<1> QED BY <1>1, <1>2, <1>3, <1>4, SavingSure

LEMMA ChooseSure ==
    ASSUME IInv, NotesAssumption, Latest, Sure, NEW op \in {"mine", "theirs"}, Choose(op) PROVE Sure' /\ NoAlarm
<1>1. PICK s \in Sessions : s = shown
    BY Shown DEF Choose
<1>2. PICK c \in Calls : c = Call(s, op, Blank, 0) /\ c.op # "save" /\ c.answer = None
    BY CallType DEF NotesAssumption, Ops
<1>3. /\ log' = log /\ link' = link /\ stray' = stray /\ opened' = opened /\ kept' = kept
      /\ calls' = Append(calls, c) /\ note' = note
    BY <1>1, <1>2 DEF Choose, daemon, screen, Sure
<1> QED BY <1>2, <1>3, AskSure

\* Without "late" the phone handles its answers in order: the oldest call is the
\* latest session's, and what is left of the calls is in turn.
LEMMA NextAnswer ==
    ASSUME IInv, Latest, Sure, left.may = {}, NEW i \in 1 .. Len(calls), NEW op, Answered(i, op)
    PROVE  /\ i = 1 /\ calls[i] \in Calls /\ calls[i] \in Asked(calls) /\ calls[i].by = opened /\ opened \in Sessions
           /\ RemoveAt(calls, i) \in Seq(Calls) /\ Asked(RemoveAt(calls, i)) \subseteq Asked(calls)
           /\ InTurn(RemoveAt(calls, i))
           /\ op # "save" => /\ Taken(calls) => Taken(RemoveAt(calls, i))
                             /\ Sound(calls[i].answer, RemoveAt(calls, i))
           /\ SessionSound(note[opened], kept, calls)
<1>1. i = 1 /\ calls[i].op = op /\ calls[i].answer # None
    BY DEF Answered, May
<1>2. /\ calls[i] \in Calls /\ calls[i] \in Asked(calls) /\ calls[i].by = opened /\ opened \in Sessions
      /\ RemoveAt(calls, i) \in Seq(Calls) /\ Asked(RemoveAt(calls, i)) \subseteq Asked(calls)
    BY AnswerLeaves
<1>3. calls \in Seq(Calls) /\ calls # << >> /\ InTurn(calls)
    BY LatestAsks DEF Sure
<1>4. InTurn(RemoveAt(calls, i)) /\ (Taken(calls) /\ ~Took(calls[i]) => Taken(RemoveAt(calls, i)))
      /\ (calls[i].op # "save" => Sound(calls[i].answer, RemoveAt(calls, i)))
    BY <1>1, <1>3, InTurnNext
<1>5. SessionSound(note[opened], kept, calls)
    BY <1>2 DEF Sure, Sessions
<1> QED BY <1>1, <1>2, <1>4, <1>5 DEF Took

LEMMA ReadAnsweredSure ==
    ASSUME IInv, NotesAssumption, Latest, Sure, left.may = {}, NEW i \in 1 .. Len(calls), ReadAnswered(i)
    PROVE  Sure' /\ AlarmIsTrue
<1> DEFINE cs == RemoveAt(calls, i)
<1>1. /\ calls[i].by = opened /\ opened \in Sessions /\ InTurn(cs) /\ (Taken(calls) => Taken(cs)) /\ Sound(calls[i].answer, cs)
      /\ SessionSound(note[opened], kept, calls) /\ Asked(cs) \subseteq Asked(calls)
  <2>1. Answered(i, "get")
      BY DEF ReadAnswered
  <2>2. "get" # "save" => /\ Taken(calls) => Taken(RemoveAt(calls, i))
                          /\ Sound(calls[i].answer, RemoveAt(calls, i))
      BY <2>1, NextAnswer
  <2>3. /\ calls[i].by = opened /\ opened \in Sessions /\ InTurn(RemoveAt(calls, i))
        /\ SessionSound(note[opened], kept, calls) /\ Asked(RemoveAt(calls, i)) \subseteq Asked(calls)
      BY <2>1, NextAnswer
  <2> QED BY <2>2, <2>3
<1>2. log' = log /\ link' = link /\ stray' = stray /\ opened' = opened /\ kept' = kept /\ calls' = cs
    BY DEF ReadAnswered, daemon, screen
<1> HIDE DEF cs
<1>3. PICK n \in Nat : n = calls[i].answer /\ n <= Current /\ Current \in Nat
  <2>1. calls[i].op = "get" /\ calls[i].answer # None /\ CallTrust(calls[i])
      BY Caller DEF ReadAnswered, Answered
  <2> QED BY <2>1, AnswerFacts DEF CallTrust
<1>4. PICK x \in SessionState : x = note[opened]
    BY <1>1 DEF IInv, Types, NoteOK
<1> DEFINE read == IF x.draft = None
                   THEN IF kept # None THEN Restore(x, n) ELSE [x EXCEPT !.base = n, !.expected = n]
                   ELSE IF x.saving = None THEN Underneath(x, n) ELSE x
<1>5. note' = [note EXCEPT ![opened] = [read EXCEPT !.loaded = TRUE]]
    BY <1>1, <1>3, <1>4 DEF ReadAnswered
<1>6. SessionSound(x, kept, calls) /\ KeptSound(kept, cs)
  <2>1. SessionSound(x, kept, calls) /\ KeptSound(kept, calls)
      BY <1>1, <1>4 DEF Sure
  <2> QED BY <1>1, <2>1 DEF KeptSound, Sound
<1>7. PICK y \in SessionState :
         /\ y = read
         /\ Sound(y.expected, cs) /\ (y.draft # None => Sound(y.draft.base, cs))
         /\ (y.draft = None /\ kept # None => y.saving = None)
         /\ (~x.conflict /\ y.conflict => Newer(y.expected))
  <2>1. CASE x.draft = None /\ kept # None
    <3>1. x.saving = None /\ ~Taken(cs) /\ Honest(kept.base)
      <4>1. x.saving = None
          BY <1>6, <2>1 DEF SessionSound
      <4>2. ~Taken(cs)
          BY <1>1, <1>4, <4>1, NoSaveTaken
      <4> QED BY <1>6, <2>1, <4>1, <4>2 DEF KeptSound, Sound
    <3>2. kept \in Draft /\ kept.base \in Nat
        BY <2>1 DEF IInv, Types, KeptOK, Draft
    <3>3. PICK y \in SessionState : y = Restore(x, n) /\ y.expected = kept.base /\ y.draft = kept /\ y.saving = None
        BY ZenonT(40), <3>1, <3>2, RestoreFacts
    <3>4. y.conflict => x.conflict \/ n > kept.base
        BY <3>3 DEF Restore, SessionState
    <3>5. n > kept.base => Newer(kept.base)
        BY <1>3, <3>1, <3>2 DEF Honest
    <3> QED BY <2>1, <3>1, <3>3, <3>4, <3>5 DEF Sound
  <2>2. CASE x.draft = None /\ kept = None
    <3> DEFINE y == [x EXCEPT !.base = n, !.expected = n]
    <3>1. y \in SessionState /\ y.expected = n /\ y.draft = None /\ y.conflict = x.conflict
        BY <2>2 DEF SessionState
    <3>2. y = read
        BY <2>2
    <3> HIDE DEF y, read
    <3> QED BY <1>1, <1>3, <2>2, <3>1, <3>2
  <2>3. CASE x.draft # None /\ x.saving = None
    <3>1. ~Taken(calls) /\ Honest(x.expected)
      <4>1. ~Taken(calls)
          BY <1>1, <1>4, <2>3, NoSaveTaken
      <4> QED BY <1>6, <2>3, <4>1 DEF SessionSound, Sound
    <3>2. PICK y \in SessionState : y = Underneath(x, n) /\ y.expected = x.expected /\ y.draft = x.draft
        BY UnderneathFacts
    <3>3. y.conflict => x.conflict \/ n > x.expected
        BY <3>2 DEF Underneath, SessionState
    <3>4. n > x.expected => Newer(x.expected)
      <4>1. x.expected \in Nat
          BY DEF SessionState
      <4> QED BY <1>3, <3>1, <4>1 DEF Honest
    <3>5. Sound(x.draft.base, cs)
        BY <1>1, <1>6, <2>3 DEF SessionSound, Sound
    <3> QED BY <2>3, <3>1, <3>2, <3>3, <3>4, <3>5 DEF Sound
  <2>4. CASE x.draft # None /\ x.saving # None
      BY <1>1, <1>6, <2>4 DEF SessionSound, Sound
  <2> QED BY <2>1, <2>2, <2>3, <2>4
<1> DEFINE z == [y EXCEPT !.loaded = TRUE]
<1>8. z \in SessionState /\ z.loaded /\ z.expected = y.expected /\ z.draft = y.draft /\ z.saving = y.saving /\ z.conflict = y.conflict
    BY DEF SessionState
<1>9. note' = [note EXCEPT ![opened] = z]
    BY <1>5, <1>7
<1> HIDE DEF z, read
<1>10. SessionSound(z, kept', calls') /\ KeptSound(kept', calls') /\ InTurn(calls') /\ link' /\ stray' = {}
    BY <1>1, <1>2, <1>6, <1>7, <1>8 DEF SessionSound, Sure
<1>11. Sure' /\ (\A s \in Sessions : s # opened => note'[s] = note[s]) /\ note'[opened] = z
    BY <1>1, <1>2, <1>8, <1>9, <1>10, SureSession
<1>12. ASSUME NEW s \in Sessions, ~note[s].conflict, note'[s].conflict
       PROVE  \E e \in Expectations(s) : \E m \in (e + 1) .. Current' : log'[m].by = "other"
  <2>1. s = opened /\ Newer(note'[s].expected)
      BY <1>4, <1>7, <1>8, <1>11, <1>12
  <2> QED BY <1>2, <2>1 DEF Expectations, Newer, Current
<1> QED BY <1>11, <1>12 DEF AlarmIsTrue

\* A save that was taken is the last revision of the phone.
LEMMA SaveTakenSure ==
    ASSUME IInv, NotesAssumption, Latest, Sure, left.may = {}, NEW i \in 1 .. Len(calls), SaveTaken(i)
    PROVE  Sure' /\ NoAlarm
<1> DEFINE cs == RemoveAt(calls, i)
<1>1. /\ calls[i].by = opened /\ opened \in Sessions /\ InTurn(cs) /\ SessionSound(note[opened], kept, calls)
    BY NextAnswer DEF SaveTaken
<1>2. log' = log /\ link' = link /\ stray' = stray /\ opened' = opened /\ calls' = cs
    BY DEF SaveTaken, daemon, screen
<1> HIDE DEF cs
<1>3. PICK n \in Nat : n = calls[i].answer
    BY AnswerFacts DEF SaveTaken, Answered
<1>4. Honest(n)
  <2>1. SaveSound(calls[i]) /\ calls[i].answer # None /\ calls[i].answer # Conflict
      BY DEF SaveTaken, Answered, Sure, InTurn
  <2> QED BY <1>3, <2>1 DEF SaveSound
<1>5. PICK x \in SessionState : x = note[opened]
    BY <1>1 DEF IInv, Types, NoteOK
<1>6. PICK y \in SessionState :
          /\ y = AfterSave(x, n) /\ y.expected = n
          /\ y.draft # None => y.draft.base = n
  <2>1. AfterSave(x, n) \in SessionState /\ AfterSave(x, n).expected = n
        /\ (AfterSave(x, n).draft # None => AfterSave(x, n).draft.base = n)
      BY AfterSaveFacts
  <2> QED BY <2>1
<1>7. note' = [note EXCEPT ![opened] = y] /\ kept' = y.draft
    BY <1>1, <1>3, <1>5, <1>6 DEF SaveTaken
<1>8. y.loaded = x.loaded /\ y.conflict = x.conflict /\ (x.draft = None => y.draft = None)
  <2>1. PICK b \in SessionState : b = Based(x, n) /\ b.draft = x.draft /\ b.loaded = x.loaded /\ b.conflict = x.conflict
    <3>1. Based(x, n) \in SessionState /\ Based(x, n).draft = x.draft /\ Based(x, n).loaded = x.loaded
          /\ Based(x, n).conflict = x.conflict
        BY DEF Based, SessionState
    <3> QED BY <3>1
  <2>2. y = [b EXCEPT !.draft.base = n, !.timer = TRUE] \/ y = [b EXCEPT !.draft = None]
      BY <1>6, <2>1 DEF AfterSave
  <2>3. x.draft = None => y = [b EXCEPT !.draft = None]
      BY <1>6, <2>1 DEF AfterSave
  <2>4. /\ [b EXCEPT !.draft.base = n, !.timer = TRUE].loaded = b.loaded
        /\ [b EXCEPT !.draft.base = n, !.timer = TRUE].conflict = b.conflict
        /\ [b EXCEPT !.draft = None].loaded = b.loaded /\ [b EXCEPT !.draft = None].conflict = b.conflict
        /\ [b EXCEPT !.draft = None].draft = None
      BY DEF SessionState
  <2> QED BY <2>1, <2>2, <2>3, <2>4
<1>9. SessionSound(y, kept', calls') /\ KeptSound(kept', calls') /\ InTurn(calls') /\ link' /\ stray' = {}
    BY <1>1, <1>2, <1>4, <1>5, <1>6, <1>7, <1>8 DEF SessionSound, KeptSound, Sound, Sure
<1>10. Sure' /\ (\A s \in Sessions : s # opened => note'[s] = note[s]) /\ note'[opened] = y
    BY <1>1, <1>2, <1>7, <1>9, SureSession
<1> QED BY <1>5, <1>8, <1>10 DEF NoAlarm

\* A save that was refused: somebody else had saved after what it expected.
LEMMA SaveRefusedSure ==
    ASSUME IInv, NotesAssumption, Latest, Sure, left.may = {}, NEW i \in 1 .. Len(calls), SaveRefused(i)
    PROVE  Sure' /\ AlarmIsTrue
<1> DEFINE cs == RemoveAt(calls, i)
<1>1. /\ calls[i].by = opened /\ opened \in Sessions /\ InTurn(cs) /\ SessionSound(note[opened], kept, calls)
    BY NextAnswer DEF SaveRefused
<1>2. log' = log /\ link' = link /\ stray' = stray /\ opened' = opened /\ kept' = kept /\ calls' = cs
    BY DEF SaveRefused, daemon, screen
<1> HIDE DEF cs
<1>3. calls[i].op = "save" /\ calls[i].answer = Conflict /\ Newer(calls[i].expected)
  <2>1. calls[i].op = "save" /\ calls[i].answer = Conflict /\ SaveSound(calls[i])
      BY DEF SaveRefused, Answered, Sure, InTurn
  <2> QED BY <2>1 DEF SaveSound, NotesAssumption
<1>4. ~Taken(calls)
  <2> SUFFICES ASSUME NEW j \in 1 .. Len(calls), Took(calls[j]) PROVE FALSE
      BY DEF Taken, Asked
  <2>1. IsSave(calls[j], calls[i].by)
      BY <1>1, LatestAsks DEF Took, IsSave
  <2>2. i = j
      BY <1>3, <2>1 DEF IInv, OneSave, Match
  <2> QED BY <1>3, <2>2 DEF Took, NotesAssumption
<1>5. PICK x \in SessionState : x = note[opened]
    BY <1>1 DEF IInv, Types, NoteOK
<1> DEFINE y == [x EXCEPT !.conflict = TRUE, !.saving = None, !.failed = FALSE]
<1>6. y \in SessionState /\ y.loaded = x.loaded /\ y.expected = x.expected /\ y.draft = x.draft /\ y.saving = None
    BY DEF SessionState
<1>7. note' = [note EXCEPT ![opened] = y]
    BY <1>1, <1>5 DEF SaveRefused, IInv, Types, NoteOK
<1> HIDE DEF y
<1>8. SessionSound(y, kept', calls') /\ KeptSound(kept', calls') /\ InTurn(calls') /\ link' /\ stray' = {}
    BY <1>1, <1>2, <1>4, <1>5, <1>6 DEF SessionSound, KeptSound, Sound, Sure
<1>9. Sure' /\ (\A s \in Sessions : s # opened => note'[s] = note[s])
    BY <1>1, <1>2, <1>6, <1>7, <1>8, SureSession
<1>10. calls[i].expected \in Expectations(opened)
    BY <1>1, <1>3 DEF Expectations, Saves, Out
<1>11. \E m \in (calls[i].expected + 1) .. Current' : log'[m].by = "other"
    BY <1>2, <1>3 DEF Newer, Current
<1> QED BY <1>9, <1>10, <1>11 DEF AlarmIsTrue

LEMMA KeepMineSure ==
    ASSUME IInv, NotesAssumption, Latest, Sure, left.may = {}, NEW i \in 1 .. Len(calls), KeepMine(i)
    PROVE  Sure' /\ NoAlarm
<1>1. /\ calls[i].by = opened /\ opened \in Sessions /\ InTurn(RemoveAt(calls, i)) /\ (Taken(calls) => Taken(RemoveAt(calls, i)))
      /\ Sound(calls[i].answer, RemoveAt(calls, i)) /\ SessionSound(note[opened], kept, calls)
      /\ RemoveAt(calls, i) \in Seq(Calls) /\ Asked(RemoveAt(calls, i)) \subseteq Asked(calls)
    BY NextAnswer DEF KeepMine
<1>2. log' = log /\ link' = link /\ stray' = stray /\ opened' = opened
    BY DEF KeepMine, daemon, screen
<1>3. PICK n \in Nat : n = calls[i].answer
  <2>1. calls[i].op = "mine" /\ calls[i].answer # None /\ CallTrust(calls[i])
      BY Caller DEF KeepMine, Answered
  <2> QED BY <2>1, AnswerFacts DEF CallTrust
<1>4. PICK x \in SessionState : x = note[opened]
    BY <1>1 DEF IInv, Types, NoteOK
<1>5. PICK cs \in Seq(Calls) : cs = RemoveAt(calls, i)
    BY <1>1
<1> DEFINE y == [x EXCEPT !.base = n, !.expected = n, !.conflict = FALSE, !.failed = FALSE, !.touched = TRUE]
<1>6. y \in SessionState /\ y.draft = x.draft /\ y.saving = x.saving /\ y.loaded = x.loaded /\ y.expected = n /\ ~y.conflict
    BY DEF SessionState
<1>7. Save(opened, IF x.draft = None THEN y ELSE [y EXCEPT !.draft.base = n], cs)
    BY <1>1, <1>3, <1>4, <1>5 DEF KeepMine
<1> HIDE DEF y
<1>8. PICK z \in SessionState :
         /\ z = IF x.draft = None THEN y ELSE [y EXCEPT !.draft.base = n]
         /\ z.saving = x.saving /\ z.loaded = x.loaded /\ z.expected = n /\ ~z.conflict
         /\ z.draft = None <=> x.draft = None
         /\ z.draft # None => z.draft.base = n
  <2>1. CASE x.draft = None
      BY <1>6, <2>1
  <2>2. CASE x.draft # None
    <3>1. y.draft \in Draft
        BY <1>6, <2>2 DEF SessionState
    <3>2. PICK d \in Draft : d = [y.draft EXCEPT !.base = n] /\ d.base = n
      <4>1. [y.draft EXCEPT !.base = n] \in Draft /\ [y.draft EXCEPT !.base = n].base = n
          BY <3>1 DEF Draft
      <4> QED BY <4>1
    <3> DEFINE z == [y EXCEPT !.draft = d]
    <3>3. z \in SessionState /\ z.saving = x.saving /\ z.draft = d /\ z.loaded = x.loaded /\ z.expected = n /\ ~z.conflict
        BY <1>6 DEF SessionState
    <3>4. z = [y EXCEPT !.draft.base = n]
        BY <1>6, <3>2
    <3> HIDE DEF z
    <3> QED BY <2>2, <3>2, <3>3, <3>4 DEF NotesAssumption
  <2> QED BY <2>1, <2>2
<1>9. SessionSound(z, kept, cs) /\ KeptSound(kept, cs)
    BY <1>1, <1>3, <1>4, <1>5, <1>8 DEF SessionSound, KeptSound, Sound, Sure
<1>10. Save(opened, z, cs) /\ z.saving = note[opened].saving /\ (z.conflict => note[opened].conflict)
       /\ Asked(cs) \subseteq Asked(calls) /\ InTurn(cs) /\ link' /\ stray' = {}
    BY <1>1, <1>2, <1>4, <1>5, <1>7, <1>8 DEF Sure
<1> QED BY <1>1, <1>2, <1>9, <1>10, SureSave

LEMMA LoadTheirsSure ==
    ASSUME IInv, NotesAssumption, Latest, Sure, left.may = {}, NEW i \in 1 .. Len(calls), LoadTheirs(i)
    PROVE  Sure' /\ NoAlarm
<1> DEFINE cs == RemoveAt(calls, i)
<1>1. /\ calls[i].by = opened /\ opened \in Sessions /\ InTurn(cs) /\ Sound(calls[i].answer, cs)
    BY NextAnswer DEF LoadTheirs
<1>2. log' = log /\ link' = link /\ stray' = stray /\ opened' = opened /\ kept' = None /\ calls' = cs
    BY DEF LoadTheirs, daemon, screen
<1> HIDE DEF cs
<1>3. PICK n \in Nat : n = calls[i].answer
  <2>1. calls[i].op = "theirs" /\ calls[i].answer # None /\ CallTrust(calls[i])
      BY Caller DEF LoadTheirs, Answered
  <2> QED BY <2>1, AnswerFacts DEF CallTrust
<1>4. PICK x \in SessionState : x = note[opened]
    BY <1>1 DEF IInv, Types, NoteOK
<1> DEFINE y == [x EXCEPT !.base = n, !.expected = n, !.draft = None, !.touched = TRUE,
                          !.conflict = FALSE, !.failed = FALSE]
<1>5. y \in SessionState /\ y.expected = n /\ y.draft = None /\ ~y.conflict
    BY DEF SessionState
<1>6. note' = [note EXCEPT ![opened] = y]
    BY <1>1, <1>3, <1>4 DEF LoadTheirs, IInv, Types, NoteOK
<1> HIDE DEF y
<1>7. SessionSound(y, kept', calls') /\ KeptSound(kept', calls') /\ InTurn(calls') /\ link' /\ stray' = {}
    BY <1>1, <1>2, <1>3, <1>5 DEF SessionSound, KeptSound, Sure
<1>8. Sure' /\ (\A s \in Sessions : s # opened => note'[s] = note[s]) /\ note'[opened] = y
    BY <1>1, <1>2, <1>5, <1>6, <1>7, SureSession
<1> QED BY <1>5, <1>8 DEF NoAlarm

LEMMA ServeReadSure ==
    ASSUME IInv, NotesAssumption, Latest, Sure, left.may = {}, NEW i \in 1 .. Len(calls), ServeRead(i)
    PROVE  Sure' /\ NoAlarm
<1>1. log' = log /\ link' = link /\ stray' = stray /\ opened' = opened /\ kept' = kept /\ note' = note
    BY DEF ServeRead, daemon, screen
<1>2. PICK cs \in Seq(Calls) : cs = calls /\ InTurn(cs) /\ Len(cs) \in Nat
    BY LatestAsks DEF Sure
<1>3. cs[i].op # "save" /\ cs[i].answer = None /\ Current \in Nat /\ calls' = [cs EXCEPT ![i].answer = Current]
    BY <1>2 DEF ServeRead, IInv, Types, LogOK, Current
<1> DEFINE c == [cs[i] EXCEPT !.answer = Current]
           ds == [cs EXCEPT ![i] = c]
<1>4. c.op = cs[i].op /\ c.answer = Current /\ c.answer # None /\ calls' = ds
  <2>1. cs[i] \in Calls
      BY <1>2
  <2> QED BY <1>3, <2>1 DEF Calls, NotesAssumption
<1> HIDE DEF c
<1>5. Len(ds) = Len(cs) /\ \A j \in 1 .. Len(cs) : ds[j] = IF j = i THEN c ELSE cs[j]
    BY <1>2
<1> HIDE DEF ds
<1>6. Taken(cs) => Taken(ds)
  <2>1. \A j \in 1 .. Len(cs) : Took(cs[j]) => j # i
      BY <1>3 DEF Took
  <2> QED BY <1>5, <2>1 DEF Taken, Asked
<1>7. Honest(Current)
    BY <1>3 DEF Honest
<1>8. InTurn(ds)
  <2>1. \A j \in 1 .. Len(ds) : ds[j].op = "save" => SaveSound(ds[j])
      BY <1>2, <1>3, <1>4, <1>5 DEF InTurn
  <2>2. ASSUME NEW j \in 1 .. Len(ds), ds[j].op # "save", ds[j].answer # None
        PROVE  Honest(ds[j].answer) \/ \E k \in 1 .. Len(ds) : k > j /\ Took(ds[k])
    <3>1. CASE j = i
        BY <1>2, <1>4, <1>5, <1>7, <3>1
    <3>2. CASE j # i
      <4>1. Honest(cs[j].answer) \/ \E k \in 1 .. Len(cs) : k > j /\ Took(cs[k])
          BY <1>2, <1>5, <2>2, <3>2 DEF InTurn
      <4>2. \A k \in 1 .. Len(cs) : Took(cs[k]) => ds[k] = cs[k]
          BY <1>3, <1>5 DEF Took
      <4> QED BY <1>5, <3>2, <4>1, <4>2
    <3> QED BY <3>1, <3>2
  <2>3. ASSUME NEW j \in 1 .. Len(ds), NEW k \in 1 .. Len(ds), j < k, ds[k].answer # None PROVE ds[j].answer # None
    <3>1. CASE k = i
      <4>1. calls[j].answer # None
          BY <1>2, <2>3, <3>1 DEF ServeRead, Turn, May
      <4> QED BY <1>2, <1>5, <2>3, <3>1, <4>1
    <3>2. CASE k # i
        BY <1>2, <1>4, <1>5, <2>3, <3>2 DEF InTurn
    <3> QED BY <3>1, <3>2
  <2> QED BY <2>1, <2>2, <2>3 DEF InTurn
<1>9. KeptSound(kept', calls') /\ (opened' # 0 => SessionSound(note'[opened'], kept', calls')) /\ InTurn(calls')
      /\ link' /\ stray' = {}
    BY <1>1, <1>2, <1>4, <1>6, <1>8 DEF Sure, KeptSound, SessionSound, Sound
<1> QED BY <1>1, <1>9, SureOn DEF NoAlarm

\* A revision of another device makes everything true that was.
LEMMA NewerStays ==
    ASSUME LogOK, LogOK', Len(log) <= Len(log'), \A n \in 1 .. Len(log) : log'[n] = log[n], NEW e \in Nat
    PROVE  Newer(e) => Newer(e)'
  BY DEF LogOK, Newer, Current

\* The daemon takes a save: what the phone went by is behind it now, and the
\* answer that says so is to come; or it is told what it had to know.
LEMMA ServeSaveSure ==
    ASSUME IInv, IInv', NotesAssumption, Latest, Sure, left.may = {}, NEW i \in 1 .. Len(calls), ServeSave(i)
    PROVE  Sure' /\ NoAlarm
<1>1. link' = link /\ stray' = stray /\ opened' = opened /\ kept' = kept /\ note' = note
    BY DEF ServeSave, screen
<1>2. PICK cs \in Seq(Calls) : cs = calls /\ InTurn(cs) /\ Len(cs) \in Nat /\ cs[i] \in Calls
    BY LatestAsks DEF Sure
<1>3. /\ cs[i].op = "save" /\ cs[i].answer = None /\ Take(cs[i].text, cs[i].expected, "phone")
      /\ cs[i].text \in Texts /\ cs[i].expected \in Nat /\ cs[i].expected <= Current
    BY <1>2, Caller DEF ServeSave, Calls, CallTrust, Trusted
<1>4. /\ LogOK /\ LogOK' /\ Len(log) <= Len(log') /\ \A n \in 1 .. Len(log) : log'[n] = log[n]
    BY <1>3, TakeFacts DEF IInv, Types
<1>5. Current \in Nat /\ Current' \in Nat /\ Current <= Current' /\ Len(log') = Current'
    BY <1>4 DEF LogOK, Current
<1>6. PICK r \in BOOLEAN : r = Refused(cs[i].text, cs[i].expected)
    BY Zenon DEF Refused
<1>7. PICK a \in Nat \union {Conflict} : a = IF r THEN Conflict ELSE Current'
    BY <1>5
<1> DEFINE c == [cs[i] EXCEPT !.answer = a]
           ds == [cs EXCEPT ![i] = c]
<1>8. c.op = "save" /\ c.expected = cs[i].expected /\ c.answer = a /\ a # None /\ calls' = ds
    BY <1>2, <1>3, <1>5, <1>6, <1>7 DEF Calls, ServeSave, NotesAssumption
<1> HIDE DEF c
<1>9. Len(ds) = Len(cs) /\ \A j \in 1 .. Len(cs) : ds[j] = IF j = i THEN c ELSE cs[j]
    BY <1>2
<1> HIDE DEF ds
<1>10. \A j \in 1 .. Len(cs) : cs[j].op = "save" => j = i
  <2>1. \A j \in 1 .. Len(cs) : cs[j].by = cs[i].by
      BY <1>2, LatestAsks
  <2> QED BY <1>2, <1>3, <2>1 DEF IInv, OneSave, Match, IsSave
<1>11. ~Taken(cs)
    BY <1>3, <1>10 DEF Taken, Asked, Took, NotesAssumption
<1>12. \A e \in Nat : Newer(e) => Newer(e)'
    BY <1>4, NewerStays
<1>13. CASE r
  <2>1. log' = log
      BY <1>3, <1>6, <1>13 DEF Take, Written, Refused
  <2>2. a = Conflict /\ Current > cs[i].expected
    <3>1. Refused(cs[i].text, cs[i].expected)
        BY Zenon, <1>6, <1>13
    <3>2. a = Conflict
        BY Zenon, <1>7, <1>13
    <3>3. cs[i].expected # Current
        BY <3>1 DEF Refused
    <3> QED BY <1>3, <1>5, <3>2, <3>3
  <2>3. Newer(cs[i].expected)
    <3>1. SaveSound(cs[i])
        BY <1>2, <1>3 DEF InTurn
    <3> QED BY <1>3, <2>2, <3>1 DEF SaveSound, Honest
  <2>4. InTurn(ds)
    <3>1. \A j \in 1 .. Len(ds) : ds[j].op = "save" => SaveSound(ds[j])
        BY <1>8, <1>9, <1>10, <2>2, <2>3 DEF SaveSound
    <3>2. ASSUME NEW j \in 1 .. Len(ds), ds[j].op # "save", ds[j].answer # None PROVE Honest(ds[j].answer)
      <4>1. j # i /\ ds[j] = cs[j]
          BY <1>8, <1>9, <3>2
      <4>2. Honest(cs[j].answer) \/ \E k \in 1 .. Len(cs) : k > j /\ Took(cs[k])
          BY <1>2, <1>9, <3>2, <4>1 DEF InTurn
      <4> QED BY <1>11, <4>1, <4>2 DEF Taken, Asked
    <3>3. ASSUME NEW j \in 1 .. Len(ds), NEW k \in 1 .. Len(ds), j < k, ds[k].answer # None PROVE ds[j].answer # None
      <4>1. CASE k = i
        <5>1. calls[j].answer # None
            BY <1>2, <3>3, <4>1 DEF ServeSave, Turn, May
        <5> QED BY <1>2, <1>9, <3>3, <4>1, <5>1
      <4>2. CASE k # i
          BY <1>2, <1>8, <1>9, <3>3, <4>2 DEF InTurn
      <4> QED BY <4>1, <4>2
    <3> QED BY <3>1, <3>2, <3>3 DEF InTurn
  <2>5. KeptSound(kept', calls') /\ (opened' # 0 => SessionSound(note'[opened'], kept', calls')) /\ InTurn(calls')
        /\ link' /\ stray' = {}
      BY <1>1, <1>2, <1>8, <1>11, <2>4 DEF Sure, KeptSound, SessionSound, Sound
  <2> QED BY <1>1, <2>1, <2>5, SureOn DEF NoAlarm
<1>14. CASE ~r
  <2>1. a \in Nat /\ a = Current'
      BY <1>5, <1>7, <1>14
  <2>2. Taken(ds)
      BY <1>8, <1>9, <2>1, <1>2 DEF Taken, Asked, Took
  <2>3. Honest(a)'
      BY <1>5, <2>1 DEF Honest
  <2>4. InTurn(calls)'
    <3>1. \A j \in 1 .. Len(ds) : ds[j].op = "save" => SaveSound(ds[j])'
      <4>1. ASSUME NEW j \in 1 .. Len(ds), ds[j].op = "save" PROVE SaveSound(ds[j])'
        <5>1. ds[j] = c
            BY <1>9, <1>10, <4>1
        <5>2. a # None /\ a # Conflict
            BY <1>8, <2>1 DEF NotesAssumption
        <5> QED BY <1>5, <1>8, <2>1, <5>1, <5>2 DEF SaveSound, Honest
      <4> QED BY <4>1
    <3>2. ASSUME NEW j \in 1 .. Len(ds), ds[j].op # "save", ds[j].answer # None
          PROVE  \E k \in 1 .. Len(ds) : k > j /\ Took(ds[k])
      <4>1. j # i /\ ds[j] = cs[j]
          BY <1>8, <1>9, <3>2
      <4>2. ~(j > i)
          BY <1>2, <1>3, <1>9, <3>2, <4>1 DEF InTurn
      <4>3. Took(ds[i]) /\ i \in 1 .. Len(ds) /\ i > j
          BY <1>2, <1>8, <1>9, <2>1, <4>1, <4>2 DEF Took
      <4> QED BY <4>3
    <3>3. ASSUME NEW j \in 1 .. Len(ds), NEW k \in 1 .. Len(ds), j < k, ds[k].answer # None PROVE ds[j].answer # None
      <4>1. CASE k = i
        <5>1. calls[j].answer # None
            BY <1>2, <3>3, <4>1 DEF ServeSave, Turn, May
        <5> QED BY <1>2, <1>9, <3>3, <4>1, <5>1
      <4>2. CASE k # i
          BY <1>2, <1>8, <1>9, <3>3, <4>2 DEF InTurn
      <4> QED BY <4>1, <4>2
    <3>4. \A j \in 1 .. Len(ds) : ds[j].op # "save" /\ ds[j].answer # None
              => \E k \in 1 .. Len(ds) : k > j /\ ds[k].op = "save" /\ ds[k].answer \in Nat
        BY <3>2 DEF Took
    <3> QED BY <1>8, <3>1, <3>3, <3>4 DEF InTurn, Took, SaveSound
  <2>5. Taken(calls)'
      BY <1>8, <2>2 DEF Taken, Took
  <2>6. KeptSound(kept, calls)' /\ (opened # 0 => SessionSound(note[opened], kept, calls))'
      BY <1>1, <2>5 DEF Sure, KeptSound, SessionSound, Sound
  <2> QED BY <1>1, <2>4, <2>6 DEF Sure, NoAlarm
<1> QED BY <1>13, <1>14

\* A revision of another device is newer than anything the phone goes by.
LEMMA OtherSavesSure ==
    ASSUME IInv, IInv', NotesAssumption, Latest, Sure, NEW t \in Texts, OtherSaves(t)
    PROVE  Sure' /\ NoAlarm
<1>1. link' = link /\ stray' = stray /\ opened' = opened /\ kept' = kept /\ note' = note /\ calls' = calls
    BY DEF OtherSaves, screen
<1>2. log' = Append(log, [text |-> t, by |-> "other"])
    BY DEF OtherSaves, Take
<1>3. Current \in Nat /\ Current' = Current + 1 /\ log'[Current'].by = "other"
    BY <1>2 DEF IInv, Types, LogOK, Current
<1>4. ASSUME NEW e \in Nat PROVE Honest(e)' /\ (Newer(e) => Newer(e)')
  <2>1. e < Current' => Newer(e)'
      BY <1>3 DEF Newer
  <2>2. Newer(e) => e < Current'
      BY <1>3 DEF Newer
  <2> QED BY <2>1, <2>2 DEF Honest
<1>5. InTurn(calls)'
  <2>1. \A j \in 1 .. Len(calls) : calls[j] \in Calls
      BY DEF IInv, Types, CallsOK
  <2>2. ASSUME NEW j \in 1 .. Len(calls), calls[j].op = "save" PROVE SaveSound(calls[j])'
    <3>1. calls[j].expected \in Nat /\ (calls[j].answer \in Nat \/ calls[j].answer = None \/ calls[j].answer = Conflict)
        BY <2>1 DEF Calls
    <3>2. SaveSound(calls[j])
        BY <2>2 DEF Sure, InTurn
    <3> QED BY <1>1, <1>4, <3>1, <3>2 DEF SaveSound
  <2>3. ASSUME NEW j \in 1 .. Len(calls), calls[j].op # "save", calls[j].answer # None PROVE Honest(calls[j].answer)'
    <3>1. calls[j].answer \in Nat
      <4>1. calls[j].answer # Conflict
          BY <2>3, Caller DEF CallTrust
      <4> QED BY <2>1, <2>3, <4>1 DEF Calls
    <3>2. \A e \in Nat : Honest(e)'
        BY <1>4
    <3> QED BY <1>1, <3>1, <3>2 DEF Honest
  <2>4. \A j, k \in 1 .. Len(calls) : j < k /\ calls[k].answer # None => calls[j].answer # None
      BY DEF Sure, InTurn
  <2> QED BY <1>1, <2>2, <2>3, <2>4 DEF InTurn
<1>6. KeptSound(kept, calls)'
  <2>1. kept # None => kept.base \in Nat
      BY DEF IInv, Types, KeptOK, Draft
  <2> QED BY <1>1, <1>4, <2>1 DEF KeptSound, Sound
<1>7. (opened # 0 => SessionSound(note[opened], kept, calls))'
  <2> SUFFICES ASSUME opened # 0 PROVE SessionSound(note[opened], kept, calls)'
      BY <1>1
  <2>1. opened \in Sessions
      BY DEF IInv, Types, ScreenOK, Sessions, NotesAssumption
  <2>2. PICK x \in SessionState : x = note[opened]
      BY <2>1 DEF IInv, Types, NoteOK
  <2>3. x.expected \in Nat /\ (x.draft # None => x.draft.base \in Nat)
      BY DEF SessionState, Draft
  <2>4. SessionSound(x, kept, calls)
      BY <2>2 DEF Sure
  <2> QED BY <1>1, <1>4, <2>2, <2>3, <2>4 DEF SessionSound, Sound
<1> QED BY <1>1, <1>5, <1>6, <1>7 DEF Sure, NoAlarm

LEMMA SureStep == ASSUME AInv, NotesAssumption, [Next]_vars PROVE AInv' /\ AlarmIsTrue
<1>1. HInv /\ HInv' /\ IInv /\ IInv'
    BY HeldStep DEF AInv, HInv
<1>2. left'.may = left.may
    BY <1>1, PlainStays
<1> SUFFICES ASSUME left.may = {} PROVE Sure' /\ AlarmIsTrue
    BY <1>1, <1>2 DEF AInv, AlarmIsTrue
<1>3. Sure /\ Plain
    BY DEF AInv, Plain
<1>4. Latest
    BY <1>1, <1>3 DEF HInv
<1>5. CASE User
  <2>1. Sure' /\ NoAlarm
      BY <1>1, <1>3, <1>4, <1>5, OpenSure, LeaveSure, EditBackSure, EditSure, FlushSure, RetrySure, ChooseSure DEF User
  <2> QED BY <2>1, NoneAlarmed
<1>6. CASE Serve
    BY <1>1, <1>3, <1>4, <1>6, ServeReadSure, ServeSaveSure, NoneAlarmed DEF Serve, Out
<1>7. CASE Answer
  <2>1. PICK i \in 1 .. Len(calls) : \/ ReadAnswered(i) \/ SaveTaken(i) \/ SaveRefused(i)
                                     \/ KeepMine(i) \/ LoadTheirs(i) \/ CallFails(i)
      BY <1>7 DEF Answer, Out
  <2>2. ~CallFails(i)
      BY <1>3 DEF Sure, CallFails
  <2>3. ReadAnswered(i) \/ SaveRefused(i) => Sure' /\ AlarmIsTrue
      BY <1>1, <1>3, <1>4, ReadAnsweredSure, SaveRefusedSure
  <2>4. SaveTaken(i) \/ KeepMine(i) \/ LoadTheirs(i) => Sure' /\ NoAlarm
      BY <1>1, <1>3, <1>4, SaveTakenSure, KeepMineSure, LoadTheirsSure
  <2> QED BY <2>1, <2>2, <2>3, <2>4, NoneAlarmed
<1>8. CASE \E c \in stray : ServeStray(c)
    BY <1>3, <1>8 DEF Sure, ServeStray
<1>9. CASE \E t \in Texts : OtherSaves(t)
    BY <1>1, <1>3, <1>4, <1>9, OtherSavesSure, NoneAlarmed
<1>10. CASE \E s \in Sessions : Autosave(s)
    BY <1>1, <1>3, <1>4, <1>10, AutosaveSure, NoneAlarmed
<1>11. CASE Notice \/ UNCHANGED vars
  <2>1. log' = log /\ link' = link /\ stray' = stray /\ opened' = opened /\ kept' = kept
        /\ \/ shown # 0 /\ Sync(shown, note[shown])
           \/ note' = note /\ calls' = calls
      BY <1>11 DEF Notice, vars, daemon, screen
  <2> QED BY <1>1, <1>3, <1>4, <2>1, SyncSure, NoneAlarmed
<1>12. ~MissNotice /\ ~Drop /\ ~Reconnect
    BY <1>3 DEF MissNotice, Drop, Reconnect, May, Sure
<1> QED BY <1>5, <1>6, <1>7, <1>8, <1>9, <1>10, <1>11, <1>12 DEF Next

LEMMA SureInit == ASSUME NotesAssumption, Init PROVE AInv
<1>1. HInv
    BY HeldInit
<1>2. InTurn(calls)
    BY DEF Init, InTurn
<1>3. Sure
    BY <1>2 DEF Init, Sure, KeptSound
<1> QED BY <1>1, <1>3 DEF AInv

\* In order and without losses a session meets a conflict only if another
\* device saved after what it, or its save that was refused, expects: for any
\* texts, openings, edits, saves elsewhere and answers to a conflict.
THEOREM AlarmsAreTrue == Spec => TrueAlarm
<1>1. Init => AInv
    BY SureInit, NotesAssumption
<1>2. AInv /\ [Next]_vars => AInv' /\ [AlarmIsTrue]_vars
    BY SureStep, NotesAssumption
<1> QED BY <1>1, <1>2, PTL DEF Spec, TrueAlarm

\* The states are well typed, no session names a revision the daemon has not
\* made, and its saves never overlap.
THEOREM TypeCorrect == Spec => []TypeOK
<1>1. Init => IInv
    BY InitHolds, NotesAssumption
<1>2. IInv /\ [Next]_vars => IInv'
    BY Step, NotesAssumption
<1>3. IInv => TypeOK
    BY Parts
<1> QED BY <1>1, <1>2, <1>3, PTL DEF Spec

\* A save of the phone never replaces a revision the user has not seen, written
\* or agreed to replace: with any number of openings, lost connections, stray
\* saves and answers out of order.
THEOREM NothingReplacedUnseen == Spec => NoOverwrite
<1>1. Init => IInv
    BY InitHolds, NotesAssumption
<1>2. IInv /\ [Next]_vars => IInv' /\ [ReplacesKnown]_vars
    BY Step, NotesAssumption
<1> QED BY <1>1, <1>2, PTL DEF Spec, NoOverwrite

-----------------------------------------------------------------------------
-----------------------------------------------------------------------------
(* No draft is forgotten.                                                  *)

Minded(x) == x.draft # None => x.timer \/ x.saving # None \/ x.conflict \/ x.failed
AllMinded == \A s \in Sessions : Minded(note[s])

\* One session changes, and is minded.
LEMMA MindedOne ==
    ASSUME NoteOK, AllMinded, NEW s \in Sessions, NEW y, Minded(y), note' = [note EXCEPT ![s] = y]
    PROVE  AllMinded'
  BY DEF NoteOK, AllMinded, Minded

LEMMA MindedSave ==
    ASSUME NoteOK, AllMinded, NEW s \in Sessions, NEW x \in SessionState, Minded(x) \/ x.saving # None \/ CanSave(x),
           NEW others, Save(s, x, others)
    PROVE  AllMinded'
<1>0. CASE Drops(x)
  <2> DEFINE y == [x EXCEPT !.draft = None, !.timer = FALSE, !.failed = FALSE]
  <2>1. Minded(y)
      BY DEF Minded, SessionState
  <2>2. note' = [note EXCEPT ![s] = y]
      BY <1>0 DEF Save
  <2> HIDE DEF y
  <2> QED BY <2>1, <2>2, MindedOne
<1>1. CASE ~Drops(x) /\ CanSave(x) /\ Reaches(x)
  <2> DEFINE y == [x EXCEPT !.saving = x.draft, !.touched = FALSE, !.timer = FALSE, !.failed = FALSE]
  <2>1. Minded(y)
      BY <1>1 DEF Minded, CanSave, SessionState
  <2>2. note' = [note EXCEPT ![s] = y]
      BY <1>1 DEF Save, Sends
  <2> HIDE DEF y
  <2> QED BY <2>1, <2>2, MindedOne
<1>2. CASE ~Drops(x) /\ ~(CanSave(x) /\ Reaches(x))
  <2> DEFINE f == CanSave(x) \/ x.failed
             y == [x EXCEPT !.timer = FALSE, !.failed = f]
  <2>1. note' = [note EXCEPT ![s] = y]
      BY <1>2 DEF Save, Sends
  <2> HIDE DEF f
  <2>2. y.draft = x.draft /\ y.saving = x.saving /\ y.conflict = x.conflict /\ y.failed = f
      BY DEF SessionState
  <2> HIDE DEF y
  <2>3. x.draft # None => x.saving # None \/ x.conflict \/ CanSave(x)
      BY DEF CanSave
  <2>4. Minded(y)
      BY <2>2, <2>3 DEF Minded, f
  <2> QED BY <2>1, <2>4, MindedOne
<1> QED BY <1>0, <1>1, <1>2

LEMMA MindedSync ==
    ASSUME NoteOK, AllMinded, NEW s \in Sessions, NEW x \in SessionState, Minded(x), Sync(s, x)
    PROVE  AllMinded'
<1>1. Minded([x EXCEPT !.loaded = TRUE])
    BY DEF Minded, SessionState
<1>2. note' = [note EXCEPT ![s] = x] \/ note' = [note EXCEPT ![s] = [x EXCEPT !.loaded = TRUE]]
    BY DEF Sync
<1> QED BY <1>1, <1>2, MindedOne

\* The steps of the user.
LEMMA MindedUser == ASSUME IInv, NotesAssumption, AllMinded, User PROVE AllMinded'
<1>0. NoteOK /\ KeptOK /\ ScreenOK
    BY DEF IInv, Types
<1>a. ASSUME shown # 0 PROVE shown \in Sessions /\ note[shown] \in SessionState /\ Minded(note[shown])
    BY <1>0, <1>a, Shown DEF NoteOK, AllMinded
<1>1. CASE Open
  <2>1. opened' \in Sessions
      BY <1>0, <1>1 DEF Open, ScreenOK, Sessions, NotesAssumption
  <2>2. Fresh \in SessionState /\ Minded(Fresh)
      BY DEF Fresh, SessionState, Minded
  <2>3. PICK s \in Sessions : Sync(s, Fresh)
      BY <1>1, <2>1 DEF Open
  <2> QED BY <1>0, <2>2, <2>3, MindedSync
<1>2. CASE Leave
  <2>1. shown # 0
      BY <1>2 DEF Leave
  <2>2. CASE note[shown].failed
    <3> DEFINE y == [note[shown] EXCEPT !.timer = FALSE]
    <3>1. Minded(y)
        BY <1>a, <2>1, <2>2 DEF Minded, SessionState
    <3>2. note' = [note EXCEPT ![shown] = y]
        BY <1>0, <1>2, <2>2 DEF Leave, NoteOK
    <3> HIDE DEF y
    <3> QED BY <1>0, <1>a, <2>1, <3>1, <3>2, MindedOne
  <2>3. CASE ~note[shown].failed
      BY <1>0, <1>2, <1>a, <2>1, <2>3, MindedSave DEF Leave
  <2> QED BY <2>2, <2>3
<1>3. CASE EditBack
  <2> DEFINE y == [note[shown] EXCEPT !.draft = None, !.failed = FALSE, !.touched = TRUE]
  <2>1. shown # 0 /\ note' = [note EXCEPT ![shown] = y]
      BY <1>0, <1>3, <1>a DEF EditBack, NoteOK
  <2>2. Minded(y)
      BY <1>a, <2>1 DEF Minded, SessionState
  <2> HIDE DEF y
  <2> QED BY <1>0, <1>a, <2>1, <2>2, MindedOne
<1>4. ASSUME NEW t \in Texts, Edit(t) PROVE AllMinded'
  <2> DEFINE x == note[shown]
  <2>0. shown # 0 /\ x \in SessionState
      BY <1>4, <1>a DEF Edit
  <2> DEFINE d == [text |-> t, base |-> IF x.draft = None THEN x.expected ELSE x.draft.base]
  <2>1. note' = [note EXCEPT ![shown] =
                   [x EXCEPT !.draft = d, !.touched = TRUE,
                             !.failed = x.conflict /\ x.failed, !.timer = ~x.conflict \/ x.timer]]
      BY <1>4 DEF Edit
  <2> HIDE DEF d
  <2> DEFINE f == x.conflict /\ x.failed
             m == ~x.conflict \/ x.timer
             y == [x EXCEPT !.draft = d, !.touched = TRUE, !.failed = f, !.timer = m]
  <2> HIDE DEF f, m
  <2>2. y.conflict = x.conflict /\ y.timer = m
      BY <2>0 DEF SessionState
  <2>3. note' = [note EXCEPT ![shown] = y]
      BY <2>1 DEF f, m
  <2> HIDE DEF x, y
  <2>4. Minded(y)
      BY <2>2 DEF Minded, m
  <2> QED BY <1>0, <1>a, <2>0, <2>3, <2>4, MindedOne
<1>5. CASE Flush
    BY <1>0, <1>5, <1>a, MindedSave DEF Flush
<1>6. CASE Retry
  <2> DEFINE y == [note[shown] EXCEPT !.failed = FALSE]
  <2>1. shown # 0 /\ Save(shown, y, calls)
      BY <1>6 DEF Retry
  <2>2. y \in SessionState /\ (Minded(y) \/ y.saving # None \/ CanSave(y))
      BY <1>a, <2>1 DEF SessionState, Minded, CanSave
  <2> HIDE DEF y
  <2> QED BY <1>0, <1>a, <2>1, <2>2, MindedSave
<1>7. ASSUME NEW op, Choose(op) PROVE AllMinded'
  <2> DEFINE y == [note[shown] EXCEPT !.failed = TRUE]
  <2>1. shown # 0 /\ (note' = note \/ note' = [note EXCEPT ![shown] = y])
      BY <1>0, <1>7, <1>a DEF Choose, NoteOK
  <2>2. Minded(y)
      BY <1>a, <2>1 DEF SessionState, Minded
  <2> HIDE DEF y
  <2> QED BY <1>0, <1>a, <2>1, <2>2, MindedOne DEF AllMinded, Minded
<1> QED BY <1>1, <1>2, <1>3, <1>4, <1>5, <1>6, <1>7 DEF User

\* The answers.
LEMMA MindedAnswer ==
    ASSUME IInv, NotesAssumption, AllMinded, NEW i \in 1 .. Len(calls),
           ReadAnswered(i) \/ SaveTaken(i) \/ SaveRefused(i) \/ KeepMine(i) \/ LoadTheirs(i) \/ CallFails(i)
    PROVE  AllMinded'
<1> DEFINE s == calls[i].by
           x == note[s]
           n == calls[i].answer
<1>0. NoteOK /\ s \in Sessions /\ x \in SessionState /\ Minded(x)
    BY Caller DEF IInv, Types, NoteOK, AllMinded
<1>1. CASE ReadAnswered(i)
  <2> DEFINE y == IF x.draft = None
             THEN IF kept # None THEN Restore(x, n) ELSE [x EXCEPT !.base = n, !.expected = n]
             ELSE IF x.saving = None THEN Underneath(x, n) ELSE x
  <2>1. note' = [note EXCEPT ![s] = [y EXCEPT !.loaded = TRUE]]
      BY <1>1 DEF ReadAnswered
  <2>2. Minded([y EXCEPT !.loaded = TRUE])
    <3>1. CASE x.draft = None /\ kept # None
      <4>1. y = Restore(x, n)
          BY <3>1
      <4>2. [Restore(x, n) EXCEPT !.loaded = TRUE].timer \/ [Restore(x, n) EXCEPT !.loaded = TRUE].conflict
          BY <1>0 DEF Restore, SessionState
      <4> QED BY <4>1, <4>2 DEF Minded
    <3>2. CASE x.draft = None /\ kept = None
        BY <1>0, <3>2 DEF Minded, SessionState
    <3>3. CASE x.draft # None /\ x.saving = None
      <4>1. y = Underneath(x, n)
          BY <3>3
      <4>2. LET z == [Underneath(x, n) EXCEPT !.loaded = TRUE] IN
              z.conflict \/ (z.timer = x.timer /\ z.conflict = x.conflict /\ z.failed = x.failed)
          BY <1>0 DEF Underneath, SessionState
      <4> QED BY <1>0, <3>3, <4>1, <4>2 DEF Minded
    <3>4. CASE x.draft # None /\ x.saving # None
        BY <1>0, <3>4 DEF Minded, SessionState
    <3> QED BY <3>1, <3>2, <3>3, <3>4
  <2> HIDE DEF y, s
  <2> QED BY <1>0, <2>1, <2>2, MindedOne
<1>2. CASE SaveTaken(i)
  <2>1. note' = [note EXCEPT ![s] = AfterSave(x, n)]
      BY <1>2 DEF SaveTaken
  <2>2. Minded(AfterSave(x, n))
    <3>1. CASE x.touched /\ x.draft # None
        BY <1>0, <3>1 DEF AfterSave, Based, Minded, SessionState
    <3>2. CASE ~(x.touched /\ x.draft # None)
        BY <1>0, <3>2 DEF AfterSave, Based, Minded, SessionState
    <3> QED BY <3>1, <3>2
  <2> HIDE DEF s, x
  <2> QED BY <1>0, <2>1, <2>2, MindedOne
<1>3. CASE SaveRefused(i)
  <2> DEFINE y == [x EXCEPT !.conflict = TRUE, !.saving = None, !.failed = FALSE]
  <2>1. note' = [note EXCEPT ![s] = y]
      BY <1>0, <1>3 DEF SaveRefused, NoteOK
  <2>2. Minded(y)
      BY <1>0 DEF Minded, SessionState
  <2> HIDE DEF s, y
  <2> QED BY <1>0, <2>1, <2>2, MindedOne
<1>4. CASE KeepMine(i)
  <2> DEFINE y == [x EXCEPT !.base = n, !.expected = n, !.conflict = FALSE, !.failed = FALSE, !.touched = TRUE]
             z == IF x.draft = None THEN y ELSE [y EXCEPT !.draft.base = n]
  <2>1. Save(s, z, RemoveAt(calls, i))
      BY <1>4 DEF KeepMine
  <2>2. n \in Nat
      BY <1>4, Caller, AnswerFacts DEF KeepMine, Answered, CallTrust, Calls
  <2>3. z \in SessionState /\ (Minded(z) \/ z.saving # None \/ CanSave(z))
    <3>1. x \in SessionState /\ n \in Nat
        BY <1>0, <2>2
    <3>2. y \in SessionState /\ y.draft = x.draft /\ y.conflict = FALSE /\ y.saving = x.saving
        BY ONLY <3>1 DEF SessionState
    <3>3. CASE x.draft = None
        BY ONLY <3>2, <3>3 DEF Minded
    <3>4. CASE x.draft # None
      <4>1. z = [y EXCEPT !.draft.base = n]
          BY <3>4
      <4>2. x.draft \in Draft /\ y.draft \in Draft
          BY <3>1, <3>2, <3>4 DEF SessionState
      <4>3. [y.draft EXCEPT !.base = n] \in Draft
          BY ONLY <3>1, <4>2 DEF Draft
      <4>4. z = [y EXCEPT !.draft = [y.draft EXCEPT !.base = n]]
          BY <4>1
      <4> DEFINE d == [y.draft EXCEPT !.base = n]
      <4>5. d \in Draft /\ y \in SessionState /\ y.conflict = FALSE /\ z = [y EXCEPT !.draft = d]
          BY <3>2, <4>3, <4>4
      <4> HIDE DEF d, y, z
      <4>6. z \in SessionState
          BY ONLY <4>5 DEF SessionState
      <4>7. z.draft = d /\ z.conflict = FALSE /\ z.saving = y.saving
          BY ONLY <4>5 DEF SessionState
      <4> QED BY ONLY <4>5, <4>6, <4>7, NotesAssumption DEF CanSave, Draft
    <3> QED BY <3>3, <3>4
  <2> HIDE DEF s, z
  <2> QED BY <1>0, <2>1, <2>3, MindedSave
<1>5. CASE LoadTheirs(i)
  <2> DEFINE y == [x EXCEPT !.base = n, !.expected = n, !.draft = None, !.touched = TRUE, !.conflict = FALSE, !.failed = FALSE]
  <2>1. note' = [note EXCEPT ![s] = y]
      BY <1>0, <1>5 DEF LoadTheirs, NoteOK
  <2>2. Minded(y)
      BY <1>0 DEF Minded, SessionState
  <2> HIDE DEF s, y
  <2> QED BY <1>0, <2>1, <2>2, MindedOne
<1>6. CASE CallFails(i)
  <2>1. note' = [note EXCEPT ![s] = Failure(x, calls[i].op)]
      BY <1>0, <1>6 DEF CallFails, NoteOK
  <2>2. Minded(Failure(x, calls[i].op))
    <3>1. CASE calls[i].op = "get"
        BY <1>0, <3>1 DEF Failure, Minded, SessionState
    <3>2. CASE calls[i].op = "save"
        BY <1>0, <3>2 DEF Failure, Minded, SessionState
    <3>3. CASE calls[i].op \notin {"get", "save"}
        BY <1>0, <3>3 DEF Failure, Minded, SessionState
    <3> QED BY <3>1, <3>2, <3>3
  <2> HIDE DEF s, x
  <2> QED BY <1>0, <2>1, <2>2, MindedOne
<1> QED BY <1>1, <1>2, <1>3, <1>4, <1>5, <1>6

LEMMA MindedStep == ASSUME IInv, NotesAssumption, AllMinded, [Next]_vars PROVE AllMinded'
<1>0. NoteOK
    BY DEF IInv, Types
<1>1. CASE UNCHANGED note
    BY <1>1 DEF AllMinded, Minded
<1>2. CASE Serve \/ (\E c \in stray : ServeStray(c)) \/ (\E t \in Texts : OtherSaves(t)) \/ MissNotice \/ UNCHANGED vars
  <2>1. UNCHANGED note
      BY <1>2 DEF Serve, ServeRead, ServeSave, ServeStray, OtherSaves, MissNotice, vars
  <2> QED BY <1>1, <2>1
<1>3. ASSUME NEW s \in Sessions, Autosave(s) PROVE AllMinded'
    BY <1>0, <1>3, MindedSave DEF Autosave, AllMinded, NoteOK
<1>4. CASE Notice \/ Drop \/ Reconnect
  <2>1. shown # 0 => shown \in Sessions /\ note[shown] \in SessionState /\ Minded(note[shown])
      BY <1>0, Shown DEF NoteOK, AllMinded
  <2>2. (shown # 0 /\ Sync(shown, note[shown])) \/ UNCHANGED note
      BY <1>4 DEF Notice, Drop, Reconnect
  <2> QED BY <1>0, <1>1, <2>1, <2>2, MindedSync
<1> QED BY <1>2, <1>3, <1>4, MindedUser, MindedAnswer DEF Next, Answer, Out

\* A draft is never left with nobody to save it, in any session, with every mishap:
\* its timer runs, its save is out, or the user is told of a conflict or a failure.
THEOREM DraftsAreMinded == Spec => []NoDraftForgotten
<1>1. Init => AllMinded
    BY DEF Init, AllMinded, Minded, Fresh
<1>2. IInv /\ AllMinded => NoDraftForgotten
  <2>1. IInv => \A s \in Sessions : note[s].saving # None <=> Saves(s) # {}
      BY Parts DEF TypeOK
  <2> QED BY <2>1 DEF AllMinded, Minded, NoDraftForgotten
<1>3. Init => IInv
    BY InitHolds, NotesAssumption
<1>4. IInv /\ AllMinded /\ [Next]_vars => IInv' /\ AllMinded'
    BY Step, MindedStep, NotesAssumption
<1> QED BY <1>1, <1>2, <1>3, <1>4, PTL DEF Spec
=============================================================================
