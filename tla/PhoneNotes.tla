----------------------------- MODULE PhoneNotes -----------------------------
(***************************************************************************)
(* One note open on a phone (apps/mobile/src/state/noteSession.ts): its    *)
(* draft, the autosave, and what happens when another device saved it.     *)
(* Every opening of the note makes a session of its own; a session that    *)
(* was left still handles its answers and its timer.  The daemon keeps the *)
(* note under a revision and refuses a save that expects another one       *)
(* (kybern-store notes.rs).                                                *)
(*                                                                         *)
(* A note is a thread's, which may not exist yet, or one opened by its id. *)
(* Titles, new notes without an id, deletion, edits that wait for another  *)
(* machine and the death of the app are left out; a text is a value, and   *)
(* one of spaces only counts as Blank.                                     *)
(***************************************************************************)
EXTENDS Naturals, Sequences, SequencesExt

CONSTANTS
    Texts, Blank,      \* what a note can say; Blank is also what shows without a note
    Starts,            \* what a note may say when it is opened first
    MaxOpenings,       \* bound: sessions
    Budgets,           \* bounds: edits, saves elsewhere, losses, answers to a conflict
    None, Conflict

Mishaps == {"loss", "late", "reopen", "revert"}
Budget == [edits : Nat, others : Nat, losses : Nat, choices : Nat, may : SUBSET Mishaps]

Sessions == 1 .. MaxOpenings
Draft == [text : Texts, base : Nat]

ASSUME NotesAssumption ==
    /\ Blank \in Texts /\ Starts \subseteq Texts /\ MaxOpenings \in Nat /\ Budgets \subseteq Budget
    /\ None \notin Texts /\ None \notin Nat /\ None \notin Draft
    /\ Conflict \notin Nat /\ Conflict # None

VARIABLES
    target,    \* "id" or "thread"
    log,       \* the daemon's note: the text of every revision, and who saved it
    link,      \* the phone is connected
    calls,     \* requests of the phone that are out, oldest first
    stray,     \* saves the phone gave up and the daemon may still see
    news,      \* notes.changed on its way: revisions
    opened, shown,   \* sessions made so far; the one on screen, or 0
    note,      \* the state of each NoteSession
    kept,      \* noteDrafts: the draft that survives leaving the note
    left,      \* what is left of the budget
    unsaved,   \* history: the last text typed, until it is saved or given up
    known      \* history: revisions the user saw, wrote or agreed to replace

daemon == <<log, stray>>
screen == <<opened, shown>>
history == <<unsaved, known>>
vars == <<target, daemon, link, calls, news, screen, note, kept, left, history>>

May(mishap) == mishap \in left.may

\* Revision 0 is no note.
Text(n) == IF n = 0 THEN Blank ELSE log[n].text

Fresh == [base |-> 0, draft |-> None, expected |-> 0, conflict |-> FALSE, failed |-> FALSE,
          timer |-> FALSE, loaded |-> FALSE, saving |-> None, touched |-> FALSE]

Init ==
    /\ target \in {"id", "thread"}
    /\ log \in {<<[text |-> t, by |-> "other"]>> : t \in Starts}
               \union (IF target = "thread" THEN {<< >>} ELSE {})
    /\ link = TRUE /\ calls = << >> /\ stray = {} /\ news = << >>
    /\ opened = 0 /\ shown = 0 /\ note = [s \in Sessions |-> Fresh] /\ kept = None
    /\ left \in Budgets /\ unsaved = None /\ known = {}

-----------------------------------------------------------------------------
(* The daemon.                                                             *)

Current == Len(log)

\* What update makes of a save.
Refused(text, expected) ==
    Current # expected /\ (Current = 0 \/ text # Text(Current))
Written(text, expected) ==
    Current = expected /\ (Current = 0 \/ text # Text(Current))

Notified(n) == news' = IF link THEN Append(news, n) ELSE news

Take(text, expected, by) ==
    IF Written(text, expected)
    THEN log' = Append(log, [text |-> text, by |-> by]) /\ Notified(Current + 1)
    ELSE /\ log' = log
         /\ IF Refused(text, expected) \/ Current = expected
            THEN UNCHANGED news ELSE Notified(Current)

Saved(text, expected) ==
    unsaved' = IF text = unsaved /\ ~Refused(text, expected) THEN None ELSE unsaved

\* Each request has a task of its own; without "late" they still go in order.
Turn(i) == May("late") \/ \A j \in 1 .. (i - 1) : calls[j].answer # None

ServeRead(i) ==
    /\ link /\ calls[i].op # "save" /\ calls[i].answer = None /\ Turn(i)
    /\ calls' = [calls EXCEPT ![i].answer = Current]
    /\ UNCHANGED <<target, daemon, link, news, screen, note, kept, left, history>>

ServeSave(i) ==
    LET c == calls[i] IN
    /\ link /\ c.op = "save" /\ c.answer = None /\ Turn(i)
    /\ Take(c.text, c.expected, "phone") /\ Saved(c.text, c.expected)
    /\ calls' = [calls EXCEPT ![i].answer =
                    IF Refused(c.text, c.expected) THEN Conflict ELSE Len(log')]
    /\ UNCHANGED <<target, stray, link, screen, note, kept, left, known>>

ServeStray(c) ==
    /\ c \in stray /\ stray' = stray \ {c}
    /\ Take(c.text, c.expected, "phone") /\ Saved(c.text, c.expected)
    /\ UNCHANGED <<target, link, calls, screen, note, kept, left, known>>

OtherSaves(t) ==
    /\ left.others > 0 /\ left' = [left EXCEPT !.others = @ - 1]
    /\ Written(t, Current) /\ Take(t, Current, "other")
    /\ UNCHANGED <<target, stray, link, calls, screen, note, kept, history>>

-----------------------------------------------------------------------------
(* Calls of a session.                                                     *)

Call(s, op, text, expected) ==
    [by |-> s, op |-> op, text |-> text, expected |-> expected, answer |-> None]

\* sync and the reads of a conflict: with no connection they fail at once.
Sync(s, x) ==
    IF link' THEN /\ note' = [note EXCEPT ![s] = x]
                  /\ calls' = Append(calls, Call(s, "get", Blank, 0))
             ELSE /\ note' = [note EXCEPT ![s] = [x EXCEPT !.loaded = TRUE]]
                  /\ UNCHANGED calls

CanSave(x) == x.saving = None /\ x.draft # None /\ ~x.conflict

\* A note opened by its id that was never loaded has no id to save under.
Reaches(x) == link /\ (target = "id" => x.base # 0)

\* save, and run up to its call.
Sends(s, x, others) ==
    IF CanSave(x) /\ Reaches(x)
    THEN /\ note' = [note EXCEPT ![s] = [x EXCEPT !.saving = x.draft, !.touched = FALSE,
                                                  !.timer = FALSE, !.failed = FALSE]]
         /\ calls' = Append(others, Call(s, "save", x.draft.text, x.expected))
    ELSE /\ note' = [note EXCEPT ![s] = [x EXCEPT !.timer = FALSE,
                                                  !.failed = CanSave(x) \/ x.failed]]
         /\ calls' = others

\* A thread has no note: nothing worth creating one for.
Drops(x) == CanSave(x) /\ target = "thread" /\ x.base = 0 /\ x.draft.text = Blank

\* run, which drops a draft like that, and the kept one with it, without a call.
Save(s, x, others) ==
    IF Drops(x)
    THEN /\ note' = [note EXCEPT ![s] = [x EXCEPT !.draft = None, !.timer = FALSE, !.failed = FALSE]]
         /\ calls' = others /\ kept' = None
    ELSE Sends(s, x, others) /\ UNCHANGED kept

-----------------------------------------------------------------------------
(* The user.                                                               *)

Busy(s) == note[s].timer \/ note[s].saving # None \/ \E i \in 1 .. Len(calls) : calls[i].by = s

Open ==
    /\ shown = 0 /\ opened < MaxOpenings
    /\ (\E s \in 1 .. opened : Busy(s)) => May("reopen")
    /\ opened' = opened + 1 /\ shown' = opened'
    /\ UNCHANGED link /\ Sync(opened', Fresh)
    /\ UNCHANGED <<target, daemon, news, kept, left, history>>

\* dispose: no more notices, and what is pending is saved.
Leave ==
    /\ shown # 0 /\ shown' = 0
    /\ IF note[shown].failed
       THEN note' = [note EXCEPT ![shown].timer = FALSE] /\ UNCHANGED <<calls, kept>>
       ELSE Save(shown, note[shown], calls)
    /\ UNCHANGED <<target, daemon, link, news, opened, left, history>>

Shows(x) == IF x.draft = None THEN Text(x.base) ELSE x.draft.text

\* A save of the phone the session does not know the outcome of.
OwnUnknown(x) ==
    \/ \E i \in (x.base + 1) .. Current : log[i].by = "phone"
    \/ \E i \in 1 .. Len(calls) : calls[i].op = "save"
    \/ stray # {}

\* edit back to the saved text: nothing is left to save.
EditBack ==
    LET x == note[shown] IN
    /\ shown # 0 /\ link /\ x.loaded /\ x.draft # None /\ left.edits > 0
    /\ x.draft.text # Text(x.base)
    /\ OwnUnknown(x) => May("revert")
    /\ note' = [note EXCEPT ![shown].draft = None, ![shown].failed = FALSE, ![shown].touched = TRUE]
    /\ kept' = IF x.base = 0 THEN kept ELSE None
    /\ left' = [left EXCEPT !.edits = @ - 1]
    /\ unsaved' = IF OwnUnknown(x) THEN Text(x.base) ELSE None
    /\ UNCHANGED <<target, daemon, link, calls, news, screen, known>>

Edit(t) ==
    LET x == note[shown]
        draft == [text |-> t, base |-> IF x.draft = None THEN x.expected ELSE x.draft.base]
    IN
    /\ shown # 0 /\ link /\ x.loaded /\ left.edits > 0
    /\ t # Text(x.base) /\ t # Shows(x)
    /\ note' = [note EXCEPT ![shown] =
                   [x EXCEPT !.draft = draft, !.touched = TRUE,
                             !.failed = x.conflict /\ x.failed, !.timer = ~x.conflict \/ x.timer]]
    /\ kept' = draft /\ unsaved' = t
    /\ left' = [left EXCEPT !.edits = @ - 1]
    /\ UNCHANGED <<target, daemon, link, calls, news, screen, known>>

\* scheduleSave's timer, also of a session that was left.
Autosave(s) ==
    /\ note[s].timer /\ Save(s, note[s], calls)
    /\ UNCHANGED <<target, daemon, link, news, screen, left, history>>

\* flush: "Done", or the app goes to the background.
Flush ==
    /\ shown # 0 /\ (note[shown].timer \/ CanSave(note[shown])) /\ ~note[shown].failed
    /\ Save(shown, note[shown], calls)
    /\ UNCHANGED <<target, daemon, link, news, screen, left, history>>

Retry ==
    /\ shown # 0 /\ note[shown].failed
    /\ Save(shown, [note[shown] EXCEPT !.failed = FALSE], calls)
    /\ UNCHANGED <<target, daemon, link, news, screen, left, history>>

\* keepMine and loadTheirs read the note first.
Choose(op) ==
    /\ shown # 0 /\ note[shown].conflict /\ left.choices > 0
    /\ left' = [left EXCEPT !.choices = @ - 1]
    /\ IF link THEN calls' = Append(calls, Call(shown, op, Blank, 0)) /\ UNCHANGED note
               ELSE note' = [note EXCEPT ![shown].failed = TRUE] /\ UNCHANGED calls
    /\ UNCHANGED <<target, daemon, link, news, screen, kept, history>>

-----------------------------------------------------------------------------
(* Answers and notices.                                                    *)

Answered(i, op) == calls[i].op = op /\ calls[i].answer # None /\ (i = 1 \/ May("late"))
Seen(s, n) == known' = IF s = shown THEN known \union {n} ELSE known

\* Mutant: a draft that is restored forgets what it was written against.
RestoreRebased(x, n) ==
    [x EXCEPT !.draft = kept, !.expected = n, !.base = n, !.touched = TRUE, !.timer = TRUE]

\* The draft that was kept takes its place again.
Restore(x, n) ==
    IF n > kept.base
    THEN [x EXCEPT !.draft = kept, !.expected = kept.base, !.base = n,
                   !.touched = kept # x.saving, !.conflict = TRUE, !.failed = FALSE]
    ELSE [x EXCEPT !.draft = kept, !.expected = kept.base, !.base = n,
                   !.touched = kept # x.saving, !.timer = TRUE]

\* A draft stays; a newer note under it is a conflict.
Underneath(x, n) ==
    IF n > x.expected
    THEN [x EXCEPT !.base = n, !.conflict = TRUE, !.failed = FALSE]
    ELSE [x EXCEPT !.base = n]

ReadAnswered(i) ==
    LET s == calls[i].by  x == note[s]  n == calls[i].answer
        y == IF x.draft = None
             THEN IF kept # None THEN Restore(x, n) ELSE [x EXCEPT !.base = n, !.expected = n]
             ELSE IF x.saving = None THEN Underneath(x, n) ELSE x
    IN
    /\ Answered(i, "get")
    /\ note' = [note EXCEPT ![s] = [y EXCEPT !.loaded = TRUE]]
    /\ IF x.draft = None /\ kept = None THEN Seen(s, n) ELSE UNCHANGED known
    /\ calls' = RemoveAt(calls, i)
    /\ UNCHANGED <<target, daemon, link, news, screen, kept, left, unsaved>>

Based(x, n) == [x EXCEPT !.base = n, !.expected = n, !.saving = None, !.failed = FALSE]

\* Mutant: what was typed meanwhile is taken for saved too.
WholeSaved(x, n) == [Based(x, n) EXCEPT !.draft = None]

\* Mutant: the session goes on expecting the revision it had.
SavedBehind(x, n) ==
    IF x.touched /\ x.draft # None
    THEN [Based(x, n) EXCEPT !.draft.base = n, !.timer = TRUE, !.expected = x.expected]
    ELSE [Based(x, n) EXCEPT !.draft = None, !.expected = x.expected]

\* Mutant: nothing saves what was typed meanwhile.
SavedUntimed(x, n) ==
    IF x.touched /\ x.draft # None
    THEN [Based(x, n) EXCEPT !.draft.base = n]
    ELSE [Based(x, n) EXCEPT !.draft = None]

\* What was typed while the save was out is a draft on top of it.
AfterSave(x, n) ==
    IF x.touched /\ x.draft # None
    THEN [Based(x, n) EXCEPT !.draft.base = n, !.timer = TRUE]
    ELSE [Based(x, n) EXCEPT !.draft = None]

SaveTaken(i) ==
    LET c == calls[i]  y == AfterSave(note[c.by], c.answer) IN
    /\ Answered(i, "save") /\ c.answer # Conflict
    /\ note' = [note EXCEPT ![c.by] = y] /\ kept' = y.draft
    /\ known' = known \union {c.answer}
    /\ calls' = RemoveAt(calls, i)
    /\ UNCHANGED <<target, daemon, link, news, screen, left, unsaved>>

SaveRefused(i) ==
    LET s == calls[i].by IN
    /\ Answered(i, "save") /\ calls[i].answer = Conflict
    /\ note' = [note EXCEPT ![s].conflict = TRUE, ![s].saving = None, ![s].failed = FALSE]
    /\ calls' = RemoveAt(calls, i)
    /\ UNCHANGED <<target, daemon, link, news, screen, kept, left, history>>

KeepMine(i) ==
    LET s == calls[i].by  x == note[s]  n == calls[i].answer
        y == [x EXCEPT !.base = n, !.expected = n, !.conflict = FALSE, !.failed = FALSE, !.touched = TRUE]
    IN
    /\ Answered(i, "mine")
    /\ Save(s, IF x.draft = None THEN y ELSE [y EXCEPT !.draft.base = n], RemoveAt(calls, i))
    /\ known' = known \union {n}
    /\ UNCHANGED <<target, daemon, link, news, screen, left, unsaved>>

LoadTheirs(i) ==
    LET s == calls[i].by  n == calls[i].answer IN
    /\ Answered(i, "theirs")
    /\ note' = [note EXCEPT ![s] = [@ EXCEPT !.base = n, !.expected = n, !.draft = None, !.touched = TRUE,
                                             !.conflict = FALSE, !.failed = FALSE]]
    /\ kept' = None /\ unsaved' = None
    /\ Seen(s, n)
    /\ calls' = RemoveAt(calls, i)
    /\ UNCHANGED <<target, daemon, link, news, screen, left>>

\* onChange: a newer revision is read at once, unless there is a draft.
Notice ==
    /\ news # << >> /\ news' = Tail(news)
    /\ UNCHANGED link
    /\ LET x == note[shown] IN
       IF shown # 0 /\ x.saving = None /\ x.loaded /\ x.draft = None /\ Head(news) > x.expected
       THEN Sync(shown, x) ELSE UNCHANGED <<note, calls>>
    /\ UNCHANGED <<target, daemon, screen, kept, left, history>>

\* The socket lags behind and misses one.
MissNotice ==
    /\ news # << >> /\ news' = Tail(news)
    /\ May("loss") /\ left.losses > 0 /\ left' = [left EXCEPT !.losses = @ - 1]
    /\ UNCHANGED <<target, daemon, link, calls, screen, note, kept, history>>

-----------------------------------------------------------------------------
(* The connection.                                                         *)

\* useNoteSession calls sync whenever the connection changes.
Drop ==
    /\ link /\ May("loss") /\ left.losses > 0 /\ left' = [left EXCEPT !.losses = @ - 1]
    /\ link' = FALSE /\ news' = << >>
    /\ IF shown # 0 THEN Sync(shown, note[shown]) ELSE UNCHANGED <<note, calls>>
    /\ UNCHANGED <<target, daemon, screen, kept, history>>

\* Mutant: a save that failed still counts as running.
FailureStill(x, op) == IF op = "get" THEN [x EXCEPT !.loaded = TRUE] ELSE [x EXCEPT !.failed = TRUE]

Failure(x, op) ==
    CASE op = "get" -> [x EXCEPT !.loaded = TRUE]
      [] op = "save" -> [x EXCEPT !.failed = TRUE, !.saving = None]
      [] OTHER -> [x EXCEPT !.failed = TRUE]

\* The calls that were out are rejected; a save may have been read already.
CallFails(i) ==
    LET c == calls[i] IN
    /\ ~link
    /\ note' = [note EXCEPT ![c.by] = Failure(@, c.op)]
    /\ stray' = IF c.op = "save" /\ c.answer = None
                THEN stray \union {[text |-> c.text, expected |-> c.expected]} ELSE stray
    /\ calls' = RemoveAt(calls, i)
    /\ UNCHANGED <<target, log, link, news, screen, kept, left, history>>

Reconnect ==
    /\ ~link /\ calls = << >>
    /\ link' = TRUE
    /\ IF shown # 0 THEN Sync(shown, note[shown]) ELSE UNCHANGED <<note, calls>>
    /\ UNCHANGED <<target, daemon, news, screen, kept, left, history>>

-----------------------------------------------------------------------------
Out == 1 .. Len(calls)
User == Open \/ Leave \/ EditBack \/ (\E t \in Texts : Edit(t)) \/ Flush \/ Retry
        \/ \E op \in {"mine", "theirs"} : Choose(op)
Serve == \E i \in Out : ServeRead(i) \/ ServeSave(i)
Answer == \E i \in Out : ReadAnswered(i) \/ SaveTaken(i) \/ SaveRefused(i)
                         \/ KeepMine(i) \/ LoadTheirs(i) \/ CallFails(i)

Next ==
    \/ User \/ Serve \/ Answer
    \/ \E c \in stray : ServeStray(c)
    \/ \E t \in Texts : OtherSaves(t)
    \/ \E s \in Sessions : Autosave(s)
    \/ Notice \/ MissNotice \/ Drop \/ Reconnect

Spec == Init /\ [][Next]_vars

\* Timers fire and requests are answered or fail.  The user owes nothing, nor
\* does the connection come back.
FairSpec ==
    /\ Spec
    /\ WF_vars(Serve) /\ WF_vars(Answer) /\ WF_vars(\E s \in Sessions : Autosave(s))

-----------------------------------------------------------------------------
Ops == {"get", "save", "mine", "theirs"}
SessionState ==
    [base : Nat, draft : Draft \union {None}, expected : Nat, conflict : BOOLEAN, failed : BOOLEAN,
     timer : BOOLEAN, loaded : BOOLEAN, saving : Draft \union {None}, touched : BOOLEAN]

Saves(s) == {i \in Out : calls[i].by = s /\ calls[i].op = "save"}

\* Types; a session's revisions are ones the daemon made; and saves of a session
\* never overlap ("concurrent calls wait for the one in flight").
TypeOK ==
    /\ target \in {"id", "thread"} /\ link \in BOOLEAN
    /\ log \in Seq([text : Texts, by : {"phone", "other"}])
    /\ calls \in Seq([by : Sessions, op : Ops, text : Texts, expected : Nat,
                      answer : Nat \union {None, Conflict}])
    /\ stray \in SUBSET [text : Texts, expected : Nat]
    /\ news \in Seq(Nat)
    /\ opened \in Nat /\ shown \in 0 .. opened /\ opened <= MaxOpenings
    /\ note \in [Sessions -> SessionState]
    /\ kept \in Draft \union {None}
    /\ left \in Budget
    /\ unsaved \in Texts \union {None} /\ known \in SUBSET Nat
    /\ \A s \in Sessions : note[s].base <= Current /\ note[s].expected <= Current
    /\ \A s \in Sessions : note[s].saving # None <=> Saves(s) # {}
    /\ \A i, j \in Out : i \in Saves(calls[i].by) /\ j \in Saves(calls[i].by) => i = j

\* No revision of another device is replaced unseen: what a save of the phone
\* replaces was on its screen, is its own, or is what the user chose to replace.
Familiar(n) == n = 0 \/ log[n].by = "phone" \/ n \in known
ReplacesKnown ==
    Current' > Current /\ log'[Current'].by = "phone" => Familiar(Current)
NoOverwrite == [][ReplacesKnown]_vars

\* A text that was typed is saved, or the phone still has it: in the session on
\* screen, in a save that is out or about to be, or kept for the next opening.  Left
\* out are an edit taken back while its save is out, a note opened again too soon, and,
\* with answers out of order, the erasing of a thread's note, which run may drop.
Holds(s, t) ==
    LET x == note[s] IN
    \/ x.draft # None /\ x.draft.text = t /\ (s = shown \/ x.timer \/ x.saving # None)
    \/ x.saving # None /\ x.saving.text = t
Dropped(t) == t = Blank /\ target = "thread" /\ May("late")
NothingLost ==
    left.may \cap {"reopen", "revert"} = {} /\ unsaved # None /\ ~Dropped(unsaved) =>
        \/ kept # None /\ kept.text = unsaved
        \/ \E s \in Sessions : Holds(s, unsaved)

\* "Edited on another device" is true when it appears: in order and without
\* losses a session meets a conflict only if somebody else saved after what it,
\* or its save that was refused, expects.
Expectations(s) == {note'[s].expected} \union {calls[i].expected : i \in Saves(s)}
AlarmIsTrue ==
    left.may = {} =>
        \A s \in Sessions : ~note[s].conflict /\ note'[s].conflict =>
            \E e \in Expectations(s) : \E n \in (e + 1) .. Current' : log'[n].by = "other"
TrueAlarm == [][AlarmIsTrue]_vars

\* A draft is never left with nobody to save it, also in a session that was left:
\* its timer runs, its save is out, or there is a reason the user is told.
NoDraftForgotten ==
    \A s \in Sessions : note[s].draft # None =>
        note[s].timer \/ Saves(s) # {} \/ note[s].conflict \/ note[s].failed

\* A draft on screen is saved, or the user is told why not.
DraftsGo ==
    \A s \in Sessions :
        (s = shown /\ note[s].draft # None)
            ~> (note[s].draft = None \/ note[s].conflict \/ note[s].failed \/ s # shown)
=============================================================================
