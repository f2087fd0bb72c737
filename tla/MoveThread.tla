----------------------------- MODULE MoveThread -----------------------------
(***************************************************************************)
(* Continue on another machine                                             *)
(* (crates/kybern-daemon/src/orchestrator/move_thread.rs): a thread with   *)
(* its conversation is handed over to another machine, and the source ends *)
(* read-only.  The source works through an outbox item, one delivery       *)
(* attempt at a time: it takes a lease on the thread, has the target       *)
(* reserve a slot, marks the move uncertain and sends the commit; what an  *)
(* attempt could not learn, the next one asks.                             *)
(*                                                                         *)
(* One thread, one move operation, two machines that are both members.     *)
(* The bundle of commits, queued follow-ups and archiving are left out.  A *)
(* conversation is the number of its messages.  The lease's ten minutes,   *)
(* and the slot's, may pass at any moment at which the code looks.         *)
(***************************************************************************)
EXTENDS Naturals

(* What may happen besides.                                               *)
(* "cancel": the item is cancelled or expires while the slot is reserved.  *)
(* "slow": a prepare, or a commit that makes the thread, outlives the      *)
(*    source's patience, and its next call, or an abort, arrives meanwhile. *)
(* "note_fails": the target made the thread but could not start its turn.  *)
(* "crash": the target stops between thread and slot.                      *)
Mishaps == {"cancel", "slow", "note_fails", "crash"}

CONSTANTS
    MaxMessages,  \* bound: messages the source accepts
    Budgets,      \* bounds: calls that time out and notes that fail, restarts of
                  \* either daemon, requests of users; and the mishaps that may happen
    None

Budget == [losses : Nat, restarts : Nat, requests : Nat, mishaps : SUBSET Mishaps]

ASSUME MoveAssumption ==
    /\ MaxMessages \in Nat
    /\ Budgets \subseteq Budget
    /\ None \notin Nat

VARIABLES
    busy,       \* a turn runs in the source thread
    messages,   \* messages the source thread has
    lease,      \* Thread.moved of the source
    forced,     \* the user took the thread back without an answer
    item,       \* the outbox item
    task,       \* the attempt or the abandon that holds `moving`, and the history it carries
    answer,     \* what became of the task's call to the target
    abort,      \* a peer.move.abort nobody waits for is under way
    online,     \* the machines have a session
    slot,       \* the target's record of the move
    late,       \* a prepare whose caller is gone is still being worked on
    opening,    \* the history of a commit the target works on
    there,      \* the history of the target's thread, None without one
    told,       \* the thread got the hand-off note; "cut" when the target stopped before
    left        \* what is left of the budget

source == <<busy, messages, lease, forced>>
caller == <<task, answer>>
target == <<slot, late, opening, there, told>>
vars == <<source, item, caller, abort, online, target, left>>

Histories == 0 .. MaxMessages
IdleTask == [pc |-> "idle", history |-> 0]
Unsettled == {"queued", "sending"}
May(mishap) == mishap \in left.mishaps

Init ==
    /\ busy = FALSE /\ messages \in {0, 1} \cap Histories /\ lease = "none" /\ forced = FALSE
    /\ item = "none" /\ task = IdleTask /\ answer = "none" /\ abort = FALSE
    /\ online \in BOOLEAN
    /\ slot = "none" /\ late = FALSE /\ opening = None /\ there = None /\ told = "no"
    /\ left \in Budgets

-----------------------------------------------------------------------------
(* The source thread.                                                      *)

\* Mutant: only a move that may have happened keeps messages out.
SendHeld ==
    /\ lease \in {"none", "held"} /\ ~busy /\ messages < MaxMessages
    /\ busy' = TRUE /\ messages' = messages + 1
    /\ UNCHANGED <<lease, forced, item, caller, abort, online, target, left>>

\* A thread that moves, or moved, takes no message.
Send ==
    /\ lease = "none" /\ ~busy /\ messages < MaxMessages
    /\ busy' = TRUE /\ messages' = messages + 1
    /\ UNCHANGED <<lease, forced, item, caller, abort, online, target, left>>

TurnEnds ==
    /\ busy /\ busy' = FALSE
    /\ UNCHANGED <<messages, lease, forced, item, caller, abort, online, target, left>>

-----------------------------------------------------------------------------
(* Ends of an attempt.                                                     *)

\* Mutant: an uncertain lease is released as well.
ReleaseAnyway ==
    IF lease \in {"held", "uncertain"} THEN lease' = "none" /\ abort' = TRUE
                                      ELSE UNCHANGED <<lease, abort>>

\* move_release_unless_uncertain: the target is told, best effort.
Release ==
    IF lease = "held" THEN lease' = "none" /\ abort' = TRUE ELSE UNCHANGED <<lease, abort>>

\* move_clear: the target is known not to have the thread.
Clear == lease' = IF lease \in {"held", "uncertain"} THEN "none" ELSE lease

\* outbox_finish: only an item still in sending takes the outcome.
Finish(state) == item' = IF item = "sending" THEN state ELSE item

\* move_cancel_item.
CancelItem == item' = IF item \in Unsettled THEN "cancelled" ELSE item

TaskEnds == task' = IdleTask /\ answer' = "none"
Call(pc, history) == task' = [pc |-> pc, history |-> history] /\ answer' = "none"

-----------------------------------------------------------------------------
(* What users ask for.                                                     *)

\* threads.move_to_machine writes the item and nothing else.
MoveToMachine ==
    /\ item = "none" /\ lease = "none"
    /\ item' = "queued"
    /\ UNCHANGED <<source, caller, abort, online, target, left>>

\* outbox.cancel, or the item's expiry.
GiveUp ==
    /\ left.requests > 0
    /\ item \in Unsettled
    /\ task.pc = "prepare" => May("cancel")
    /\ item' = "cancelled"
    /\ Release
    /\ left' = [left EXCEPT !.requests = @ - 1]
    /\ UNCHANGED <<busy, messages, forced, caller, online, target>>

\* outbox.retry.
Retry ==
    /\ left.requests > 0
    /\ item \in {"failed", "cancelled"}
    /\ item' = "queued"
    /\ left' = [left EXCEPT !.requests = @ - 1]
    /\ UNCHANGED <<source, caller, abort, online, target>>

\* threads.move_abandon.  The target is asked when it may have the thread.
AbandonAsks ==
    /\ left.requests > 0
    /\ task = IdleTask /\ lease = "uncertain"
    /\ Call("abandon", 0)
    /\ left' = [left EXCEPT !.requests = @ - 1]
    /\ UNCHANGED <<source, item, abort, online, target>>

AbandonReleases ==
    /\ left.requests > 0
    /\ task = IdleTask /\ lease = "held"
    /\ lease' = "none" /\ abort' = TRUE
    /\ CancelItem
    /\ left' = [left EXCEPT !.requests = @ - 1]
    /\ UNCHANGED <<busy, messages, forced, caller, online, target>>

\* The target made the thread: the move is done.
AbandonCompletes ==
    /\ task.pc = "abandon" /\ answer = "ok"
    /\ lease' = "departed"
    /\ CancelItem /\ TaskEnds
    /\ UNCHANGED <<busy, messages, forced, abort, online, target, left>>

AbandonFrees ==
    /\ task.pc = "abandon" /\ answer = "nothing"
    /\ lease' = "none"
    /\ CancelItem /\ TaskEnds
    /\ UNCHANGED <<busy, messages, forced, abort, online, target, left>>

\* No answer: the user is told so, or has asked to take the thread anyway.
AbandonUnanswered ==
    /\ task.pc = "abandon" /\ answer = "lost"
    /\ TaskEnds
    /\ \/ UNCHANGED <<lease, forced, item>>
       \/ lease' = "none" /\ forced' = TRUE /\ CancelItem
    /\ UNCHANGED <<busy, messages, abort, online, target, left>>

-----------------------------------------------------------------------------
(* Delivery attempts.                                                      *)

Due == item = "queued" /\ task = IdleTask /\ online

AttemptDone ==
    /\ Due /\ lease = "departed"
    /\ item' = "delivered"
    /\ UNCHANGED <<source, caller, abort, online, target, left>>

\* An earlier commit may have landed.
AttemptAsks ==
    /\ Due /\ lease = "uncertain"
    /\ item' = "sending"
    /\ Call("get", 0)
    /\ UNCHANGED <<source, abort, online, target, left>>

\* move_begin takes the lease of an idle thread; the lease of a dead attempt
\* is dropped first.
AttemptBegins ==
    /\ Due /\ lease \in {"none", "held"} /\ ~busy
    /\ item' = "sending"
    /\ abort' = (abort \/ lease = "held")
    /\ lease' = "held"
    /\ Call("prepare", messages)
    /\ UNCHANGED <<busy, messages, forced, online, target, left>>

\* From here on the target may create the thread.
Reserved ==
    /\ task.pc = "prepare" /\ answer = "ok"
    /\ lease' = "uncertain"
    /\ Call("commit", task.history)
    /\ UNCHANGED <<busy, messages, forced, item, abort, online, target, left>>

NotSent ==
    /\ task.pc = "prepare" /\ answer \in {"lost", "refused"}
    /\ Release
    /\ Finish(IF answer = "lost" THEN "queued" ELSE "failed")
    /\ TaskEnds
    /\ UNCHANGED <<busy, messages, forced, online, target, left>>

\* move_finalize.
Finalize ==
    /\ task.pc \in {"commit", "get"} /\ answer = "ok"
    /\ lease' = "departed"
    /\ Finish("delivered") /\ TaskEnds
    /\ UNCHANGED <<busy, messages, forced, abort, online, target, left>>

CommitRefused ==
    /\ task.pc = "commit" /\ answer = "refused"
    /\ abort' = TRUE
    /\ Clear /\ Finish("failed") /\ TaskEnds
    /\ UNCHANGED <<busy, messages, forced, online, target, left>>

\* The target broke part way or did not answer: the next attempt asks it.
Unsure ==
    /\ task.pc \in {"commit", "get"} /\ answer \in {"lost", "busy"}
    /\ Finish("queued") /\ TaskEnds
    /\ UNCHANGED <<source, abort, online, target, left>>

\* move_resolve: the slot is still reserved, so the commit goes again.
Resend ==
    /\ task.pc = "get" /\ answer = "prepared"
    /\ Call("commit", messages)
    /\ UNCHANGED <<source, item, abort, online, target, left>>

StartOver ==
    /\ task.pc = "get" /\ answer = "nothing"
    /\ Clear /\ Finish("queued") /\ TaskEnds
    /\ UNCHANGED <<busy, messages, forced, abort, online, target, left>>

\* Mutant: the sweep leaves a lease to an item that waits.
SweepEnded ==
    /\ lease = "held" /\ task = IdleTask /\ item \notin Unsettled
    /\ lease' = "none" /\ abort' = TRUE
    /\ UNCHANGED <<busy, messages, forced, item, caller, online, target, left>>

\* move_sweep: nobody renews the lease and its time has passed.
Sweep ==
    /\ lease = "held" /\ task = IdleTask
    /\ lease' = "none" /\ abort' = TRUE
    /\ UNCHANGED <<busy, messages, forced, item, caller, online, target, left>>

-----------------------------------------------------------------------------
(* The target.                                                             *)

Asked(pc) == task.pc = pc /\ answer = "none" /\ online

\* A call finds another one at work, before it wrote, only when that one is slow.
Undisturbed == (~late /\ (opening = None \/ there # None)) \/ May("slow")

\* peer.move.prepare looks at the slot, then at the repository and the providers,
PrepareTaken ==
    /\ Asked("prepare") /\ Undisturbed
    /\ answer' \in {"refused", IF slot = "committed" THEN "ok" ELSE "taken"}
    /\ UNCHANGED <<source, item, task, abort, online, target, left>>

\* and writes the slot, or refuses, without looking again.
Reserves == slot' = "prepared" /\ UNCHANGED <<opening, there, told>>

PrepareEnds ==
    /\ task.pc = "prepare" /\ answer = "taken"
    /\ \/ answer' = "ok" /\ Reserves /\ UNCHANGED late
       \/ answer' = "refused" /\ UNCHANGED target
    /\ UNCHANGED <<source, item, task, abort, online, left>>

\* One whose caller gave up does so as well.
LatePrepare ==
    /\ late /\ late' = FALSE
    /\ Reserves \/ UNCHANGED <<slot, opening, there, told>>
    /\ UNCHANGED <<source, item, caller, abort, online, left>>

\* Mutant: the slot's own word is the answer.
StatusRaw ==
    /\ Asked("get") /\ Undisturbed
    /\ answer' = slot
    /\ UNCHANGED <<source, item, task, abort, online, target, left>>

\* peer.move.get.
Status ==
    /\ Asked("get") /\ Undisturbed
    /\ answer' = CASE slot = "committed" -> "ok"
                   [] slot = "prepared"  -> "prepared"
                   [] OTHER              -> "nothing"
    /\ UNCHANGED <<source, item, task, abort, online, target, left>>

DropSlot == slot' = IF slot = "prepared" THEN "aborted" ELSE slot

\* peer.move.abort, asked by an abandon and sent without waiting.
Abort ==
    /\ Asked("abandon") /\ Undisturbed
    /\ DropSlot
    /\ answer' = IF slot = "committed" THEN "ok" ELSE "nothing"
    /\ UNCHANGED <<source, item, task, abort, online, late, opening, there, told, left>>

AbortArrives ==
    /\ abort /\ Undisturbed
    /\ abort' = FALSE
    /\ DropSlot \/ UNCHANGED slot
    /\ UNCHANGED <<source, item, caller, online, late, opening, there, told, left>>

SlotRunsOut ==
    /\ slot = "prepared" /\ Undisturbed
    /\ slot' = "aborted"
    /\ UNCHANGED <<source, item, caller, abort, online, late, opening, there, told, left>>

\* Mutant: the slot says committed before the thread is made.
CommitTakenEarly ==
    /\ Asked("commit") /\ opening = None /\ Undisturbed
    /\ slot = "prepared"
    /\ opening' = task.history /\ answer' = "taken" /\ slot' = "committed"
    /\ UNCHANGED <<source, item, task, abort, online, late, there, told, left>>

\* peer.move.commit, one at a time, finds the thread an earlier one made, or reads
\* the slot; it may refuse before it made anything.
CommitTaken ==
    /\ Asked("commit") /\ opening = None /\ Undisturbed
    /\ \/ (there # None \/ slot = "prepared") /\ opening' = task.history /\ answer' = "taken"
       \/ there = None /\ answer' = "refused" /\ UNCHANGED opening
    /\ UNCHANGED <<source, item, task, abort, online, slot, late, there, told, left>>

\* The thread, its history and the slot are written,
CommitOpens ==
    /\ opening # None /\ there = None
    /\ there' = opening /\ slot' = "committed"
    /\ UNCHANGED <<source, item, caller, abort, online, late, opening, told, left>>

\* then the note is sent, which starts the thread's turn, or fails.
Replies(words) ==
    IF task.pc = "commit" /\ answer = "taken" THEN answer' \in words ELSE UNCHANGED answer

NoteSent ==
    /\ opening # None /\ there # None
    /\ opening' = None /\ told' = "yes" /\ slot' = "committed"
    /\ Replies({"ok"})
    /\ UNCHANGED <<source, item, task, abort, online, late, there, left>>

NoteFails ==
    /\ opening # None /\ there # None
    /\ May("note_fails") /\ left.losses > 0 /\ left' = [left EXCEPT !.losses = @ - 1]
    /\ opening' = None
    /\ Replies({"refused", "busy"})
    /\ UNCHANGED <<source, item, task, abort, online, slot, late, there, told>>

-----------------------------------------------------------------------------
(* The link and restarts.                                                  *)

GoOffline == online /\ online' = FALSE /\ UNCHANGED <<source, item, caller, abort, target, left>>
ComeOnline == ~online /\ online' = TRUE /\ UNCHANGED <<source, item, caller, abort, target, left>>

\* The target goes on with a call nobody waits for any more.
LeftBehind ==
    /\ late' = (late \/ (task.pc = "prepare" /\ answer = "taken"))
    /\ UNCHANGED <<slot, opening, there, told>>

\* A call without a session fails at once, and a closed one takes its answers along.
Disconnected ==
    /\ task # IdleTask /\ answer # "lost" /\ ~online
    /\ answer' = "lost" /\ LeftBehind
    /\ UNCHANGED <<source, item, task, abort, online, left>>

\* call_raw's minute, or the attempt's time limit, is over.
TimesOut ==
    /\ left.losses > 0
    /\ task # IdleTask /\ answer # "lost"
    /\ answer' = "lost" /\ LeftBehind
    /\ left' = [left EXCEPT !.losses = @ - 1]
    /\ UNCHANGED <<source, item, task, abort, online>>

RestartSource ==
    /\ left.restarts > 0
    /\ busy' = FALSE
    /\ Finish("queued") /\ TaskEnds /\ LeftBehind
    /\ left' = [left EXCEPT !.restarts = @ - 1]
    /\ UNCHANGED <<messages, lease, forced, abort, online>>

RestartTarget ==
    /\ left.restarts > 0
    /\ late' = FALSE /\ opening' = None
    /\ \/ UNCHANGED there
       \/ May("crash") /\ opening # None /\ there = None /\ there' = opening
    /\ told' = IF told = "no" /\ opening # None /\ there' # None THEN "cut" ELSE told
    /\ answer' = IF task # IdleTask /\ answer \in {"none", "taken"} THEN "lost" ELSE answer
    /\ left' = [left EXCEPT !.restarts = @ - 1]
    /\ UNCHANGED <<source, item, task, abort, online, slot>>

-----------------------------------------------------------------------------
User == MoveToMachine \/ GiveUp \/ Retry \/ AbandonAsks \/ AbandonReleases
Attempt == AttemptDone \/ AttemptAsks \/ AttemptBegins
Reaction ==
    \/ Reserved \/ NotSent \/ Finalize \/ CommitRefused \/ Unsure \/ Resend \/ StartOver
    \/ AbandonCompletes \/ AbandonFrees \/ AbandonUnanswered
Target ==
    \/ PrepareTaken \/ PrepareEnds \/ LatePrepare \/ Status \/ Abort
    \/ CommitTaken \/ CommitOpens \/ NoteSent \/ NoteFails
Environment ==
    \/ AbortArrives \/ SlotRunsOut \/ GoOffline \/ ComeOnline
    \/ Disconnected \/ TimesOut \/ RestartSource \/ RestartTarget

Next == Send \/ TurnEnds \/ User \/ Attempt \/ Reaction \/ Sweep \/ Target \/ Environment

Spec == Init /\ [][Next]_vars

\* A turn ends because its provider answers or exits (ThreadTurns); the outbox
\* worker makes its passes, which also sweep; a call returns, since the target
\* serves it or its session is gone.
FairSpec ==
    Spec /\ WF_vars(TurnEnds) /\ WF_vars(Attempt) /\ WF_vars(Reaction) /\ WF_vars(Sweep)
         /\ WF_vars(Target \/ Disconnected)

-----------------------------------------------------------------------------
(* Properties.                                                             *)

TypeOK ==
    /\ busy \in BOOLEAN /\ messages \in Histories
    /\ lease \in {"none", "held", "uncertain", "departed"} /\ forced \in BOOLEAN
    /\ item \in {"none", "queued", "sending", "delivered", "failed", "cancelled"}
    /\ task \in [pc : {"idle", "prepare", "commit", "get", "abandon"}, history : Histories]
    /\ answer \in {"none", "taken", "ok", "prepared", "nothing", "refused", "busy", "lost"}
    /\ abort \in BOOLEAN /\ online \in BOOLEAN
    /\ slot \in {"none", "prepared", "aborted", "committed"}
    /\ opening \in {None} \union Histories /\ there \in {None} \union Histories
    /\ late \in BOOLEAN /\ told \in {"no", "yes", "cut"}
    /\ left \in Budget

Quiet == left.mishaps = {}

\* Two machines never both take messages for one thread: once the target has
\* it, the source is uncertain or departed, whatever was lost, restarted or
\* asked in between.  Only a user who was told so takes it back by force.
OneOwner == Quiet /\ there # None /\ ~forced => lease \in {"uncertain", "departed"}

\* The thread that continues has everything the source ever accepted.
CarriesAll == Quiet /\ there # None /\ ~forced => there = messages

\* The source goes read-only for good only when the target has the thread,
\* whatever else went wrong.
NeverLost == lease = "departed" => there # None

\* The thread that goes on was told to, or is being told, unless its machine stopped
\* just then: nobody sends the note again to a source that departed.
DepartedRuns == Quiet /\ lease = "departed" => told \in {"yes", "cut"} \/ opening # None

\* What the outbox reports as delivered has departed.
DeliveredDeparted == item = "delivered" => lease = "departed"

\* A target that refuses a commit has made nothing (move_commit's comment), so the
\* source may take its thread back.
RefusalMadeNothing == task.pc = "commit" /\ answer = "refused" => there = None

\* The machines keep the promise of Handover: the source takes messages while no
\* lease is on its thread, and only force or a mishap breaks the promise.
Promise == INSTANCE Handover WITH open <- lease = "none", void <- forced \/ ~Quiet
Handover == Promise!Spec

\* What the source does about an answer, by the call it waits for (Reaction).
Handled(pc) ==
    CASE pc = "prepare" -> {"ok", "refused", "lost"}
      [] pc = "commit"  -> {"ok", "refused", "busy", "lost"}
      [] pc = "get"     -> {"ok", "prepared", "nothing", "lost"}
      [] pc = "abandon" -> {"ok", "nothing", "lost"}

\* Nothing is stuck: an item that is being sent has its attempt, a call has no
\* answer yet or one its caller knows what to do with, and a call the target
\* took is being worked on, whatever was restarted or lost in between.
Unstuck ==
    /\ item = "sending" => task.pc \in {"prepare", "commit", "get"}
    /\ IF task = IdleTask THEN answer = "none"
       ELSE \/ answer \in {"none"} \union Handled(task.pc)
            \/ task.pc = "prepare" /\ answer = "taken"
            \/ task.pc = "commit" /\ answer = "taken" /\ opening # None

\* With a session that stays, a queued move comes to an end.  No thread stays
\* locked by a lease: it is released or the move goes on, also when its attempt
\* died and the target is away.
MoveEnds ==
    /\ <>[]online => (item \in Unsettled ~> item \notin Unsettled)
    /\ lease = "held" ~> lease # "held"
=============================================================================
