----------------------------- MODULE ReviewLoop -----------------------------
(***************************************************************************)
(* What becomes of a card's work once its run has ended: the report and    *)
(* the column (runs/orchestrator.rs), the project's checks and their       *)
(* bounded fixes (checks.rs), the review by another agent and its rounds   *)
(* (review.rs), and Merge with its gate (routes/tasks.rs).                 *)
(*                                                                         *)
(* One card of a project that requires a review.  Actors: its live run;    *)
(* the task each ended run leaves behind (its post-work, or the checks it  *)
(* spawned), which moves from await to await while the next run works; the *)
(* person who starts, cancels, checks, reviews and merges; restarts.  That *)
(* one run of a card is live at a time is CardStarts' OneLiveRun: a door   *)
(* that supersedes a summary, looks and inserts is one step here.  Bake-   *)
(* offs, whose older attempts a fresh Retry does not see, are left out.    *)
(*                                                                         *)
(* Timestamps are only ever compared, so each comparison is kept as its    *)
(* outcome: covered, fresh, rounds, attempts.                              *)
(***************************************************************************)
EXTENDS Integers

CONSTANTS
    MaxRuns,        \* bound: the runs the card may ever have
    Tasks,          \* bound: the tasks that ended runs have left at once
    MaxRounds,      \* project_review_policy.max_rounds
    RequireChecks,  \* project_review_policy.require_checks
    Consented,      \* the project has checks and they run unasked
    AutoFix,        \* project_checks.auto_fix_attempts
    MaxRestarts     \* bound: restarts of the server

ASSUME BoundsAssumption ==
    MaxRuns \in Nat /\ MaxRounds \in Nat /\ AutoFix \in Nat /\ MaxRestarts \in Nat
ASSUME TasksAssumption == Tasks \subseteq Nat
ASSUME PolicyAssumption == RequireChecks \in BOOLEAN /\ Consented \in BOOLEAN

VARIABLES
    \* The database.
    n,              \* the runs so far; the last is the only one that may be live
    trigger,        \* its runs.trigger
    state,          \* "queued", "planning", "parked" with a plan, "working", or "ended"
    round,          \* its runs.review_round, when it is a review
    verdict,        \* what it has submitted, when it is a review
    column,         \* tasks.board_column
    worktree,       \* tasks.worktree_path is set
    covered,        \* a verdict is newer than the last completed work
    latest,         \* the latest verdict
    rounds,         \* verdicts since a person last started the work
    check,          \* the latest check run, "void" when there is no result
    fresh,          \* it is newer than the last completed work
    attempts,       \* checks fixes since the last other work
    \* The process.
    task,           \* what each ended run left behind
    merge,          \* where Merge is, or a fresh Retry
    forced,         \* it was told to go past the gate
    \* History.
    gated,          \* the runs there were when it looked for a live one
    unjudged,       \* the worktree has changed since the latest verdict
    cutShort,       \* work has ended uncompleted since the latest verdict
    owed,           \* completed work waits for a review, and nobody was told
    restarts        \* restarts so far, for the bound

run == <<n, trigger, state, round, verdict>>
card == <<column, worktree>>
verdicts == <<covered, latest, rounds>>
checks == <<check, fresh>>
door == <<merge, forced, gated>>
content == <<unjudged, cutShort>>
vars == <<run, card, verdicts, checks, attempts, task, door, content, owed, restarts>>

Work == {"manual", "review", "checks"}
Passive == {"summary", "peer_review"}
Verdicts == {"none", "approve", "changes"}
Places == {"idle", "reporting", "beginning", "checking", "red", "asking", "wanting",
           "queueing", "acting", "answering"}

\* A task: where it is, whether its run said nothing, the review's round, or
\* the rounds a start has read, and the review's verdict.
TaskStates == [at : Places, quiet : BOOLEAN, num : Nat, given : Verdicts]
At(p) == [at |-> p, quiet |-> FALSE, num |-> 0, given |-> "none"]

Live == state # "ended"
Executing == state \in {"planning", "working"}

TypeOK ==
    /\ n \in 0 .. MaxRuns
    /\ trigger \in Work \cup Passive \cup {"none"}
    /\ state \in {"queued", "planning", "parked", "working", "ended"}
    /\ round \in Nat
    /\ verdict \in Verdicts
    /\ verdict # "none" => trigger = "peer_review"
    /\ column \in {"running", "review", "done"}
    /\ worktree \in BOOLEAN
    /\ covered \in BOOLEAN
    /\ latest \in Verdicts
    /\ rounds \in Nat
    /\ check \in {"void", "pending", "passed", "failed"}
    /\ fresh \in BOOLEAN
    /\ attempts \in Nat
    /\ task \in [Tasks -> TaskStates]
    /\ merge \in {"idle", "merging", "filing", "dropping"}
    /\ forced \in BOOLEAN
    /\ gated \in 0 .. MaxRuns
    /\ unjudged \in BOOLEAN
    /\ cutShort \in BOOLEAN
    /\ owed \in {"no", "yes", "lost"}
    /\ restarts \in 0 .. MaxRestarts

Init ==
    /\ n = 0 /\ trigger = "none" /\ state = "ended" /\ round = 0 /\ verdict = "none"
    /\ column = "review" /\ worktree = FALSE
    /\ covered = FALSE /\ latest = "none" /\ rounds = 0
    /\ check = "void" /\ fresh = FALSE /\ attempts = 0
    /\ task = [k \in Tasks |-> At("idle")]
    /\ merge = "idle" /\ forced = FALSE /\ gated = 0
    /\ unjudged = FALSE /\ cutShort = FALSE /\ owed = "no"
    /\ restarts = 0

----------------------------------------------------------------------------
(* The card's runs. *)

Told == owed' = "no"
Lost == owed' = IF owed = "yes" THEN "lost" ELSE owed

\* A new run.  Only work a person starts afresh resets the rounds, and any
\* work that is not itself a checks fix resets the attempts.
NewRun(t, r) ==
    /\ n' = n + 1
    /\ trigger' = t
    /\ state' = "queued"
    /\ round' = r
    /\ verdict' = "none"
    /\ rounds' = IF t = "manual" THEN 0 ELSE rounds
    /\ attempts' = IF t = "checks" THEN attempts + 1
                   ELSE IF t \in Passive THEN attempts ELSE 0
NoRun == UNCHANGED <<run, rounds, attempts>>

\* supersede_summary, which every door that would refuse a live run calls
\* first: the summary ends, and will not ask for the review.
Superseded == Live /\ trigger = "summary"
Busy == Live /\ ~Superseded
Supersede ==
    /\ state' = IF Superseded THEN "ended" ELSE state
    /\ UNCHANGED <<n, trigger, round, verdict, rounds, attempts>>
Cut == IF Superseded THEN Lost ELSE UNCHANGED owed

\* enqueue_follow_up's refusals: a live run, a done card, no worktree, and a
\* spent budget, which MaxRuns stands for.
CanFollow == ~Busy /\ column # "done" /\ worktree /\ n < MaxRuns

Go(k, t) == task' = [task EXCEPT ![k] = t]
\* A task is only a name: the first that is free.
Free == {k \in Tasks : task[k] = At("idle")}
Leaves(t) == \E k \in Free : (\A j \in Free : k <= j) /\ Go(k, t)

\* execute: the card's worktree, or a new one.  What a person starts may be a
\* run that plans first, with nothing it could write with.
Claim ==
    /\ state = "queued"
    /\ state' \in IF trigger = "manual" THEN {"working", "planning"} ELSE {"working"}
    /\ worktree' = TRUE
    /\ UNCHANGED <<n, trigger, round, verdict, column, verdicts, checks, attempts, task, door,
                   content, owed, restarts>>

\* park_for_approval: the card stays where it is.
Park ==
    /\ state = "planning"
    /\ state' = "parked"
    /\ UNCHANGED <<n, trigger, round, verdict, card, verdicts, checks, attempts, task, door,
                   content, owed, restarts>>

\* The plan is approved, or sent back with a note: the same run is queued, and
\* what Claim makes of it tells which.
AnswerPlan ==
    /\ state = "parked"
    /\ state' = "queued"
    /\ UNCHANGED <<n, trigger, round, verdict, card, verdicts, checks, attempts, task, door,
                   content, owed, restarts>>

\* The agent writes in the worktree.
Edit ==
    /\ state = "working" /\ trigger \in Work /\ worktree
    /\ unjudged' = TRUE
    /\ UNCHANGED <<run, card, verdicts, checks, attempts, task, door, cutShort, owed, restarts>>

\* submit: the reviewer's verdict, once.
Submit(v) ==
    /\ state = "working" /\ trigger = "peer_review"
    /\ verdict = "none"
    /\ verdict' = v /\ latest' = v
    /\ covered' = TRUE
    /\ rounds' = rounds + 1
    /\ unjudged' = FALSE /\ cutShort' = FALSE
    /\ Told
    /\ UNCHANGED <<n, trigger, state, round, card, checks, attempts, task, door, restarts>>

\* Mutant of WorkCompletes: a fix of the checks does not count as work.
FixIsNoWork(quiet) ==
    /\ state = "working" /\ trigger \in Work
    /\ state' = "ended"
    /\ covered' = (covered /\ trigger = "checks") /\ fresh' = FALSE
    /\ owed' = "yes"
    /\ Leaves([At("reporting") EXCEPT !.quiet = quiet])
    /\ UNCHANGED <<n, trigger, round, verdict, card, latest, rounds, check, attempts, door,
                   content, restarts>>

\* A run of work completes: finish, and its task goes on.
WorkCompletes(quiet) ==
    /\ state = "working" /\ trigger \in Work
    /\ state' = "ended"
    /\ covered' = FALSE /\ fresh' = FALSE
    /\ owed' = "yes"
    /\ Leaves([At("reporting") EXCEPT !.quiet = quiet])
    /\ UNCHANGED <<n, trigger, round, verdict, card, latest, rounds, check, attempts, door,
                   content, restarts>>

\* What settle_review is called with once a review has ended.
Judged == [At("acting") EXCEPT !.num = round, !.given = verdict]

\* A summary or a review completes: settle_review is next.
PassCompletes ==
    /\ state = "working" /\ trigger \in Passive
    /\ state' = "ended"
    /\ Leaves(IF trigger = "summary" THEN At("wanting") ELSE Judged)
    /\ UNCHANGED <<n, trigger, round, verdict, card, verdicts, checks, attempts, door, content,
                   owed, restarts>>

\* A run fails, is stopped for its silence, or is canceled by a person, queued
\* or working: finish.  Work that ends so takes the card off In Progress and
\* is news by itself; a review that has failed or has judged is acted on.  A
\* plan that waits for its answer can only be canceled.
Stops(canceled) ==
    /\ Live
    /\ state = "parked" => canceled
    /\ state' = "ended"
    /\ IF trigger = "peer_review" /\ (~canceled \/ verdict # "none")
          THEN Leaves(Judged) ELSE UNCHANGED task
    /\ column' = IF column = "running" THEN "review" ELSE column
    /\ IF trigger = "summary" /\ ~canceled THEN Lost
       ELSE IF trigger \in Work \/ canceled THEN Told ELSE UNCHANGED owed
    /\ cutShort' = (cutShort \/ trigger \in Work)
    /\ UNCHANGED <<n, trigger, round, verdict, worktree, verdicts, checks, attempts, door,
                   unjudged, restarts>>

----------------------------------------------------------------------------
(* The task a run of work leaves behind. *)

After(t) == IF t.quiet THEN At("asking") ELSE At("wanting")

\* The work is reported and the card filed.
File(k) ==
    /\ task[k].at = "reporting"
    /\ column' = "review"
    /\ Go(k, [task[k] EXCEPT !.at = "beginning"])
    /\ UNCHANGED <<run, worktree, verdicts, checks, attempts, door, content, owed, restarts>>

\* The tasks when pending checks are canceled: the one that waits returns.
Canceled == [k \in Tasks |-> IF task[k].at = "checking" THEN At("idle") ELSE task[k]]

\* checks::begin, unasked: what is still pending is canceled.
Begin(k) ==
    /\ task[k].at = "beginning"
    /\ IF Consented
          THEN /\ check' = "pending" /\ fresh' = TRUE
               /\ task' = [Canceled EXCEPT ![k] = [task[k] EXCEPT !.at = "checking"]]
          ELSE Go(k, After(task[k])) /\ UNCHANGED checks
    /\ UNCHANGED <<run, card, verdicts, attempts, door, content, owed, restarts>>

\* checks::execute, and what settle_checks says of it on the card.
ChecksEnd(s) ==
    /\ check = "pending"
    /\ check' = s
    /\ task' = [k \in Tasks |-> IF task[k].at # "checking" THEN task[k]
                                ELSE IF s = "failed" THEN [task[k] EXCEPT !.at = "red"]
                                ELSE After(task[k])]
    /\ IF s = "passed" THEN UNCHANGED owed ELSE Told
    /\ UNCHANGED <<run, card, verdicts, fresh, attempts, door, content, restarts>>

\* fix_failing_checks: the fix reports for itself, so no summary is asked for.
Fix(k) ==
    /\ task[k].at = "red"
    /\ IF attempts < AutoFix /\ CanFollow
          THEN NewRun("checks", 0) /\ Go(k, At("wanting"))
          ELSE (IF attempts < AutoFix THEN Supersede ELSE NoRun) /\ Go(k, After(task[k]))
    /\ IF attempts < AutoFix THEN Cut ELSE UNCHANGED owed
    /\ UNCHANGED <<card, covered, latest, checks, door, content, restarts>>

\* ask_for_summary, which supersedes nothing.
Ask(k) ==
    /\ task[k].at = "asking"
    /\ Go(k, At("wanting"))
    /\ IF ~Live /\ CanFollow THEN NewRun("summary", 0) ELSE NoRun
    /\ UNCHANGED <<card, covered, latest, checks, door, content, owed, restarts>>

\* wants_review; the work that completed is the task's own.
WantsReview == column = "review" /\ worktree /\ ~Live /\ ~covered

ChecksHold == RequireChecks /\ fresh /\ check # "passed"

\* settle_review, up to the start of the review.
Want(k) ==
    /\ task[k].at = "wanting"
    /\ Go(k, IF WantsReview /\ ~ChecksHold /\ rounds < MaxRounds
             THEN [At("queueing") EXCEPT !.num = rounds] ELSE At("idle"))
    /\ UNCHANGED <<run, card, verdicts, checks, attempts, door, content, owed, restarts>>

\* The start itself, or a word on the card why the review could not start.
QueueReview(k) ==
    /\ task[k].at = "queueing"
    /\ Go(k, At("idle"))
    /\ IF CanFollow THEN NewRun("peer_review", task[k].num + 1) /\ Cut
                    ELSE Supersede /\ Told
    /\ UNCHANGED <<card, covered, latest, checks, door, content, restarts>>

Answered(t) == t.given = "changes" /\ t.num < MaxRounds

\* Mutant of Act: a review that ends without a verdict is left at that.
ActOnVerdictOnly(k) ==
    /\ task[k].at = "acting"
    /\ Go(k, IF Answered(task[k]) THEN At("answering") ELSE At("idle"))
    /\ UNCHANGED <<run, card, verdicts, checks, attempts, door, content, owed, restarts>>

\* act_on_verdict: no verdict is recorded as changes requested and put to a
\* person, and so is the last round's; other changes get their one fix.
Act(k) ==
    /\ task[k].at = "acting"
    /\ IF task[k].given = "none"
          THEN /\ latest' = "changes" /\ covered' = TRUE /\ rounds' = rounds + 1
               /\ unjudged' = FALSE /\ cutShort' = FALSE
               /\ Told
          ELSE UNCHANGED <<verdicts, content, owed>>
    /\ Go(k, IF Answered(task[k]) THEN At("answering") ELSE At("idle"))
    /\ UNCHANGED <<run, card, checks, attempts, door, restarts>>

\* The round's one fix, acting on the verdict as on a note.
Answer(k) ==
    /\ task[k].at = "answering"
    /\ Go(k, At("idle"))
    /\ IF CanFollow THEN NewRun("review", 0) /\ Cut ELSE Supersede /\ Told
    /\ UNCHANGED <<card, covered, latest, checks, door, content, restarts>>

----------------------------------------------------------------------------
(* The person. *)

\* Start, and what Retry starts.
StartWork ==
    /\ ~Busy /\ n < MaxRuns
    /\ NewRun("manual", 0) /\ Cut
    /\ column' = "running"
    /\ UNCHANGED <<worktree, covered, latest, checks, task, door, content, restarts>>

\* run_is_active: a plan that waits for its answer does not count.
Active == Busy /\ state # "parked"

\* A fresh Retry looks whether the card's run is active, and then gives the
\* worktree back; with a parked run the start that follows is refused.
RetryAsk ==
    /\ merge = "idle" /\ worktree
    /\ ~Active
    /\ Supersede /\ Cut
    /\ merge' = "dropping" /\ gated' = n
    /\ UNCHANGED <<card, covered, latest, checks, task, forced, content, restarts>>

Emptied == worktree' = FALSE /\ unjudged' = FALSE /\ cutShort' = FALSE
Closed == merge' = "idle" /\ forced' = FALSE /\ gated' = 0

\* drop_worktree.
RetryDrop ==
    /\ merge = "dropping"
    /\ Closed /\ Emptied
    /\ UNCHANGED <<run, column, verdicts, checks, attempts, task, owed, restarts>>

\* A note on the diff to act on, and "Fix failing checks".
AskForFix(t) ==
    /\ CanFollow
    /\ t = "checks" => check = "failed"
    /\ NewRun(t, 0) /\ Cut
    /\ UNCHANGED <<card, covered, latest, checks, task, door, content, restarts>>

\* "Review": past the cap, as often as a person likes.
AskForReview ==
    /\ CanFollow
    /\ NewRun("peer_review", rounds + 1) /\ Cut
    /\ UNCHANGED <<card, covered, latest, checks, task, door, content, restarts>>

\* "Run checks", which settles nothing after them.
RunChecks ==
    /\ ~Live /\ worktree
    /\ check' = "pending" /\ fresh' = TRUE
    /\ task' = Canceled
    /\ Lost
    /\ UNCHANGED <<run, card, verdicts, attempts, door, content, restarts>>

\* Mutant of GateOpen: an approval is for good.
GateOpenForGood == latest = "approve" /\ (RequireChecks => check = "passed" /\ fresh)

\* gate, of a project that requires a review.
GateOpen ==
    /\ latest = "approve" /\ covered
    /\ RequireChecks => check = "passed" /\ fresh

\* The merge route up to its gate; the summary goes whatever the gate says.
MergeAsk(force) ==
    /\ merge = "idle" /\ worktree
    /\ Supersede /\ Cut
    /\ IF ~Busy /\ (GateOpen \/ force)
          THEN merge' = "merging" /\ forced' = ~GateOpen /\ gated' = n
          ELSE UNCHANGED door
    /\ UNCHANGED <<card, covered, latest, checks, task, content, restarts>>

\* squash_merge takes what is in the worktree now, or refuses.
MergeLand ==
    /\ merge = "merging"
    /\ merge' = "filing"
    /\ UNCHANGED <<run, card, verdicts, checks, attempts, task, forced, gated, content, owed,
                   restarts>>
MergeRefused ==
    /\ merge = "merging"
    /\ Closed
    /\ UNCHANGED <<run, card, verdicts, checks, attempts, task, content, owed, restarts>>

\* Done, the pending checks canceled, and the worktree given back.
MergeFile ==
    /\ merge = "filing"
    /\ Closed /\ Emptied
    /\ column' = "done"
    /\ IF check = "pending" THEN check' = "void" /\ task' = Canceled ELSE UNCHANGED <<check, task>>
    /\ Told
    /\ UNCHANGED <<run, verdicts, fresh, attempts, restarts>>

\* The server goes and comes back: recover_orphans fails what was working, and
\* recover_interrupted the checks.  Nothing takes up what the tasks left.
Restart ==
    /\ restarts < MaxRestarts
    /\ restarts' = restarts + 1
    /\ state' = IF Executing THEN "ended" ELSE state
    /\ cutShort' = (cutShort \/ (Executing /\ trigger \in Work))
    /\ task' = [k \in Tasks |-> At("idle")]
    /\ Closed
    /\ check' = IF check = "pending" THEN "void" ELSE check
    /\ Lost
    /\ UNCHANGED <<n, trigger, round, verdict, card, verdicts, fresh, attempts, unjudged>>

----------------------------------------------------------------------------

RunStep ==
    \/ Claim
    \/ Park
    \/ \E quiet \in BOOLEAN : WorkCompletes(quiet)
    \/ PassCompletes
    \/ \E canceled \in BOOLEAN : Stops(canceled)

ChecksStep == \E s \in {"passed", "failed", "void"} : ChecksEnd(s)

TaskStep(k) ==
    File(k) \/ Begin(k) \/ Fix(k) \/ Ask(k) \/ Want(k) \/ QueueReview(k) \/ Act(k) \/ Answer(k)

DoorStep == MergeLand \/ MergeRefused \/ MergeFile \/ RetryDrop

Next ==
    \/ RunStep
    \/ Edit
    \/ AnswerPlan
    \/ \E v \in {"approve", "changes"} : Submit(v)
    \/ ChecksStep
    \/ \E k \in Tasks : TaskStep(k)
    \/ StartWork
    \/ RetryAsk
    \/ \E t \in {"review", "checks"} : AskForFix(t)
    \/ AskForReview
    \/ RunChecks
    \/ \E force \in BOOLEAN : MergeAsk(force)
    \/ DoorStep
    \/ Restart

Spec == Init /\ [][Next]_vars

\* A run ends by itself or is stopped, a check has its time limit, and the
\* server's tasks go on.  What people do, they need not do.
Fairness ==
    /\ WF_vars(RunStep)
    /\ WF_vars(ChecksStep)
    /\ \A k \in Tasks : WF_vars(TaskStep(k))
    /\ WF_vars(DoorStep)

FairSpec == Spec /\ Fairness

----------------------------------------------------------------------------

(* What is asked of it. *)

\* An approval that the gate would honour is of what the worktree holds: with
\* nobody at work, the content has not changed since the verdict, except
\* through work that ended without completing, which last_work does not count
\* (review.rs, last_work and gate).
ApprovalStands ==
    latest = "approve" /\ covered /\ ~Live => ~unjudged \/ cutShort

Landing == merge = "merging" /\ merge' = "filing"

\* Merge lands, without anybody's override, only what a reviewer has seen,
\* unless a run has started since it asked the gate.  The code does not keep
\* this: a run that is canceled or fails after the approval has edited the
\* worktree, and the gate still reads the approval as newer than the work.
MergeLandsApproved ==
    [][Landing /\ ~forced => ~unjudged \/ n > gated]_vars

\* What it does keep: unjudged content lands only where such a run has left
\* it, or where a run has started since Merge asked the gate (routes/tasks.rs
\* merge, which asks and then squashes what is there).
MergeLandsJudgedWork ==
    [][Landing /\ ~forced => ~unjudged \/ cutShort \/ n > gated]_vars

\* What run_is_active's neighbour says of it ("it is the wrong one before
\* touching the worktree", routes/tasks.rs any_run_is_live) holds of Retry too:
\* a worktree is given back only when the card has no live run, unless one has
\* started since the look.  The code does not keep this: a fresh Retry drops
\* the worktree of a run whose plan waits, or was answered after the look.
DropsOnlyIdleWorktrees ==
    [][worktree /\ ~worktree' => ~Live \/ n > gated]_vars

\* Completed work is judged, reviewed, or put to a person: nothing that waits
\* for its review is forgotten while the server stays up, unless a person's
\* own act has cut the loop short ("lost": a summary superseded, checks run by
\* hand) or the rounds are spent (settle_review, act_on_verdict).
ReviewComes ==
    owed = "yes" ~> owed # "yes" \/ Live \/ ~worktree \/ column = "done" \/ rounds >= MaxRounds

\* The same whatever people click.  The code does not keep this: a summary
\* that Merge supersedes, and the gate then refuses, never asks again, though
\* settle_review counts on every completion to call it.
ReviewComesAnyway ==
    owed # "no" ~> owed = "no" \/ Live \/ ~worktree \/ column = "done" \/ rounds >= MaxRounds

\* The loop asks for a review only of work no verdict covers (settle_review's
\* doc).  The code does not keep this: what wants_review read may have changed
\* when the review starts.
ReviewsOnlyTheUnjudged ==
    [][n' > n /\ trigger' = "peer_review" /\ task' # task => ~covered]_vars
=============================================================================
