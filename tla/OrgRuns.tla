------------------------------ MODULE OrgRuns ------------------------------
(***************************************************************************)
(* A team's run (runs/org): the manager plans, the specialists work through *)
(* the assignments in batches whose files do not overlap, the manager       *)
(* adjusts what is still queued after each batch, decides what a failure    *)
(* means, and reviews.  Each assignment has a card of its own under the     *)
(* run's card, its epic, whose column mirrors the assignment (epic.rs).     *)
(*                                                                         *)
(* Actors: the executor and the turns it drives, one engine each; the       *)
(* cancel route; people who approve, reject and prune a plan and who start  *)
(* an assignment's card as a run of its own; restarts.                      *)
(*                                                                         *)
(* The queue row, the slots a batch borrows and the instant between a       *)
(* stream's status gate and its registration are RunLifecycle's and         *)
(* PermissionBroker's.  Left out: briefs, reports and messages, the manager *)
(* who answers a specialist's question on the side, and the cards people    *)
(* drag about.  An engine's end and the row that records it are one step.   *)
(***************************************************************************)
EXTENDS Naturals, FiniteSets

CONSTANTS
    Size,           \* bound: the assignments of the run, second attempts apart
    Scopes,         \* bound: the paths an assignment may declare
    Plans,          \* bound: the plans the manager may hand over
    Manager,
    MaxParallel,    \* MAX_PARALLEL_ASSIGNMENTS
    MaxTotal,       \* MAX_TOTAL_ASSIGNMENTS
    MaxAdded,       \* MAX_ADDED_ASSIGNMENTS
    MaxReplans,     \* MAX_REPLANS
    InPlace,        \* the project has no git: work lands without a review
    OwnRuns,        \* bound: the assignments whose cards are run on their own
    MaxRestarts     \* bound: restarts of the server

\* Keys in the order the assignments join the plan.  A failed one may be tried
\* once more, as key#2.
Keys == 1 .. Size
Steps == Keys \X {1, 2}
Members == Steps \cup {Manager}

Retry(s) == <<s[1], 2>>

\* find_cycle: nobody in a set of tasks is free of the others.
Acyclic(tasks, deps) ==
    \A S \in SUBSET tasks : S # {} => \E k \in S : deps[k] \cap S = {}

\* inspect_plan: what has_blocking lets through.  An addition that names a
\* dependency is refused, so what joins later has none.
Runnable(p) ==
    /\ p.tasks \in 1 .. Size
    /\ p.touches \in [Keys -> SUBSET Scopes]
    /\ p.deps \in [Keys -> SUBSET (1 .. p.tasks)]
    /\ \A k \in Keys : k > p.tasks => p.deps[k] = {}
    /\ Acyclic(1 .. p.tasks, p.deps)

ASSUME SizeAssumption == Size \in Nat /\ Manager \notin Steps
ASSUME PlansAssumption == Plans # {} /\ \A p \in Plans : Runnable(p)
ASSUME LimitsAssumption ==
    /\ MaxParallel \in Nat \ {0} /\ MaxTotal \in Nat
    /\ MaxAdded \in Nat /\ MaxReplans \in Nat /\ MaxRestarts \in Nat
ASSUME CardsAssumption == InPlace \in BOOLEAN /\ OwnRuns \subseteq Steps

VARIABLES
    plan,           \* what the manager will hand over
    fromCard,       \* the run works a card, or was asked for in the team room
    \* The database.
    run,            \* runs.status
    step,           \* steps.status of each assignment
    epic,           \* board_column of the run's card
    column,         \* board_column of each assignment's card
    own,            \* the run a person started on an assignment's card
    replans,        \* runs.replans
    \* The process.
    pc,             \* where the executor is between its awaits
    turn,           \* the engine of each member
    batch,          \* the assignments of the batch that have not started
    width,          \* how many of them may work at once
    reported,       \* some assignment of the batch completed
    failures,       \* the assignments of the batch that did not
    verdict,        \* what the executor will finish the run with
    added,          \* assignments added so far
    requested,      \* a stop is on record in `cancels`
    canceller,      \* where the cancel route is
    restarts,       \* restarts so far, for the bound
    late            \* history: a restart cut an ended run's last writes short

given == <<plan, fromCard>>
rows == <<run, step, replans>>
cards == <<epic, column, own>>
work == <<batch, width, reported, failures, added>>
stops == <<requested, canceller>>
tally == <<restarts, late>>
vars == <<given, rows, cards, pc, turn, work, verdict, stops, tally>>

\* starting, running and waiting_permission are "working".
Ended == {"completed", "failed", "canceled"}
Columns == {"backlog", "running", "review", "done"}
Places == {"idle", "planning", "repairing", "writing", "looping", "choosing",
           "working", "replanning", "adjusting", "failing", "triaging",
           "reviewing", "finishing", "mirroring", "settling"}

TypeOK ==
    /\ plan \in Plans /\ fromCard \in BOOLEAN
    /\ run \in {"queued", "working", "asking"} \cup Ended
    /\ step \in [Steps -> {"none", "queued", "running", "skipped"} \cup Ended]
    /\ replans \in 0 .. MaxReplans
    /\ epic \in Columns
    /\ column \in [Steps -> Columns \cup {"none"}]
    /\ own \in [Steps -> {"none", "live", "ended"}]
    /\ pc \in Places
    /\ turn \in [Members -> {"idle", "opening", "streaming", "fired"}]
    /\ batch \subseteq Steps /\ failures \subseteq Steps
    /\ width \in 1 .. MaxParallel
    /\ reported \in BOOLEAN
    /\ verdict \in Ended \cup {"none"}
    /\ added \in 0 .. MaxAdded
    /\ requested \in BOOLEAN
    /\ canceller \in {"idle", "signalling", "closing", "mirroring"}
    /\ restarts \in 0 .. MaxRestarts
    /\ late \in BOOLEAN

\* enqueue_org_run from the team room, enqueue_task_for_team from a card.
Init ==
    /\ plan \in Plans /\ fromCard \in BOOLEAN
    /\ run = "queued"
    /\ step = [s \in Steps |-> "none"]
    /\ replans = 0
    /\ epic = "running"
    /\ column = [s \in Steps |-> "none"]
    /\ own = [s \in Steps |-> "none"]
    /\ pc = "idle"
    /\ turn = [m \in Members |-> "idle"]
    /\ batch = {} /\ width = 1 /\ reported = FALSE /\ failures = {} /\ added = 0
    /\ verdict = "none"
    /\ requested = FALSE /\ canceller = "idle"
    /\ restarts = 0 /\ late = FALSE

----------------------------------------------------------------------------
(* Assignments and their cards. *)

Pending == {s \in Steps : step[s] = "queued"}
Present == {s \in Steps : step[s] # "none"}

DependsOn(s) == IF s[2] = 1 THEN {<<d, 1>> : d \in plan.deps[s[1]]} ELSE {}
Touches(s) == plan.touches[s[1]]

\* ORDER BY position: second attempts come last (among themselves in no order
\* that matters).
Before(s, t) == s[2] < t[2] \/ (s[2] = t[2] /\ s[1] < t[1])
First(S) == CHOOSE s \in S : \A t \in S \ {s} : Before(s, t)

Declared(s) == Touches(s) # {}
Apart(s, t) == Declared(s) /\ Declared(t) /\ Touches(s) \cap Touches(t) = {}

\* Mutant of Ready: a dependency that has started is good enough to go on.
ReadyInAnyCase == Pending

\* ready_now: what no queued assignment holds up.  A plan without a cycle
\* always has one.
Ready == {s \in Pending : DependsOn(s) \cap Pending = {}}

\* Mutant of IsBatch: an assignment without a scope joins as if it touched
\* nothing.
IsBatchUndeclared(B) ==
    /\ B \subseteq Ready /\ First(Ready) \in B
    /\ Cardinality(B) <= MaxParallel
    /\ \A s, t \in B : s # t => Touches(s) \cap Touches(t) = {}

\* parallel_batch: the first that is ready, and in order whatever is apart from
\* all that joined before it, while there is room.
IsBatch(B) ==
    /\ B \subseteq Ready /\ First(Ready) \in B
    /\ \A s, t \in B : s # t => Apart(s, t)
    /\ Cardinality(B) <= MaxParallel
    /\ \A s \in Ready \ B :
          LET joined == {t \in B : Before(t, s)}
          IN  Cardinality(joined) = MaxParallel \/ \E t \in joined : ~Apart(s, t)

\* COLUMN_FOR_STEP.
ColumnFor(status) ==
    CASE status = "queued" -> "backlog"
      [] status = "running" -> "running"
      [] status = "skipped" -> "done"
      [] status = "completed" /\ InPlace -> "done"
      [] OTHER -> "review"

\* mirror_step and mirror_run, on the rows as they are to be: a card with a run
\* of its own is left alone.
Mirrored(S, rows1) ==
    [s \in Steps |-> IF s \in S /\ column[s] # "none" /\ own[s] = "none"
                     THEN ColumnFor(rows1[s]) ELSE column[s]]

\* settle_steps, under a run that ended as `ending`.
Settled(ending) ==
    [s \in Steps |->
        CASE step[s] = "running" -> IF ending = "canceled" THEN "canceled" ELSE "failed"
          [] step[s] = "queued" -> "skipped"
          [] OTHER -> step[s]]

\* Every stream that is registered is told to stop.
Interrupted ==
    [m \in Members |-> IF turn[m] = "streaming" THEN "fired" ELSE turn[m]]

\* Mutant of Finish: the rows are left to the executor that wrote them.
FinishRunOnly(ending) ==
    /\ requested' = FALSE
    /\ run' = IF run \in Ended THEN run ELSE ending
    /\ UNCHANGED <<step, epic>>
    /\ turn' = Interrupted

\* finish: the first ending wins, the steps go with it, and a run that ended
\* badly takes its card off In Progress.
Finish(ending) ==
    LET final == IF run \in Ended THEN run ELSE ending IN
    /\ requested' = FALSE
    /\ run' = final
    /\ step' = Settled(final)
    /\ epic' = IF fromCard /\ final # "completed" /\ epic = "running"
               THEN "review" ELSE epic
    /\ turn' = Interrupted

----------------------------------------------------------------------------
(* A turn: run_member and the stream under it. *)

\* The gate refuses a run that has ended.  A stop on record is honoured as
\* soon as the stream is registered.
PassGate(m) ==
    /\ turn[m] = "opening" /\ run = "working"
    /\ turn' = [turn EXCEPT ![m] = IF requested THEN "fired" ELSE "streaming"]
    /\ UNCHANGED <<given, rows, cards, pc, work, verdict, stops, tally>>

\* How the turn of m may end.  A stream that is told to stop may have ended by
\* itself already; a member that is paused, or an engine that reports a rate
\* limit, fails.
Outcomes(m) ==
    CASE turn[m] = "opening" -> IF run = "working" THEN {"failed"} ELSE {"canceled"}
      [] turn[m] = "streaming" -> {"completed", "failed"}
      [] turn[m] = "fired" -> Ended
      [] OTHER -> {}

\* Who has an engine, or is about to.
Active == {s \in Steps : turn[s] # "idle"}

\* buffer_unordered starts an assignment of the batch.
StartAssignment(s) ==
    /\ pc = "working"
    /\ s \in batch /\ Cardinality(Active) < width
    /\ batch' = batch \ {s}
    /\ step' = [step EXCEPT ![s] = "running"]
    /\ column' = Mirrored({s}, step')
    /\ turn' = [turn EXCEPT ![s] = "opening"]
    /\ UNCHANGED <<given, run, replans, epic, own, pc, width, reported, failures, added,
                   verdict, stops, tally>>

\* The row takes the outcome whatever it says by now, and its card follows.
EndAssignment(s) ==
    /\ pc = "working"
    /\ \E o \in Outcomes(s) :
          /\ step' = [step EXCEPT ![s] = o]
          /\ reported' = (reported \/ o = "completed")
          /\ failures' = IF o = "completed" THEN failures ELSE failures \cup {s}
    /\ column' = Mirrored({s}, step')
    /\ turn' = [turn EXCEPT ![s] = "idle"]
    /\ UNCHANGED <<given, run, replans, epic, own, pc, batch, width, added, verdict, stops, tally>>

\* The executor goes on to a place where the manager has a turn, or has none.
Ask(place) == pc' = place /\ turn' = [turn EXCEPT ![Manager] = "opening"]
Goto(place) == pc' = place /\ turn' = [turn EXCEPT ![Manager] = "idle"]
Conclude(ending) == Goto("finishing") /\ verdict' = ending

----------------------------------------------------------------------------
(* execute_org_run and plan_phase. *)

\* Where a dispatch picks up (org_phase): at the plan, or at the work when its
\* assignments are there.
Dispatch ==
    /\ pc = "idle" /\ run = "queued"
    /\ run' = "working"
    /\ IF Present = {} THEN Ask("planning") ELSE Goto("looping")
    /\ UNCHANGED <<given, step, replans, cards, work, verdict, stops, tally>>

\* No manager, no specialists, an engine that is gone.
CannotStart ==
    /\ pc = "idle" /\ run = "queued"
    /\ run' = "working"
    /\ Conclude("failed")
    /\ UNCHANGED <<given, step, replans, cards, work, stops, tally>>

\* The manager's plan is accepted, sent back once, or never comes.
PlanEnds ==
    /\ pc = "planning"
    /\ \E o \in Outcomes(Manager) :
          IF o = "completed"
          THEN /\ Goto("writing") \/ Ask("repairing")
               /\ UNCHANGED verdict
          ELSE Conclude(o)
    /\ UNCHANGED <<given, rows, cards, work, stops, tally>>

\* A repair that fails leaves the first plan, which may be runnable still.
RepairEnds ==
    /\ pc = "repairing"
    /\ Outcomes(Manager) # {}
    /\ \/ Goto("writing") /\ UNCHANGED verdict
       \/ Conclude("failed")
    /\ UNCHANGED <<given, rows, cards, work, stops, tally>>

\* The assignments are written.  A room run that asked for it parks, which
\* returns, and which a run that has ended refuses.
WritePlan ==
    /\ pc = "writing"
    /\ step' = [s \in Steps |-> IF s \in (1 .. plan.tasks) \X {1} THEN "queued" ELSE step[s]]
    /\ \/ Goto("looping") /\ UNCHANGED run
       \/ /\ ~fromCard
          /\ Goto("idle")
          /\ run' = IF run = "working" THEN "asking" ELSE run
    /\ UNCHANGED <<given, replans, cards, work, verdict, stops, tally>>

\* approve_org_plan, reject_org_plan, drop_assignment.
ApprovePlan ==
    /\ run = "asking"
    /\ run' = "queued"
    /\ UNCHANGED <<given, step, replans, cards, pc, turn, work, verdict, stops, tally>>

RejectPlan ==
    /\ run = "asking"
    /\ run' = "canceled"
    /\ step' = [s \in Steps |-> IF s \in Pending THEN "skipped" ELSE step[s]]
    /\ UNCHANGED <<given, replans, cards, pc, turn, work, verdict, stops, tally>>

DropAssignment(s) ==
    /\ run = "asking" /\ s \in Pending
    /\ step' = [step EXCEPT ![s] = "skipped"]
    /\ UNCHANGED <<given, run, replans, cards, pc, turn, work, verdict, stops, tally>>

----------------------------------------------------------------------------
(* work_phase. *)

\* epic::reconcile: a card for each assignment that has none, and every column
\* set anew.
Reconcile ==
    /\ pc = "looping"
    /\ column' = [s \in Steps |->
                     IF fromCard /\ step[s] # "none" /\ own[s] = "none"
                     THEN ColumnFor(step[s]) ELSE column[s]]
    /\ Goto("choosing")
    /\ UNCHANGED <<given, rows, epic, own, work, verdict, stops, tally>>

NothingPending ==
    /\ pc = "choosing" /\ Pending = {}
    /\ Ask("reviewing")
    /\ UNCHANGED <<given, rows, cards, work, verdict, stops, tally>>

\* cancel_requested, looked at before each batch.
StopsBetween ==
    /\ pc = "choosing" /\ Pending # {} /\ requested
    /\ Conclude("canceled")
    /\ UNCHANGED <<given, rows, cards, work, stops, tally>>

\* The run's budget, or that of whoever the first assignment is for, is spent.
OutOfBudget ==
    /\ pc = "choosing" /\ Pending # {} /\ ~requested
    /\ Conclude("failed")
    /\ UNCHANGED <<given, rows, cards, work, stops, tally>>

\* within_limits may leave out all but the first; extra slots are taken if
\* they are free.
ChooseBatch ==
    /\ pc = "choosing" /\ Pending # {} /\ ~requested
    /\ \E B \in SUBSET Ready :
          /\ IsBatch(B)
          /\ batch' \in {K \in SUBSET B : First(Ready) \in K}
    /\ width' \in 1 .. Cardinality(batch')
    /\ reported' = FALSE /\ failures' = {}
    /\ Goto("working")
    /\ UNCHANGED <<given, rows, cards, added, verdict, stops, tally>>

\* The batch is in.  Reports go to the manager while there is work to adjust
\* and rounds are left; failures come next.
BatchEnds ==
    /\ pc = "working" /\ batch = {} /\ Active = {}
    /\ IF reported /\ Pending # {} /\ replans < MaxReplans
       THEN replans' = replans + 1 /\ Ask("replanning")
       ELSE UNCHANGED replans /\ Goto("failing")
    /\ UNCHANGED <<given, run, step, cards, work, verdict, stops, tally>>

ReplanEnds ==
    /\ pc = "replanning"
    /\ \E o \in Outcomes(Manager) :
          (o = "completed" /\ Goto("adjusting")) \/ Goto("failing")
    /\ UNCHANGED <<given, rows, cards, work, verdict, stops, tally>>

\* apply_decision's room, and unique_key, which knows the keys still queued
\* only: an addition with the key of a finished one counts and does nothing.
Room(dropped) ==
    LET left == IF Cardinality(Present) > dropped THEN Cardinality(Present) - dropped ELSE 0
        total == IF MaxTotal > left THEN MaxTotal - left ELSE 0
        mine == IF MaxAdded > added THEN MaxAdded - added ELSE 0
    IN  IF total < mine THEN total ELSE mine

\* The first n keys that have not joined yet.
Newcomers(n) == {s \in Keys \X {1} : step[s] = "none" /\ Cardinality(
                    {k \in Keys : k < s[1] /\ step[<<k, 1>>] = "none"}) < n}

Adjust ==
    /\ pc = "adjusting"
    /\ \E D \in SUBSET Pending : \E n \in 0 .. Room(Cardinality(D)), new \in 0 .. Size :
          /\ new <= n
          /\ added' = added + n
          /\ step' = [s \in Steps |-> CASE s \in D -> "skipped"
                                        [] s \in Newcomers(new) -> "queued"
                                        [] OTHER -> step[s]]
          /\ column' = Mirrored(D, step')
    /\ Goto("failing")
    /\ UNCHANGED <<given, run, replans, epic, own, batch, width, reported, failures,
                   verdict, stops, tally>>

\* Nothing failed, or all of it has been decided.
NoMoreFailures ==
    /\ pc = "failing" /\ failures = {}
    /\ Goto("looping")
    /\ UNCHANGED <<given, rows, cards, work, verdict, stops, tally>>

\* triage_failure asks about a first failure; a second ends the run.
AskAboutFailure ==
    /\ pc = "failing" /\ \E s \in failures : s[2] = 1
    /\ Ask("triaging")
    /\ UNCHANGED <<given, rows, cards, work, verdict, stops, tally>>

FailedTwice ==
    /\ pc = "failing" /\ \E s \in failures : s[2] = 2
    /\ Conclude("failed")
    /\ UNCHANGED <<given, rows, cards, work, stops, tally>>

\* Mutant of Triage: the work is tried again as the assignment it was.
TriageInPlace ==
    /\ pc = "triaging"
    /\ \E s \in failures, o \in Outcomes(Manager) :
          /\ o = "completed"
          /\ step' \in {step, [step EXCEPT ![s] = "queued"]}
          /\ failures' = failures \ {s}
    /\ Goto("failing")
    /\ UNCHANGED <<given, run, replans, cards, batch, width, reported, added, verdict, stops, tally>>

\* The manager lets it go, or has it tried again.
Triage ==
    /\ pc = "triaging"
    /\ \E s \in failures :
          /\ s[2] = 1 /\ "completed" \in Outcomes(Manager)
          /\ step' \in {step, [step EXCEPT ![Retry(s)] = "queued"]}
          /\ failures' = failures \ {s}
    /\ Goto("failing")
    /\ UNCHANGED <<given, run, replans, cards, batch, width, reported, added, verdict, stops, tally>>

\* The manager aborts; so does any answer that cannot be read, and none.
Abort ==
    /\ pc = "triaging"
    /\ Outcomes(Manager) # {}
    /\ Conclude("failed")
    /\ UNCHANGED <<given, rows, cards, work, stops, tally>>

\* However the review ends.
ReviewEnds ==
    /\ pc = "reviewing"
    /\ Outcomes(Manager) # {}
    /\ Conclude("completed")
    /\ UNCHANGED <<given, rows, cards, work, stops, tally>>

Finishes ==
    /\ pc = "finishing"
    /\ Finish(verdict)
    /\ pc' = "mirroring"
    /\ UNCHANGED <<given, replans, column, own, work, verdict, canceller, tally>>

\* Mutant of FinishMirrors: the last pass over the board did it.
FinishMirrorsNothing ==
    /\ pc = "mirroring"
    /\ Goto("settling")
    /\ UNCHANGED <<given, rows, cards, work, verdict, stops, tally>>

\* The mirror that hangs off finish.
FinishMirrors ==
    /\ pc = "mirroring"
    /\ column' = Mirrored(Steps, step)
    /\ Goto("settling")
    /\ UNCHANGED <<given, rows, epic, own, work, verdict, stops, tally>>

\* settle_task_for_run goes by the executor's own verdict.
SettleCard ==
    /\ pc = "settling"
    /\ epic' = IF fromCard /\ verdict = "completed"
               THEN (IF InPlace THEN "done" ELSE "review") ELSE epic
    /\ verdict' = "none"
    /\ Goto("idle")
    /\ UNCHANGED <<given, rows, column, own, work, stops, tally>>

----------------------------------------------------------------------------
(* cancel_run: the status is read, the stop is put on record, and a run with no
   stream to interrupt is finished here. *)

CancelAsked ==
    /\ canceller = "idle" /\ run \notin Ended
    /\ canceller' = "signalling"
    /\ UNCHANGED <<given, rows, cards, pc, turn, work, verdict, requested, tally>>

CancelSignals ==
    /\ canceller = "signalling"
    /\ requested' = TRUE
    /\ turn' = Interrupted
    /\ canceller' = IF \E m \in Members : turn[m] = "streaming" THEN "idle" ELSE "closing"
    /\ UNCHANGED <<given, rows, cards, pc, work, verdict, tally>>

CancelCloses ==
    /\ canceller = "closing"
    /\ Finish("canceled")
    /\ canceller' = "mirroring"
    /\ UNCHANGED <<given, replans, column, own, pc, work, verdict, tally>>

CancelMirrors ==
    /\ canceller = "mirroring"
    /\ column' = Mirrored(Steps, step)
    /\ canceller' = "idle"
    /\ UNCHANGED <<given, rows, epic, own, pc, turn, work, verdict, requested, tally>>

----------------------------------------------------------------------------
(* A person runs an assignment's card on its own. *)

\* step_is_live, as enqueue_task asks it: of that card's assignment only.
StepIsLive(s) == step[s] \in {"queued", "running"} /\ run \notin Ended

OwnRunStarts(s) ==
    /\ s \in OwnRuns
    /\ column[s] # "none" /\ ~StepIsLive(s) /\ own[s] # "live"
    /\ own' = [own EXCEPT ![s] = "live"]
    /\ column' = [column EXCEPT ![s] = "running"]
    /\ UNCHANGED <<given, rows, epic, pc, turn, work, verdict, stops, tally>>

OwnRunEnds(s) ==
    /\ own[s] = "live"
    /\ own' = [own EXCEPT ![s] = "ended"]
    /\ column' \in {[column EXCEPT ![s] = c] : c \in {"review", IF InPlace THEN "done" ELSE "review"}}
    /\ UNCHANGED <<given, rows, epic, pc, turn, work, verdict, stops, tally>>

----------------------------------------------------------------------------
\* The server dies.  recover_orphans fails the run if it was at work, settles
\* its steps and mirrors them; a run that has ended is not looked at again.
Restart ==
    /\ restarts < MaxRestarts
    /\ restarts' = restarts + 1
    /\ LET orphan == run = "working" IN
       /\ run' = IF orphan THEN "failed" ELSE run
       /\ step' = IF orphan THEN Settled("failed") ELSE step
       /\ column' = IF orphan THEN Mirrored(Steps, step') ELSE column
       /\ late' = (late \/ (run \in Ended /\ (pc # "idle" \/ canceller = "mirroring")))
    /\ own' = [s \in Steps |-> IF own[s] = "live" THEN "ended" ELSE own[s]]
    /\ turn' = [m \in Members |-> "idle"]
    /\ batch' = {} /\ width' = 1 /\ reported' = FALSE /\ failures' = {} /\ added' = 0
    /\ verdict' = "none"
    /\ pc' = "idle"
    /\ requested' = FALSE /\ canceller' = "idle"
    /\ UNCHANGED <<given, replans, epic>>

PlanStep == Dispatch \/ CannotStart \/ PlanEnds \/ RepairEnds \/ WritePlan

WorkStep ==
    \/ Reconcile \/ NothingPending \/ StopsBetween \/ OutOfBudget \/ ChooseBatch
    \/ BatchEnds \/ ReplanEnds \/ Adjust
    \/ NoMoreFailures \/ AskAboutFailure \/ FailedTwice \/ Triage \/ Abort
    \/ \E s \in Steps : StartAssignment(s) \/ EndAssignment(s)

EndStep == ReviewEnds \/ Finishes \/ FinishMirrors \/ SettleCard

TeamStep == PlanStep \/ WorkStep \/ EndStep \/ \E m \in Members : PassGate(m)

CancelStep == CancelSignals \/ CancelCloses \/ CancelMirrors

PersonStep ==
    \/ CancelAsked \/ ApprovePlan \/ RejectPlan
    \/ \E s \in Steps : DropAssignment(s) \/ OwnRunStarts(s) \/ OwnRunEnds(s)

Next == TeamStep \/ CancelStep \/ PersonStep \/ Restart

Spec == Init /\ [][Next]_vars

\* The executor is polled and the turns it drives end: an engine finishes, or
\* goes silent and the reaper cuts it off.  Nobody has to approve a plan.
Fairness == WF_vars(TeamStep) /\ WF_vars(CancelStep)

FairSpec == Spec /\ Fairness

----------------------------------------------------------------------------
(* Safety. *)

\* Assignments at work at the same time have said which files they touch, and
\* touch different ones (schedule.rs, parallel_batch).
WorkIsDisjoint == \A s, t \in Active : s # t => Apart(s, t)

\* An assignment starts only when none of those it depends on is queued or at
\* work under its own row, through replanning and pruning (schedule.rs,
\* ready_now).  The second attempt of a dependency that failed has a row of its
\* own, and is not waited for.
DependentsWait ==
    [][\A s \in Steps :
          step[s] # "running" /\ step'[s] = "running"
              => \A d \in DependsOn(s) : step[d] \notin {"queued", "running"}]_vars

\* A run that completes leaves nothing undone that its ending sweeps away:
\* what was planned has been worked, dropped or decided upon (work_phase).
NothingSweptAway ==
    [][run # "completed" /\ run' = "completed" =>
          \A s \in Steps : step[s] \notin {"queued", "running"}]_vars

\* The run has ended and nobody has anything left to write.
AtRest == run \in Ended /\ pc = "idle" /\ canceller = "idle" /\ ~late

\* Then no assignment of a card's run reads as live, and nobody of any run as
\* working (settle_steps: such a step "reads as a live teammate forever"),
\* whoever ended the run and whatever the executor wrote after that, unless a
\* restart has cut the last writes of a run that had ended short.  A room run
\* that is stopped while its plan is written keeps queued assignments.
StepsSettle ==
    AtRest => \A s \in Steps :
                 step[s] # "running" /\ (fromCard => step[s] # "queued")

\* And each card that is the team's to move stands where its assignment says
\* (epic.rs, mirror_run).
BoardFollows ==
    AtRest => \A s \in Steps :
                 column[s] # "none" /\ own[s] = "none" => column[s] = ColumnFor(step[s])

\* A stop is a decision, not a failure: the assignment that a stop interrupted
\* does not make its run fail (work_phase, on its outcome).
StopIsNotFailure ==
    [][run \notin Ended /\ run' = "failed" /\ restarts' = restarts
          => \A s \in Steps : step[s] # "canceled"]_vars

\* The card is settled by the status its run actually has (finish).
CardFollowsRun ==
    [][pc = "settling" /\ epic' # epic => run = "completed"]_vars

\* Two agents never work in the epic's one checkout but for a batch whose files
\* are apart (enqueue_task, the last line of defence).
OneCheckout == \A s \in Steps : own[s] = "live" => Active = {}

(* Liveness. *)

\* A dispatch comes to its end: rounds, additions and second attempts are
\* limited, so the run ends or waits for a person's yes.
TeamEnds == pc # "idle" ~> pc = "idle"

=============================================================================
