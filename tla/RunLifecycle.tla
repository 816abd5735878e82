---------------------------- MODULE RunLifecycle ----------------------------
(***************************************************************************)
(* One run from the queue to its ending (runs/orchestrator.rs): the claim, *)
(* the guarded status writes, the engine stream, rate-limit holds,         *)
(* plan-first parking and approval (approvals.rs), the cancel route and    *)
(* the in-memory cancel map, `finish`, and recovery after a restart.       *)
(*                                                                         *)
(* Actors: one worker per concurrency slot, each executing a claimed run;  *)
(* the cancel route, one call per run at a time; the person who approves   *)
(* or revises a plan; the clock that ends a backoff; the crash of the      *)
(* server.  The runs and queue tables survive a crash, the workers, the    *)
(* routes and the cancel map do not.  Each UPDATE or transaction is a      *)
(* step, and so is each change of the map under its mutex.                 *)
(*                                                                         *)
(* The runs are card runs (execute_task_run).  waiting_permission is       *)
(* PermissionBroker's, budgets and agent limits only delay a claim, and    *)
(* the statements themselves do not fail.                                  *)
(***************************************************************************)
EXTENDS Naturals, FiniteSets

CONSTANTS
    Runs,
    Workers,
    NoRun, NoWorker,
    PlanFirst,      \* runs.plan_approval: these write a plan and wait for a person
    Lingers,        \* TRUE: a worker may outlive the backoff of its own hold
    MaxHolds,       \* bound: holds of one run
    MaxRevisions,   \* bound: plans of one run sent back
    MaxCrashes      \* bound: crashes of the server

ASSUME RunsAssumption == NoRun \notin Runs /\ PlanFirst \subseteq Runs
ASSUME WorkersAssumption == NoWorker \notin Workers
ASSUME BoundsAssumption == {MaxHolds, MaxRevisions, MaxCrashes} \subseteq Nat
ASSUME LingersAssumption == Lingers \in BOOLEAN

VARIABLES
    \* The database.
    status,         \* runs.status
    queue,          \* the queue row: none, behind its not_before, or claimable
    approved,       \* runs.plan_approved_at is set
    holds,          \* runs.rate_limit_attempts
    revisions,      \* plans sent back, for the bound
    \* The process.
    up,             \* the queue loop and the routes run
    crashes,        \* crashes so far, for the bound
    overrun,        \* runs taken up again while a stream of theirs was open
    job,            \* the run a worker executes
    pc,             \* where the worker is between its awaits
    planning,       \* the worker writes a plan, not the work
    outcome,        \* stream_run's outcome
    requested,      \* RunCancels::requested
    listener,       \* RunCancels::steps, the one entry of a card run: who holds the receiver
    fired,          \* the worker's receiver is ready: sent to, or its sender dropped
    stop,           \* where the cancel route is
    requeuing       \* an approval or a revision between its two statements

dbVars == <<status, queue, approved, holds, revisions>>
workerVars == <<job, pc, planning, outcome>>
cancelVars == <<requested, listener, fired>>
routeVars == <<stop, requeuing>>
vars == <<dbVars, up, crashes, overrun, workerVars, cancelVars, routeVars>>

Terminal == {"completed", "failed", "canceled"}
Waiting == {"queued", "rate_limited"}
Statuses == Waiting \cup {"starting", "running", "awaiting_approval"} \cup Terminal
Rows == {"none", "later", "ready"}
Places == {"idle", "claimed", "assigned", "preparing", "spawning", "streaming",
           "holding", "closing", "parking", "ending", "writing"}
Outcomes == {"none", "completed", "failed", "canceled", "rate_limited"}

TypeOK ==
    /\ status \in [Runs -> Statuses]
    /\ queue \in [Runs -> Rows]
    /\ approved \in [Runs -> BOOLEAN]
    /\ holds \in [Runs -> 0 .. MaxHolds]
    /\ revisions \in [Runs -> 0 .. MaxRevisions]
    /\ up \in BOOLEAN
    /\ crashes \in 0 .. MaxCrashes
    /\ overrun \subseteq Runs
    /\ job \in [Workers -> Runs \cup {NoRun}]
    /\ pc \in [Workers -> Places]
    /\ \A w \in Workers : pc[w] # "idle" => job[w] \in Runs
    /\ planning \in [Workers -> BOOLEAN]
    /\ outcome \in [Workers -> Outcomes]
    /\ requested \in [Runs -> BOOLEAN]
    /\ listener \in [Runs -> Workers \cup {NoWorker}]
    /\ fired \in [Workers -> BOOLEAN]
    /\ stop \in [Runs -> {"none", "signalling", "forgetting", "writing"}]
    /\ requeuing \in [Runs -> BOOLEAN]

\* enqueue_task: the run and its queue row commit together.
Init ==
    /\ status = [r \in Runs |-> "queued"]
    /\ queue = [r \in Runs |-> "ready"]
    /\ approved = [r \in Runs |-> FALSE]
    /\ holds = [r \in Runs |-> 0]
    /\ revisions = [r \in Runs |-> 0]
    /\ up = TRUE
    /\ crashes = 0
    /\ overrun = {}
    /\ job = [w \in Workers |-> NoRun]
    /\ pc = [w \in Workers |-> "idle"]
    /\ planning = [w \in Workers |-> FALSE]
    /\ outcome = [w \in Workers |-> "none"]
    /\ requested = [r \in Runs |-> FALSE]
    /\ listener = [r \in Runs |-> NoWorker]
    /\ fired = [w \in Workers |-> FALSE]
    /\ stop = [r \in Runs |-> "none"]
    /\ requeuing = [r \in Runs |-> FALSE]

----------------------------------------------------------------------------
(* Statements and map operations several actions share. *)

\* A worker moves on, with or without an outcome.
Goto(w, place) == pc' = [pc EXCEPT ![w] = place]

\* Mutant of SetStatus: the UPDATE without its guard.
SetStatusAnyway(r, s) ==
    status' = [status EXCEPT ![r] = s]

\* set_status: a run that has ended is left alone.
SetStatus(r, s) ==
    status' = [status EXCEPT ![r] = IF @ \in Terminal THEN @ ELSE s]

\* The listener's receiver becomes ready and its sender leaves the map.
Fire(r) ==
    /\ fired' = [w \in Workers |-> fired[w] \/ w = listener[r]]
    /\ listener' = [listener EXCEPT ![r] = NoWorker]

\* forget_cancel: the entry goes, and dropping a sender readies its receiver.
ForgetCancel(r) ==
    /\ requested' = [requested EXCEPT ![r] = FALSE]
    /\ Fire(r)

\* finish's transaction: the first ending wins, and the queue row goes.
FinishTx(r, ending) ==
    /\ SetStatus(r, ending)
    /\ queue' = [queue EXCEPT ![r] = "none"]

\* A run's engine process exists.
Engines(r) == {w \in Workers : job[w] = r /\ pc[w] \in {"streaming", "holding"}}

----------------------------------------------------------------------------
(* A worker: run_loop's claim, execute, stream_run, finish. *)

\* claim_head deletes the row, whatever the run's status.
Claim(w, r) ==
    /\ up
    /\ pc[w] = "idle"
    /\ queue[r] = "ready"
    /\ queue' = [queue EXCEPT ![r] = "none"]
    /\ job' = [job EXCEPT ![w] = r]
    /\ Goto(w, "claimed")
    /\ UNCHANGED <<status, approved, holds, revisions, up, crashes, overrun, planning,
                   outcome, cancelVars, routeVars>>

\* A worker past the claim works for the run.
AtWork(w, r) == job[w] = r /\ pc[w] \notin {"idle", "claimed"}

\* Mutant of Execute: the UPDATE without its guard.
ExecuteAnyway(w) ==
    /\ pc[w] = "claimed"
    /\ status' = [status EXCEPT ![job[w]] = "starting"]
    /\ Goto(w, "assigned")
    /\ UNCHANGED <<queue, approved, holds, revisions, up, crashes, overrun, job, planning,
                   outcome, cancelVars, routeVars>>

\* execute: the check is the write.  A rate-limited run's row may have ripened
\* while the stream that was held is still open.
Execute(w) ==
    /\ pc[w] = "claimed"
    /\ status[job[w]] \in Waiting
    /\ status' = [status EXCEPT ![job[w]] = "starting"]
    /\ overrun' = overrun \cup
          {r \in {job[w]} : status[r] = "rate_limited" /\ \E v \in Workers : AtWork(v, r)}
    /\ Goto(w, "assigned")
    /\ UNCHANGED <<queue, approved, holds, revisions, up, crashes, job, planning,
                   outcome, cancelVars, routeVars>>

\* A run no longer waiting is dropped on the floor.
DropClaim(w) ==
    /\ pc[w] = "claimed"
    /\ status[job[w]] \notin Waiting
    /\ Goto(w, "idle")
    /\ UNCHANGED <<dbVars, up, crashes, overrun, job, planning, outcome, cancelVars, routeVars>>

\* execute_task_run: the run reads starting, and its phase is decided.
Prepare(w) ==
    /\ pc[w] = "assigned"
    /\ SetStatus(job[w], "starting")
    /\ planning' = [planning EXCEPT ![w] = job[w] \in PlanFirst /\ ~approved[job[w]]]
    /\ Goto(w, "preparing")
    /\ UNCHANGED <<queue, approved, holds, revisions, up, crashes, overrun, job, outcome,
                   cancelVars, routeVars>>

\* Mutant of CannotStart: no outcome is recorded.
CannotStartMutely(w) ==
    /\ pc[w] \in {"assigned", "preparing", "spawning"}
    /\ Goto(w, "ending")
    /\ UNCHANGED <<dbVars, up, crashes, overrun, job, planning, outcome, cancelVars, routeVars>>

\* A paused agent, a mode the engine cannot honour, a CLI that does not spawn.
CannotStart(w) ==
    /\ pc[w] \in {"assigned", "preparing", "spawning"}
    /\ outcome' = [outcome EXCEPT ![w] = "failed"]
    /\ Goto(w, "ending")
    /\ UNCHANGED <<dbVars, up, crashes, overrun, job, planning, cancelVars, routeVars>>

\* stream_run: the status write is the gate the spawn passes through.
PassGate(w) ==
    /\ pc[w] = "preparing"
    /\ status[job[w]] \notin Terminal
    /\ SetStatus(job[w], "running")
    /\ Goto(w, "spawning")
    /\ UNCHANGED <<queue, approved, holds, revisions, up, crashes, overrun, job, planning,
                   outcome, cancelVars, routeVars>>

\* A run that ended meanwhile starts nothing.  A planning pass still comes
\* through park_for_approval, which finishes it.
MissGate(w) ==
    /\ pc[w] = "preparing"
    /\ status[job[w]] \in Terminal
    /\ outcome' = [outcome EXCEPT ![w] = "canceled"]
    /\ Goto(w, IF planning[w] THEN "ending" ELSE "idle")
    /\ UNCHANGED <<dbVars, up, crashes, overrun, job, planning, cancelVars, routeVars>>

\* The process runs; its sender goes into the map, over the one that was
\* there.  A request already made is honoured at once.
Register(w) ==
    /\ pc[w] = "spawning"
    /\ outcome' = [outcome EXCEPT ![w] = "none"]
    /\ listener' = [listener EXCEPT ![job[w]] = IF requested[job[w]] THEN NoWorker ELSE w]
    /\ fired' = [v \in Workers |-> IF v = w THEN requested[job[w]]
                                            ELSE fired[v] \/ v = listener[job[w]]]
    /\ Goto(w, "streaming")
    /\ UNCHANGED <<dbVars, up, crashes, overrun, job, planning, requested, routeVars>>

\* hold_rate_limited's first statement, guarded by nothing.
RateLimited(w) ==
    /\ pc[w] = "streaming"
    /\ holds[job[w]] < MaxHolds
    /\ status' = [status EXCEPT ![job[w]] = "rate_limited"]
    /\ holds' = [holds EXCEPT ![job[w]] = @ + 1]
    /\ Goto(w, "holding")
    /\ UNCHANGED <<queue, approved, revisions, up, crashes, overrun, job, planning, outcome,
                   cancelVars, routeVars>>

\* Mutant of HoldQueues: the row is thought to be there still.
HoldQueuesNothing(w) ==
    /\ pc[w] = "holding"
    /\ outcome' = [outcome EXCEPT ![w] = "rate_limited"]
    /\ Goto(w, "streaming")
    /\ UNCHANGED <<dbVars, up, crashes, overrun, job, planning, cancelVars, routeVars>>

\* Its second: the row that brings the run back.  The stream goes on.
HoldQueues(w) ==
    /\ pc[w] = "holding"
    /\ queue' = [queue EXCEPT ![job[w]] = "later"]
    /\ outcome' = [outcome EXCEPT ![w] = "rate_limited"]
    /\ Goto(w, "streaming")
    /\ UNCHANGED <<status, approved, holds, revisions, up, crashes, overrun, job, planning,
                   cancelVars, routeVars>>

\* The engine exits: completed, failed, or with the hold as its last word.
StreamEnds(w) ==
    /\ pc[w] = "streaming"
    /\ \E o \in {"completed", "failed", outcome[w]} \ {"none"} :
          outcome' = [outcome EXCEPT ![w] = o]
    /\ Goto(w, "closing")
    /\ UNCHANGED <<dbVars, up, crashes, overrun, job, planning, cancelVars, routeVars>>

\* The cancel branch of the select: the engine is interrupted.
Interrupted(w) ==
    /\ pc[w] = "streaming"
    /\ fired[w]
    /\ outcome' = [outcome EXCEPT ![w] = "canceled"]
    /\ Goto(w, "closing")
    /\ UNCHANGED <<dbVars, up, crashes, overrun, job, planning, cancelVars, routeVars>>

\* What becomes of a stream's outcome: a hold has not ended, a plan is parked,
\* everything else is finished.
After(w) ==
    CASE outcome[w] = "rate_limited" -> "idle"
      [] planning[w] /\ outcome[w] = "completed" -> "parking"
      [] OTHER -> "ending"

\* The step's sender leaves the map, whoever put it there.
Close(w) ==
    /\ pc[w] = "closing"
    /\ Fire(job[w])
    /\ Goto(w, After(w))
    /\ UNCHANGED <<dbVars, up, crashes, overrun, job, planning, outcome, requested, routeVars>>

\* park_for_approval: the plan is stored, the slot released.
ParkForApproval(w) ==
    /\ pc[w] = "parking"
    /\ SetStatus(job[w], "awaiting_approval")
    /\ Goto(w, "idle")
    /\ UNCHANGED <<queue, approved, holds, revisions, up, crashes, overrun, job, planning,
                   outcome, cancelVars, routeVars>>

\* finish: the cancel bookkeeping first, then the transaction.
FinishForgets(w) ==
    /\ pc[w] = "ending"
    /\ ForgetCancel(job[w])
    /\ Goto(w, "writing")
    /\ UNCHANGED <<dbVars, up, crashes, overrun, job, planning, outcome, routeVars>>

FinishWrites(w) ==
    /\ pc[w] = "writing"
    /\ FinishTx(job[w], outcome[w])
    /\ Goto(w, "idle")
    /\ UNCHANGED <<approved, holds, revisions, up, crashes, overrun, job, planning, outcome,
                   cancelVars, routeVars>>

----------------------------------------------------------------------------
(* The cancel route: read, signal, and close out what nothing executes. *)

StopReads(r) ==
    /\ up
    /\ stop[r] = "none"
    /\ status[r] \notin Terminal
    /\ stop' = [stop EXCEPT ![r] = "signalling"]
    /\ UNCHANGED <<dbVars, up, crashes, overrun, workerVars, cancelVars, requeuing>>

\* cancel: true, and done, when a stream was listening.
StopSignals(r) ==
    /\ stop[r] = "signalling"
    /\ requested' = [requested EXCEPT ![r] = TRUE]
    /\ Fire(r)
    /\ stop' = [stop EXCEPT ![r] = IF listener[r] = NoWorker THEN "forgetting" ELSE "none"]
    /\ UNCHANGED <<dbVars, up, crashes, overrun, workerVars, requeuing>>

\* cancel_idle, through finish.
StopForgets(r) ==
    /\ stop[r] = "forgetting"
    /\ ForgetCancel(r)
    /\ stop' = [stop EXCEPT ![r] = "writing"]
    /\ UNCHANGED <<dbVars, up, crashes, overrun, workerVars, requeuing>>

StopWrites(r) ==
    /\ stop[r] = "writing"
    /\ FinishTx(r, "canceled")
    /\ stop' = [stop EXCEPT ![r] = "none"]
    /\ UNCHANGED <<approved, holds, revisions, up, crashes, overrun, workerVars, cancelVars, requeuing>>

----------------------------------------------------------------------------
(* The person a plan waits for. *)

\* Mutant of Approve: the UPDATE without its status guard.
ApproveAnyway(r) ==
    /\ up
    /\ ~requeuing[r]
    /\ status' = [status EXCEPT ![r] = "queued"]
    /\ approved' = [approved EXCEPT ![r] = TRUE]
    /\ requeuing' = [requeuing EXCEPT ![r] = TRUE]
    /\ UNCHANGED <<queue, holds, revisions, up, crashes, overrun, workerVars, cancelVars, stop>>

\* approve_task_plan's first statement.
Approve(r) ==
    /\ up
    /\ ~requeuing[r]
    /\ status[r] = "awaiting_approval"
    /\ status' = [status EXCEPT ![r] = "queued"]
    /\ approved' = [approved EXCEPT ![r] = TRUE]
    /\ requeuing' = [requeuing EXCEPT ![r] = TRUE]
    /\ UNCHANGED <<queue, holds, revisions, up, crashes, overrun, workerVars, cancelVars, stop>>

\* revise_task_plan's.
Revise(r) ==
    /\ up
    /\ ~requeuing[r]
    /\ revisions[r] < MaxRevisions
    /\ status[r] = "awaiting_approval"
    /\ status' = [status EXCEPT ![r] = "queued"]
    /\ revisions' = [revisions EXCEPT ![r] = @ + 1]
    /\ requeuing' = [requeuing EXCEPT ![r] = TRUE]
    /\ UNCHANGED <<queue, approved, holds, up, crashes, overrun, workerVars, cancelVars, stop>>

\* The second of both: `queue`, an upsert that clears not_before.
Requeue(r) ==
    /\ requeuing[r]
    /\ queue' = [queue EXCEPT ![r] = "ready"]
    /\ requeuing' = [requeuing EXCEPT ![r] = FALSE]
    /\ UNCHANGED <<status, approved, holds, revisions, up, crashes, overrun, workerVars,
                   cancelVars, stop>>

----------------------------------------------------------------------------
(* Time, crashes and recovery. *)

\* not_before passes.
Ripen(r) ==
    /\ queue[r] = "later"
    /\ Lingers \/ \A w \in Workers : job[w] = r => pc[w] = "idle"
    /\ queue' = [queue EXCEPT ![r] = "ready"]
    /\ UNCHANGED <<status, approved, holds, revisions, up, crashes, overrun, workerVars,
                   cancelVars, routeVars>>

Crash ==
    /\ up
    /\ crashes < MaxCrashes
    /\ up' = FALSE
    /\ crashes' = crashes + 1
    /\ overrun' = {}
    /\ job' = [w \in Workers |-> NoRun]
    /\ pc' = [w \in Workers |-> "idle"]
    /\ planning' = [w \in Workers |-> FALSE]
    /\ outcome' = [w \in Workers |-> "none"]
    /\ requested' = [r \in Runs |-> FALSE]
    /\ listener' = [r \in Runs |-> NoWorker]
    /\ fired' = [w \in Workers |-> FALSE]
    /\ stop' = [r \in Runs |-> "none"]
    /\ requeuing' = [r \in Runs |-> FALSE]
    /\ UNCHANGED dbVars

\* recover_orphans, one transaction before the queue loop starts: what was
\* executing failed, nothing ended keeps a row, nothing waiting lacks one.
Orphaned == {r \in Runs : status[r] \in {"starting", "running"}}

\* Mutant of Repaired: a queued run without a row is not given one.
RepairedHeldOnly(r) ==
    CASE status[r] \in Terminal -> "none"
      [] r \in Orphaned -> "none"
      [] queue[r] # "none" -> queue[r]
      [] status[r] = "rate_limited" -> "later"
      [] OTHER -> "none"

Repaired(r) ==
    CASE status[r] \in Terminal -> "none"
      [] r \in Orphaned -> "none"
      [] queue[r] # "none" -> queue[r]
      [] status[r] = "rate_limited" -> "later"
      [] status[r] = "queued" -> "ready"
      [] OTHER -> "none"

Recover ==
    /\ ~up
    /\ up' = TRUE
    /\ status' = [r \in Runs |-> IF r \in Orphaned THEN "failed" ELSE status[r]]
    /\ queue' = [r \in Runs |-> Repaired(r)]
    /\ UNCHANGED <<approved, holds, revisions, crashes, overrun, workerVars, cancelVars,
                   routeVars>>

\* Nothing left to do: not a deadlock.
Settled ==
    /\ \A r \in Runs : status[r] \in Terminal /\ queue[r] = "none"
    /\ \A w \in Workers : pc[w] = "idle"
    /\ UNCHANGED vars

----------------------------------------------------------------------------
TaskStep(w) ==
    \/ \E r \in Runs : Claim(w, r)
    \/ Execute(w) \/ DropClaim(w) \/ Prepare(w) \/ CannotStart(w)
    \/ PassGate(w) \/ MissGate(w) \/ Register(w)
    \/ HoldQueues(w) \/ Interrupted(w) \/ Close(w)
    \/ ParkForApproval(w) \/ FinishForgets(w) \/ FinishWrites(w)

WorkerStep(w) == TaskStep(w) \/ StreamEnds(w)

RouteStep(r) == StopSignals(r) \/ StopForgets(r) \/ StopWrites(r) \/ Requeue(r)

PersonStep(r) == StopReads(r) \/ Approve(r) \/ Revise(r)

Next ==
    \/ \E w \in Workers : WorkerStep(w) \/ RateLimited(w)
    \/ \E r \in Runs : RouteStep(r) \/ PersonStep(r) \/ Ripen(r)
    \/ Crash
    \/ Recover
    \/ Settled

Spec == Init /\ [][Next]_vars

\* The runtime polls every task, an engine ends, time passes, and a server
\* that went down is started again.  Nobody has to approve or cancel.
Fairness ==
    /\ \A w \in Workers : WF_vars(WorkerStep(w))
    /\ \A r \in Runs : WF_vars(RouteStep(r)) /\ WF_vars(Ripen(r))
    /\ WF_vars(Recover)

FairSpec == Spec /\ Fairness

\* The same with engines that may never end by themselves.
HangingEngines ==
    /\ \A w \in Workers : WF_vars(TaskStep(w))
    /\ \A r \in Runs : WF_vars(RouteStep(r)) /\ WF_vars(Ripen(r))
    /\ WF_vars(Recover)

HangSpec == Spec /\ HangingEngines

----------------------------------------------------------------------------
(* Safety. *)

\* A run that reads queued or rate_limited has something that will dispatch
\* it: its row, a worker that took the row, or the second statement of the
\* call that wrote the status.  Down, recovery puts the row back.
ComesBack ==
    \A r \in Runs :
        up /\ status[r] \in Waiting =>
            \/ queue[r] # "none"
            \/ \E w \in Workers : job[w] = r /\ pc[w] \in {"claimed", "holding"}
            \/ requeuing[r]

\* One engine at a time works for a run, and so in its worktree.  The code does
\* not keep this: a hold's row may ripen before the held stream is gone.
OneEnginePerRun == \A r \in Runs : Cardinality(Engines(r)) <= 1

\* That is the only way to two engines: claims, approvals, cancels, holds and
\* restarts in any order put a second one on a run only after the row of a hold
\* was claimed with the held stream still open (orchestrator.rs, execute on the
\* check that is the write).
OneEngineUnlessOverrun ==
    \A r \in Runs : r \in overrun \/ Cardinality(Engines(r)) <= 1

\* An engine that works for a run that has ended has been told to stop, or is
\* about to be.
StopIsHeeded ==
    \A r \in Runs : \A w \in Engines(r) : status[r] \in Terminal => fired[w]

\* Ended is final.  The code does not keep this: hold_rate_limited's UPDATE has
\* no guard.
EndedIsFinal ==
    [][\A r \in Runs : status[r] \in Terminal => status'[r] = status[r]]_vars

\* That is the only way back: an ended run changes its status only by the hold
\* of a stream that is still open, never by an approval, a plan parked late, a
\* status gate, a second finish or a recovery (orchestrator.rs, set_status,
\* finish and hold_rate_limited).
OnlyHoldsRevive ==
    [][\A r \in Runs :
          status[r] \in Terminal /\ status'[r] # status[r] =>
              /\ status'[r] = "rate_limited"
              /\ \E w \in Workers : job[w] = r /\ pc[w] = "streaming" /\ pc'[w] = "holding"]_vars

\* What the board shows of a run behaves as RunPromise says.
PhaseOf(s) ==
    CASE s \in Waiting -> "waiting"
      [] s \in {"starting", "running"} -> "working"
      [] s = "awaiting_approval" -> "asking"
      [] OTHER -> "ended"

Phase == [r \in Runs |-> PhaseOf(status[r])]

Held == {r \in Runs : holds[r] > 0}

Promise == INSTANCE RunPromise WITH phase <- Phase, held <- Held, doubled <- overrun

KeepsPromise == Promise!Spec

(* Liveness. *)

\* Whatever is queued settles: it ends, or it waits for a person's yes.
EveryRunSettles ==
    \A r \in Runs :
        status[r] \in Waiting ~> status[r] \in Terminal \cup {"awaiting_approval"}

\* A run somebody asked to stop ends, whatever state it was in, or the server
\* goes down first.
StopEnds == \A r \in Runs : stop[r] = "signalling" ~> status[r] \in Terminal \/ ~up

=============================================================================
