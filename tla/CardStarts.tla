----------------------------- MODULE CardStarts -----------------------------
(***************************************************************************)
(* The doors through which one card gets a run: a start (enqueue_task) or  *)
(* a follow-up in its worktree (runs/follow_up.rs), the summary a silent   *)
(* run is asked for, the resume of a dead run (runs/resume.rs) and the     *)
(* hand-off to another agent (handoff.rs).                                 *)
(*                                                                         *)
(* Actors: door calls, each an HTTP handler or a task of the server that   *)
(* moves from await to await, one of them the scheduler's sweep; the       *)
(* executor of each run; people who cancel and approve; restarts.  Cards   *)
(* share nothing here, so there is one.                                    *)
(*                                                                         *)
(* What a run does between its claim and its ending, and the statements of *)
(* a cancel, are RunLifecycle's: here each is a step, but the status gate  *)
(* and the registration of the stream, between which a stop is lost.  Rate *)
(* limits, and the stream that works on beside its own hold, are left out. *)
(***************************************************************************)
EXTENDS Naturals

CONSTANTS
    Runs,           \* bound: the runs the card may ever have
    NoRun,
    Doors,          \* bound: the calls under way at once
    NoDoor,
    Sweeper,        \* the scheduler, which only settles hand-offs
    Done,           \* the runs that completed before the model begins
    MaxRestarts     \* bound: restarts of the server

ASSUME RunsAssumption == NoRun \notin Runs /\ Done \subseteq Runs
ASSUME DoorsAssumption == NoDoor \notin Doors /\ Sweeper \in Doors
ASSUME RestartsAssumption == MaxRestarts \in Nat

VARIABLES
    \* The database.
    status,         \* runs.status, "none" before the run exists
    summaries,      \* the runs whose trigger is 'summary'
    queue,          \* the runs with a queue row
    handoff,        \* tasks.handoff_from_run_id of a hand-off under way
    lock,           \* who holds the card's row, FOR NO KEY UPDATE
    \* The process.
    task,           \* the spawned task that executes a run
    call,           \* what each door was called for
    pc,             \* where each door is between its awaits
    run,            \* the run each door has read or made
    restarts,       \* restarts so far, for the bound
    resumed,        \* history: a resume has added a run
    unheard         \* history: runs at work whose stop no stream will hear of

cardVars == <<status, summaries, queue, handoff>>
doorVars == <<lock, call, pc, run>>
tally == <<restarts, resumed, unheard>>
vars == <<cardVars, task, doorVars, tally>>

\* awaiting_approval is "asking"; starting, running and waiting_permission are
\* "working"; failed is "canceled".
Ended == {"completed", "canceled"}
Busy == {"queued", "working"}
Statuses == {"none", "asking"} \cup Busy \cup Ended
Calls == {"start", "summarize", "resume", "handoff", "settle"}
Places == {"idle", "superseding", "locking", "checking", "inserting",
           "looking", "adding", "queueing", "recording", "stopping",
           "counting", "claiming"}

Live(r) == status[r] \in Busy \cup {"asking"}

TypeOK ==
    /\ status \in [Runs -> Statuses]
    /\ summaries \subseteq Runs
    /\ queue \subseteq Runs
    /\ handoff \in Runs \cup {NoRun}
    /\ lock \in Doors \cup {NoDoor}
    /\ task \in [Runs -> {"idle", "claimed", "preparing", "opening", "streaming", "post"}]
    /\ call \in [Doors -> Calls \cup {"none"}]
    /\ pc \in [Doors -> Places]
    /\ run \in [Doors -> Runs \cup {NoRun}]
    /\ restarts \in 0 .. MaxRestarts
    /\ resumed \in BOOLEAN
    /\ unheard \subseteq Runs

\* A hand-off that an earlier server recorded may be waiting.
Init ==
    /\ status = [r \in Runs |-> IF r \in Done THEN "completed" ELSE "none"]
    /\ summaries = {}
    /\ queue = {}
    /\ handoff \in Done \cup {NoRun}
    /\ lock = NoDoor
    /\ task = [r \in Runs |-> "idle"]
    /\ call = [d \in Doors |-> "none"]
    /\ pc = [d \in Doors |-> "idle"]
    /\ run = [d \in Doors |-> NoRun]
    /\ restarts = 0
    /\ resumed = FALSE
    /\ unheard = {}

----------------------------------------------------------------------------
(* The runs of the card, as far as the doors can tell them apart. *)

\* A new id: which one makes no difference.
Fresh(r) ==
    /\ status[r] = "none"
    /\ r = CHOOSE f \in Runs : status[f] = "none"

Become(r, s) == status' = [status EXCEPT ![r] = s]

Turn(r, t) == task' = [task EXCEPT ![r] = t]

\* finish, and every guarded status write: the first ending wins.
End(r, s) == Become(r, IF status[r] \in Ended THEN status[r] ELSE s)

\* A stop finds no stream between the gate and the registration, and `finish`
\* forgets that it was asked for: the stream that opens will not hear of it.
Misses(R) == unheard' = unheard \cup {r \in R : task[r] = "opening"}

\* Mutant of Stop: a run whose stream is interrupted counts as ended at once.
StopAtOnce(R) ==
    /\ status' = [r \in Runs |-> IF r \in R /\ Live(r) THEN "canceled" ELSE status[r]]
    /\ queue' = queue \ R
    /\ Misses(R)

\* cancel, and cancel_idle for a run with no stream to interrupt.  A stream
\* that is told to stop may still complete first: it ends in StreamEnds.  The
\* signal, the forgetting and the UPDATE are one step, placed where the UPDATE
\* is or, when the stream registers in between, just before that.
Stop(R) ==
    LET idle == {r \in R : task[r] # "streaming"} IN
    /\ status' = [r \in Runs |-> IF r \in idle /\ Live(r) THEN "canceled" ELSE status[r]]
    /\ queue' = queue \ idle
    /\ Misses(R)

\* The task is past its stream, if it had one.
Closes(r) == unheard' = unheard \ {r}

\* claim_head: the row goes, the task is spawned.
Claim(r) ==
    /\ r \in queue
    /\ queue' = queue \ {r}
    /\ Turn(r, "claimed")
    /\ UNCHANGED <<status, summaries, handoff, doorVars, tally>>

\* alive, and execute: a run no longer queued is dropped.
Execute(r) ==
    /\ task[r] = "claimed"
    /\ IF status[r] = "queued" THEN Become(r, "working") /\ Turn(r, "preparing")
                               ELSE UNCHANGED status /\ Turn(r, "idle")
    /\ UNCHANGED <<summaries, queue, handoff, doorVars, tally>>

\* stream_run's gate: the run is working still.
PassGate(r) ==
    /\ task[r] = "preparing"
    /\ status[r] \notin Ended
    /\ Turn(r, "opening")
    /\ UNCHANGED <<cardVars, doorVars, tally>>

\* The engine starts, whatever the run reads by now, and its stream can be told
\* to stop.
Register(r) ==
    /\ task[r] = "opening"
    /\ Turn(r, "streaming")
    /\ UNCHANGED <<cardVars, doorVars, tally>>

\* Mutant of MissGate: the task is thought to have gone by itself.
MissGateAndStay(r) ==
    /\ task[r] = "preparing"
    /\ status[r] \in Ended
    /\ UNCHANGED vars

\* The run was canceled while it was prepared, or cannot start.
MissGate(r) ==
    /\ task[r] \in {"preparing", "opening"}
    /\ End(r, "canceled")
    /\ Turn(r, "post")
    /\ Closes(r)
    /\ UNCHANGED <<summaries, queue, handoff, doorVars, restarts, resumed>>

\* The engine is gone and finish has run; the post-work begins.
StreamEnds(r) ==
    /\ task[r] = "streaming"
    /\ \E s \in Ended : End(r, s)
    /\ Turn(r, "post")
    /\ Closes(r)
    /\ UNCHANGED <<summaries, queue, handoff, doorVars, restarts, resumed>>

\* park_for_approval.
ParkPlan(r) ==
    /\ task[r] = "streaming"
    /\ r \notin summaries
    /\ End(r, "asking")
    /\ Turn(r, "idle")
    /\ Closes(r)
    /\ UNCHANGED <<summaries, queue, handoff, doorVars, restarts, resumed>>

\* execute has returned, and Alive drops.
PostWorkEnds(r) ==
    /\ task[r] = "post"
    /\ Turn(r, "idle")
    /\ UNCHANGED <<cardVars, doorVars, tally>>

\* The person who stops a run, and the one who approves its plan or sends it back.
Cancel(r) ==
    /\ Live(r)
    /\ Stop({r})
    /\ UNCHANGED <<summaries, handoff, task, doorVars, restarts, resumed>>

Approve(r) ==
    /\ status[r] = "asking"
    /\ Become(r, "queued")
    /\ queue' = queue \cup {r}
    /\ UNCHANGED <<summaries, handoff, task, doorVars, tally>>

----------------------------------------------------------------------------
(* Every door. *)

Goto(d, place) ==
    /\ pc' = [pc EXCEPT ![d] = place]
    /\ UNCHANGED <<call, run>>

\* The call returns, and what it knew is gone.
Return(d) ==
    /\ pc' = [pc EXCEPT ![d] = "idle"]
    /\ call' = [call EXCEPT ![d] = "none"]
    /\ run' = [run EXCEPT ![d] = NoRun]

\* A claimed hand-off goes on as a start.
Opens(d) ==
    /\ pc' = [pc EXCEPT ![d] = "superseding"]
    /\ call' = [call EXCEPT ![d] = "start"]
    /\ run' = [run EXCEPT ![d] = NoRun]

Enters(d, c, r, place) ==
    /\ pc[d] = "idle"
    /\ call' = [call EXCEPT ![d] = c]
    /\ run' = [run EXCEPT ![d] = r]
    /\ pc' = [pc EXCEPT ![d] = place]
    /\ UNCHANGED <<cardVars, task, lock, tally>>

Start(d) == d # Sweeper /\ Enters(d, "start", NoRun, "superseding")

\* ask_for_summary, of a completed run that said nothing.
Summarize(d, r) ==
    /\ d # Sweeper
    /\ status[r] = "completed" /\ r \notin summaries
    /\ Enters(d, "summarize", NoRun, "locking")

\* resume_dead_run, once decide has said yes.
Resume(d, r) ==
    /\ d # Sweeper
    /\ status[r] \in Ended /\ r \notin summaries
    /\ Enters(d, "resume", NoRun, "superseding")

\* handoff::request has found a run to stop; a plan that waits is not one.
HandOver(d, r) ==
    /\ d # Sweeper
    /\ status[r] \in Busy
    /\ Enters(d, "handoff", r, "recording")

\* is_executing: the post-work counts.
Executing(r) == task[r] \in {"preparing", "opening", "streaming", "post"}

\* handoff::settle has read the request, whose run no task executes.  A task
\* that was spawned by the claim may not have been polled yet.
Settle(d) ==
    /\ handoff # NoRun
    /\ ~Executing(handoff)
    /\ Enters(d, "settle", handoff, "counting")

\* supersede_summary: live summaries are stopped.  The wait for the ones that
\* stream ends with them or runs out: either way the call goes on.
Supersede(d) ==
    /\ pc[d] = "superseding"
    /\ Stop({r \in summaries : Live(r)})
    /\ Goto(d, IF call[d] = "resume" THEN "looking" ELSE "locking")
    /\ UNCHANGED <<summaries, handoff, task, lock, restarts, resumed>>

----------------------------------------------------------------------------
(* Starts, follow-ups and summaries: locked, checked, committed. *)

\* Mutant of Lock: the checks run on the card as it is.
LockNothing(d) ==
    /\ pc[d] = "locking"
    /\ Goto(d, "checking")
    /\ UNCHANGED <<cardVars, task, lock, tally>>

\* SELECT ... FOR NO KEY UPDATE.
Lock(d) ==
    /\ pc[d] = "locking"
    /\ lock = NoDoor
    /\ lock' = d
    /\ Goto(d, "checking")
    /\ UNCHANGED <<cardVars, task, tally>>

\* No run of the card is live.
Check(d) ==
    /\ pc[d] = "checking"
    /\ \A r \in Runs : ~Live(r)
    /\ Goto(d, "inserting")
    /\ UNCHANGED <<cardVars, task, lock, tally>>

\* AlreadyRunning, or a refusal the model does not look into: a blocker, a
\* paused agent, a spent budget, no worktree.  The transaction rolls back.
Refuse(d) ==
    /\ pc[d] \in {"checking", "inserting"}
    /\ lock' = NoDoor
    /\ Return(d)
    /\ UNCHANGED <<cardVars, task, tally>>

\* The run and its queue row commit together, and the lock goes with them.
Insert(d, r) ==
    /\ pc[d] = "inserting"
    /\ Fresh(r)
    /\ Become(r, "queued")
    /\ queue' = queue \cup {r}
    /\ summaries' = IF call[d] = "summarize" THEN summaries \cup {r} ELSE summaries
    /\ lock' = NoDoor
    /\ Return(d)
    /\ UNCHANGED <<handoff, task, tally>>

----------------------------------------------------------------------------
(* Resuming a dead run: checked without the lock, inserted in two statements. *)

Look(d) ==
    /\ pc[d] = "looking"
    /\ IF \E r \in Runs : status[r] \in Busy THEN Return(d) ELSE Goto(d, "adding")
    /\ UNCHANGED <<cardVars, task, lock, tally>>

\* resume_run: the run, and then its queue row.
Add(d, r) ==
    /\ pc[d] = "adding"
    /\ Fresh(r)
    /\ resumed' = TRUE
    /\ Become(r, "queued")
    /\ run' = [run EXCEPT ![d] = r]
    /\ pc' = [pc EXCEPT ![d] = "queueing"]
    /\ UNCHANGED <<summaries, queue, handoff, task, lock, call, restarts, unheard>>

AddQueues(d) ==
    /\ pc[d] = "queueing"
    /\ queue' = queue \cup {run[d]}
    /\ Return(d)
    /\ UNCHANGED <<status, summaries, handoff, task, lock, tally>>

\* A paused agent, a spent budget.
AddFails(d) ==
    /\ pc[d] = "adding"
    /\ Return(d)
    /\ UNCHANGED <<cardVars, task, lock, tally>>

----------------------------------------------------------------------------
(* The hand-off: recorded first, then the run is stopped; settled when it has
   ended. *)

Record(d) ==
    /\ pc[d] = "recording"
    /\ IF handoff = NoRun THEN handoff' = run[d] /\ Goto(d, "stopping")
                          ELSE UNCHANGED handoff /\ Return(d)
    /\ UNCHANGED <<status, summaries, queue, task, lock, tally>>

HandStops(d) ==
    /\ pc[d] = "stopping"
    /\ Stop({run[d]})
    /\ Return(d)
    /\ UNCHANGED <<summaries, handoff, task, lock, restarts, resumed>>

\* Mutant of Count: is_executing is thought to say it all.
CountNothing(d) ==
    /\ pc[d] = "counting"
    /\ Goto(d, "claiming")
    /\ UNCHANGED <<cardVars, task, lock, tally>>

\* any_live, read after is_executing.  Not yet: the sweep comes again.
Count(d) ==
    /\ pc[d] = "counting"
    /\ IF \E r \in Runs : Live(r) THEN Return(d) ELSE Goto(d, "claiming")
    /\ UNCHANGED <<cardVars, task, lock, tally>>

\* The claim clears the request, whichever it is by now, and goes through the
\* door of a start.
ClaimHandoff(d) ==
    /\ pc[d] = "claiming"
    /\ handoff' = NoRun
    /\ IF handoff = NoRun THEN Return(d) ELSE Opens(d)
    /\ UNCHANGED <<status, summaries, queue, task, lock, tally>>

\* The agent it was handed to is gone: the request is dropped.
DropHandoff(d) ==
    /\ pc[d] = "claiming"
    /\ handoff' = NoRun
    /\ Return(d)
    /\ UNCHANGED <<status, summaries, queue, task, lock, tally>>

----------------------------------------------------------------------------
\* The server dies, its transactions roll back, and recover_orphans puts the
\* tables right before anything else runs.  A hand-off on record stays.
Restart ==
    /\ restarts < MaxRestarts
    /\ restarts' = restarts + 1
    /\ status' = [r \in Runs |-> IF status[r] = "working" THEN "canceled" ELSE status[r]]
    /\ queue' = {r \in Runs : status[r] = "queued"}
    /\ lock' = NoDoor
    /\ task' = [r \in Runs |-> "idle"]
    /\ call' = [d \in Doors |-> "none"]
    /\ pc' = [d \in Doors |-> "idle"]
    /\ run' = [d \in Doors |-> NoRun]
    /\ unheard' = {}
    /\ UNCHANGED <<summaries, handoff, resumed>>

RunStep(r) ==
    \/ Claim(r) \/ Execute(r) \/ PassGate(r) \/ Register(r) \/ MissGate(r)
    \/ StreamEnds(r) \/ ParkPlan(r) \/ PostWorkEnds(r)

DoorStep(d) ==
    \/ Supersede(d) \/ Check(d) \/ Refuse(d) \/ Look(d) \/ AddQueues(d) \/ AddFails(d)
    \/ Record(d) \/ HandStops(d) \/ Count(d) \/ ClaimHandoff(d)
    \/ DropHandoff(d)
    \/ \E r \in Runs : Insert(d, r) \/ Add(d, r)

CallStep(d) ==
    \/ Start(d) \/ Settle(d)
    \/ \E r \in Runs : Summarize(d, r) \/ Resume(d, r) \/ HandOver(d, r)

PersonStep(r) == Cancel(r) \/ Approve(r)

Next ==
    \/ \E r \in Runs : RunStep(r) \/ PersonStep(r)
    \/ \E d \in Doors : CallStep(d) \/ Lock(d) \/ DoorStep(d)
    \/ Restart

Spec == Init /\ [][Next]_vars

\* Tasks are polled, engines end, the scheduler sweeps each tick, and the
\* database hands a row lock to those who wait for it.  Nobody has to start,
\* cancel, resume or approve anything.
Fairness ==
    /\ WF_vars(\E r \in Runs : RunStep(r))
    /\ \A d \in Doors : WF_vars(DoorStep(d)) /\ SF_vars(Lock(d))
    /\ WF_vars(Settle(Sweeper))

FairSpec == Spec /\ Fairness

----------------------------------------------------------------------------
(* Safety. *)

\* A card has one live run at most, whatever doors are tried at once
\* (enqueue_task, on its lock): the check and the insert of two doors never
\* interleave, and a door that gives way to a person gives way first.  A resume
\* that has added its run has not looked under the lock: from then on nothing
\* is said.
OneLiveRun == resumed \/ \A r, s \in Runs : Live(r) /\ Live(s) => r = s

\* No two engines work in the card's one worktree, a run that was stopped and
\* still streams included (runs/resume.rs, resume_dead_run).
OneEngineAtWork ==
    \A r, s \in Runs : task[r] = "streaming" /\ task[s] = "streaming" => r = s

\* Which would hold until a resume has added a run, were every stop heard
\* (orchestrator.rs, stream_run: a cancel that arrives while a step is starting
\* "is honoured immediately rather than lost").  The code does not keep this.
OneEngineUnlessResumed == resumed \/ OneEngineAtWork

\* The stop between gate and registration is the only other way: a start, a
\* follow-up, a summary or a hand-off never puts an engine beside one that can
\* still be told to stop (follow_up.rs, enqueue_follow_up).
OneEngineUnlessUnheard ==
    \/ resumed
    \/ \A r, s \in Runs :
          task[r] = "streaming" /\ task[s] = "streaming" => r = s \/ {r, s} \cap unheard # {}

\* A settle that claims the hand-off it has read finds its run ended and its
\* engine gone, or deaf to the stop that ended it (handoff.rs, the module
\* comment).  Its task may still prepare or wind down, if it was claimed after
\* is_executing was read.  And the claim may take a later hand-off, which the
\* UPDATE does not tell apart: nothing is said of that.
HandoffWaits ==
    [][\A d \in Doors :
          pc[d] = "claiming" /\ pc'[d] = "superseding" /\ run[d] = handoff
              => /\ status[handoff] \in Ended
                 /\ task[handoff] = "streaming" => handoff \in unheard]_vars

(* Liveness. *)

\* A hand-off that was recorded is claimed, through restarts, unless the card
\* comes to wait for a person's yes (handoff.rs, the module comment).
HandoffSettles ==
    handoff # NoRun ~> handoff = NoRun \/ \E r \in Runs : status[r] = "asking"

=============================================================================
