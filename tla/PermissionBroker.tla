-------------------------- MODULE PermissionBroker --------------------------
(***************************************************************************)
(* Permission prompts and the slots they lend (runs/permissions.rs,        *)
(* runs/gate.rs, runs/slots.rs, and the queue loop of                      *)
(* runs/orchestrator.rs).                                                  *)
(*                                                                         *)
(* Actors: the queue loop, which holds a permit for as long as a run's     *)
(* task executes; one task per run, streaming its engine; one handler      *)
(* future per permission request, parked in PermissionBroker::request; the *)
(* person who answers; the tasks that guards spawn to unpark a run.  The   *)
(* in-memory maps are changed under one mutex, the runs table by guarded   *)
(* UPDATEs; every await between two of them is a point where the others    *)
(* move.                                                                   *)
(*                                                                         *)
(* A run executes once here, and a request is asked once: retries, holds   *)
(* and restarts are RunLifecycle's.                                        *)
(***************************************************************************)
EXTENDS Slots, FiniteSets

CONSTANTS
    Runs,
    NoRun,          \* the owner of a request nobody has asked
    Requests,
    FanOut,         \* the runs that stream several steps at once
    MaxExtra,       \* bound: extra permits one fan-out may hold
    Patient,        \* requests asked while the setting was to wait for ever
    HangUps,        \* TRUE: a client may close one request while its run lives
    UnparkLags      \* TRUE: the spawned unpark lands some time after the guard dropped

ASSUME RunsAssumption == IsFiniteSet(Runs) /\ NoRun \notin Runs
ASSUME RequestsAssumption == IsFiniteSet(Requests)
ASSUME FanOutAssumption == FanOut \subseteq Runs /\ MaxExtra \in Nat
ASSUME PatientAssumption == Patient \subseteq Requests
ASSUME SwitchesAssumption == {HangUps, UnparkLags} \subseteq BOOLEAN

VARIABLES
    loop,           \* where run_loop is between its awaits
    status,         \* runs.status
    task,           \* the spawned task that executes a run and holds its permit
    extra,          \* <<run, i>>: the permits fan-outs took with try_acquire
    signalled,      \* the run's cancel channel has been fired
    count,          \* Parked::count, 0 when the run has no entry in `parked`
    lent,           \* Parked::lent, FALSE when it has none
    unparks,        \* unpark tasks spawned and not yet run
    request,        \* where each request's future is between its awaits
    owner,          \* the run a request belongs to, while its future lives
    pending,        \* requests whose responder is in the `pending` map
    answer          \* what was sent down the request's oneshot

runVars == <<status, task, extra, signalled>>
brokerVars == <<count, lent, unparks>>
requestVars == <<request, owner, pending, answer>>
vars == <<available, debt, loop, runVars, brokerVars, requestVars>>

Terminal == {"completed", "canceled"}
Statuses == {"queued", "running", "waiting_permission"} \cup Terminal
TaskStates == {"idle", "streaming", "finishing", "post"}
RequestStates == {"new", "parking", "lending", "waiting", "abandoning",
                  "signalling", "leaving", "done"}

\* A future that is being awaited, so one whose ParkGuard has not dropped.
Guarded == RequestStates \ {"new", "done"}
Guards(r) == {q \in Requests : owner[q] = r /\ request[q] \in Guarded}

TypeOK ==
    /\ available \in Nat
    /\ debt \in Nat
    /\ loop \in {"waiting", "acquired", "claiming"}
    /\ status \in [Runs -> Statuses]
    /\ task \in [Runs -> TaskStates]
    /\ extra \subseteq Runs \X (1 .. MaxExtra)
    /\ signalled \in [Runs -> BOOLEAN]
    /\ count \in [Runs -> Nat]
    /\ lent \in [Runs -> BOOLEAN]
    /\ unparks \in [Runs -> Nat]
    /\ request \in [Requests -> RequestStates]
    /\ owner \in [Requests -> Runs \cup {NoRun}]
    /\ pending \subseteq Requests
    /\ answer \in [Requests -> {"none", "allow", "deny"}]

Init ==
    /\ SlotsInit
    /\ loop = "waiting"
    /\ status = [r \in Runs |-> "queued"]
    /\ task = [r \in Runs |-> "idle"]
    /\ extra = {}
    /\ signalled = [r \in Runs |-> FALSE]
    /\ count = [r \in Runs |-> 0]
    /\ lent = [r \in Runs |-> FALSE]
    /\ unparks = [r \in Runs |-> 0]
    /\ request = [q \in Requests |-> "new"]
    /\ owner = [q \in Requests |-> NoRun]
    /\ pending = {}
    /\ answer = [q \in Requests |-> "none"]

----------------------------------------------------------------------------
(* The queue loop. *)

LoopAcquire ==
    /\ loop = "waiting"
    /\ Acquire
    /\ loop' = "acquired"
    /\ UNCHANGED <<runVars, brokerVars, requestVars>>

\* The permit in hand is owed: forget it and go round again.
LoopPayDebt ==
    /\ loop = "acquired"
    /\ TakeDebt
    /\ loop' = "waiting"
    /\ UNCHANGED <<runVars, brokerVars, requestVars>>

LoopKeepPermit ==
    /\ loop = "acquired"
    /\ debt = 0
    /\ loop' = "claiming"
    /\ UNCHANGED <<slotVars, runVars, brokerVars, requestVars>>

\* claim_next found r: the spawned task owns the permit from here on.
LoopDispatch(r) ==
    /\ loop = "claiming"
    /\ status[r] = "queued"
    /\ loop' = "waiting"
    /\ status' = [status EXCEPT ![r] = "running"]
    /\ task' = [task EXCEPT ![r] = "streaming"]
    /\ UNCHANGED <<slotVars, extra, signalled, brokerVars, requestVars>>

\* Nothing to claim: drop the permit and sleep.
LoopFindsNothing ==
    /\ loop = "claiming"
    /\ \A r \in Runs : status[r] # "queued"
    /\ Release
    /\ loop' = "waiting"
    /\ UNCHANGED <<runVars, brokerVars, requestVars>>

----------------------------------------------------------------------------
(* A run's task. *)

\* gate.abandon's guard, and finish's: the first ending wins.
Ended(r, ending) ==
    [status EXCEPT ![r] = IF @ \in Terminal THEN @ ELSE ending]

\* A step of a fan-out starts streaming: set_status(Running), guarded only
\* against a run that has ended.
StepStarts(r) ==
    /\ r \in FanOut
    /\ task[r] = "streaming"
    /\ status[r] \notin Terminal
    /\ status' = [status EXCEPT ![r] = "running"]
    /\ UNCHANGED <<slotVars, loop, task, extra, signalled, brokerVars, requestVars>>

\* try_acquire_owned: a permit that is free right now, debt or no debt.
FanOutBorrows(r, i) ==
    /\ r \in FanOut
    /\ task[r] = "streaming"
    /\ <<r, i>> \notin extra
    /\ Acquire
    /\ extra' = extra \cup {<<r, i>>}
    /\ UNCHANGED <<loop, status, task, signalled, brokerVars, requestVars>>

\* Mutant of FanOutReturns: the permit leaks.
FanOutLeaks(r, i) ==
    /\ <<r, i>> \in extra
    /\ extra' = extra \ {<<r, i>>}
    /\ UNCHANGED <<slotVars, loop, status, task, signalled, brokerVars, requestVars>>

\* The fan-out is over: its permits drop, one by one.
FanOutReturns(r, i) ==
    /\ <<r, i>> \in extra
    /\ Release
    /\ extra' = extra \ {<<r, i>>}
    /\ UNCHANGED <<loop, status, task, signalled, brokerVars, requestVars>>

\* A person cancels a run that is executing: its streams are signalled.
CancelRun(r) ==
    /\ task[r] = "streaming"
    /\ status[r] \notin Terminal
    /\ signalled' = [signalled EXCEPT ![r] = TRUE]
    /\ UNCHANGED <<slotVars, loop, status, task, extra, brokerVars, requestVars>>

\* The engine is gone, and with it the connections its requests came over:
\* interrupted, or finished with no tool call outstanding.
EngineExits(r) ==
    /\ task[r] = "streaming"
    /\ \A i \in 1 .. MaxExtra : <<r, i>> \notin extra
    /\ signalled[r] \/ Guards(r) = {}
    /\ task' = [task EXCEPT ![r] = "finishing"]
    /\ UNCHANGED <<slotVars, loop, status, extra, signalled, brokerVars, requestVars>>

\* finish: the first ending wins.
Finish(r) ==
    /\ task[r] = "finishing"
    /\ task' = [task EXCEPT ![r] = "post"]
    /\ status' = Ended(r, IF signalled[r] THEN "canceled" ELSE "completed")
    /\ UNCHANGED <<slotVars, loop, extra, signalled, brokerVars, requestVars>>

\* execute has returned; the permit it was spawned with drops.
TaskEnds(r) ==
    /\ task[r] = "post"
    /\ Release
    /\ task' = [task EXCEPT ![r] = "idle"]
    /\ signalled' = [signalled EXCEPT ![r] = FALSE]
    /\ UNCHANGED <<loop, status, extra, brokerVars, requestVars>>

----------------------------------------------------------------------------
(* PermissionBroker::request, and the guard that undoes it. *)

Goto(q, state) == request' = [request EXCEPT ![q] = state]

\* Under the lock: insert the responder, count the question.  Only a run's
\* first outstanding question parks it.  A handler may get here after the
\* engine that called it is gone.
Ask(q, r) ==
    /\ request[q] = "new"
    /\ task[r] # "idle"
    /\ owner' = [owner EXCEPT ![q] = r]
    /\ pending' = pending \cup {q}
    /\ count' = [count EXCEPT ![r] = @ + 1]
    /\ Goto(q, IF count[r] = 0 THEN "parking" ELSE "waiting")
    /\ UNCHANGED <<slotVars, loop, runVars, lent, unparks, answer>>

\* gate.park, true: the guarded UPDATE found the run starting or running.
ParkSucceeds(q) ==
    /\ request[q] = "parking"
    /\ status[owner[q]] = "running"
    /\ status' = [status EXCEPT ![owner[q]] = "waiting_permission"]
    /\ Goto(q, "lending")
    /\ UNCHANGED <<slotVars, loop, task, extra, signalled, brokerVars, owner, pending, answer>>

\* gate.park, false: Decision::RunGone.
ParkRefused(q) ==
    /\ request[q] = "parking"
    /\ status[owner[q]] # "running"
    /\ Goto(q, "leaving")
    /\ UNCHANGED <<slotVars, loop, runVars, brokerVars, owner, pending, answer>>

\* Mutant of LendSlot: the run waits with its permit in hand.
LendNothing(q) ==
    /\ request[q] = "lending"
    /\ Goto(q, "waiting")
    /\ UNCHANGED <<slotVars, loop, runVars, brokerVars, owner, pending, answer>>

\* Back from park: note the loan, give the slot to the queue, start waiting.
LendSlot(q) ==
    /\ request[q] = "lending"
    /\ Lend
    /\ lent' = [lent EXCEPT ![owner[q]] = count[owner[q]] > 0]
    /\ Goto(q, "waiting")
    /\ UNCHANGED <<loop, runVars, count, unparks, owner, pending, answer>>

\* resolve: whoever finds the responder sends the answer.  The dashboard lists
\* `pending`, so it may come before the run has parked, and it may come after
\* the wait has timed out.
Resolve(q, a) ==
    /\ q \in pending
    /\ pending' = pending \ {q}
    /\ answer' = [answer EXCEPT ![q] = a]
    /\ UNCHANGED <<slotVars, loop, runVars, brokerVars, request, owner>>

\* The wait ends with the person's answer.
Answered(q) ==
    /\ request[q] = "waiting"
    /\ answer[q] # "none"
    /\ Goto(q, "leaving")
    /\ UNCHANGED <<slotVars, loop, runVars, brokerVars, owner, pending, answer>>

\* The window closes first.  timeout polls the answer before the clock.
TimesOut(q) ==
    /\ q \notin Patient
    /\ request[q] = "waiting"
    /\ answer[q] = "none"
    /\ Goto(q, "abandoning")
    /\ UNCHANGED <<slotVars, loop, runVars, brokerVars, owner, pending, answer>>

\* gate.abandon's first statement: the ending is written before the guard
\* can unpark the run.
Abandon(q) ==
    /\ request[q] = "abandoning"
    /\ status' = Ended(owner[q], "canceled")
    /\ Goto(q, "signalling")
    /\ UNCHANGED <<slotVars, loop, task, extra, signalled, brokerVars, owner, pending, answer>>

\* gate.abandon's last: the cancel closure interrupts the engine.
SignalAbandoned(q) ==
    /\ request[q] = "signalling"
    /\ signalled' = [signalled EXCEPT ![owner[q]] = @ \/ task[owner[q]] = "streaming"]
    /\ Goto(q, "leaving")
    /\ UNCHANGED <<slotVars, loop, status, task, extra, brokerVars, owner, pending, answer>>

\* Mutant of Unparked: the UPDATE without its WHERE.
UnparkedAnyway(r) ==
    [status EXCEPT ![r] = "running"]

\* gate.unpark: only a run that still waits goes back to running.
Unparked(r) ==
    [status EXCEPT ![r] = IF @ = "waiting_permission" THEN "running" ELSE @]

\* The guard is not the run's last: one question fewer.
OneOfMany(r) ==
    /\ count[r] > 1
    /\ count' = [count EXCEPT ![r] = @ - 1]
    /\ UNCHANGED <<slotVars, lent, unparks, status>>

\* Mutant of LastWithoutLoan: it does not look at lent.
LastForgetsLoan(r) ==
    /\ count[r] <= 1
    /\ count' = [count EXCEPT ![r] = 0]
    /\ UNCHANGED <<slotVars, lent, unparks, status>>

\* The last, of a run that never came to lend: the entry goes.
LastWithoutLoan(r) ==
    /\ count[r] <= 1
    /\ ~lent[r]
    /\ count' = [count EXCEPT ![r] = 0]
    /\ UNCHANGED <<slotVars, lent, unparks, status>>

\* Mutant of LastSettles: the slot is not owed.
LastOwesNothing(r) ==
    /\ count[r] <= 1
    /\ lent[r]
    /\ count' = [count EXCEPT ![r] = 0]
    /\ lent' = [lent EXCEPT ![r] = FALSE]
    /\ unparks' = [unparks EXCEPT ![r] = @ + 1]
    /\ UNCHANGED <<slotVars, status>>

\* Mutant of LastSettles: the run is not unparked.
LastLeavesParked(r) ==
    /\ count[r] <= 1
    /\ lent[r]
    /\ count' = [count EXCEPT ![r] = 0]
    /\ lent' = [lent EXCEPT ![r] = FALSE]
    /\ Reclaim
    /\ UNCHANGED <<unparks, status>>

\* The last settles the loan, whichever question made it: the slot is owed
\* and the unpark, guarded by the status it expects, is spawned.
LastSettles(r) ==
    /\ count[r] <= 1
    /\ lent[r]
    /\ count' = [count EXCEPT ![r] = 0]
    /\ lent' = [lent EXCEPT ![r] = FALSE]
    /\ Reclaim
    /\ \/ /\ UnparkLags
          /\ unparks' = [unparks EXCEPT ![r] = @ + 1]
          /\ UNCHANGED status
       \/ /\ ~UnparkLags
          /\ status' = Unparked(r)
          /\ UNCHANGED unparks

\* ParkGuard::drop.
DropGuard(q) ==
    /\ pending' = pending \ {q}
    /\ OneOfMany(owner[q]) \/ LastWithoutLoan(owner[q]) \/ LastSettles(owner[q])
    /\ Goto(q, "done")
    /\ owner' = [owner EXCEPT ![q] = NoRun]
    /\ answer' = [answer EXCEPT ![q] = "none"]
    /\ UNCHANGED <<loop, task, extra, signalled>>

Leave(q) ==
    /\ request[q] = "leaving"
    /\ DropGuard(q)

\* The client's connection closed: hyper drops the future at its await.
HangUp(q) ==
    /\ request[q] \in Guarded \ {"leaving"}
    /\ HangUps \/ task[owner[q]] # "streaming"
    /\ DropGuard(q)

Unpark(r) ==
    /\ unparks[r] > 0
    /\ unparks' = [unparks EXCEPT ![r] = @ - 1]
    /\ status' = Unparked(r)
    /\ UNCHANGED <<slotVars, loop, task, extra, signalled, count, lent, requestVars>>

----------------------------------------------------------------------------
LoopStep ==
    \/ LoopAcquire \/ LoopPayDebt \/ LoopKeepPermit \/ LoopFindsNothing
    \/ \E r \in Runs : LoopDispatch(r)

TaskStep(r) == EngineExits(r) \/ Finish(r) \/ TaskEnds(r)

FanOutStep(r) ==
    \/ StepStarts(r)
    \/ \E i \in 1 .. MaxExtra : FanOutBorrows(r, i) \/ FanOutReturns(r, i)

FutureStep(q) ==
    \/ ParkSucceeds(q) \/ ParkRefused(q) \/ LendSlot(q)
    \/ Answered(q) \/ TimesOut(q) \/ Abandon(q) \/ SignalAbandoned(q)
    \/ Leave(q)

PersonStep ==
    \/ \E r \in Runs : CancelRun(r)
    \/ \E q \in Requests, a \in {"allow", "deny"} : Resolve(q, a)

ClientStep(q) == HangUp(q) \/ \E r \in Runs : Ask(q, r)

Next ==
    \/ LoopStep
    \/ PersonStep
    \/ \E r \in Runs : TaskStep(r) \/ FanOutStep(r) \/ Unpark(r)
    \/ \E q \in Requests : FutureStep(q) \/ ClientStep(q)

Spec == Init /\ [][Next]_vars

\* The runtime polls every ready task, the queue loop never stops, an engine
\* with no tool call outstanding ends, and a dead client's connection is
\* noticed.  Nothing makes a person answer or cancel, or an engine ask.
Fairness ==
    /\ WF_vars(LoopStep)
    /\ \A r \in Runs : /\ WF_vars(TaskStep(r))
                       /\ WF_vars(\E i \in 1 .. MaxExtra : FanOutReturns(r, i))
                       /\ WF_vars(Unpark(r))
    /\ \A q \in Requests :
         /\ WF_vars(FutureStep(q))
         /\ WF_vars(HangUp(q) /\ task[owner[q]] # "streaming")

FairSpec == Spec /\ Fairness

----------------------------------------------------------------------------
(* Safety. *)

Executing == {r \in Runs : task[r] # "idle"}
Lent == {r \in Runs : lent[r]}

\* Permits in somebody's hand: the queue loop's, one per task, the fan-outs'.
PermitsHeld ==
    (IF loop = "waiting" THEN 0 ELSE 1) + Cardinality(Executing) + Cardinality(extra)

\* Inflate implies owe: every permit beyond the budget is lent by a run that
\* waits on a person or is owed back (slots.rs, the module comment).  A guard
\* dropped twice, or a loan nobody settles, inflates or shrinks the queue for
\* the life of the process.
SlotConservation ==
    available + PermitsHeld = MaxConcurrent + Cardinality(Lent) + debt

\* The refcount in `parked` is the number of guards alive, however each wait
\* ended: answered, refused, timed out or dropped mid-await.
RefcountIsGuards == \A r \in Runs : count[r] = Cardinality(Guards(r))

\* A loan has a question behind it: the last guard to drop settles it, which
\* is often not the guard of the request that lent.
LoanHasQuestion == \A r \in Runs : lent[r] => Guards(r) # {}

\* A run has one question at most on the way to parking it, and none while
\* its slot is lent: so a run lends one slot however many questions it has
\* open (permissions.rs on `parked`).
OnePark ==
    \A q \in Requests :
        request[q] \in {"parking", "lending"} =>
            /\ ~lent[owner[q]]
            /\ \A p \in Guards(owner[q]) : p # q => request[p] \notin {"parking", "lending"}

\* Who will unpark a run: the last guard of the loan that is made, or of the one
\* about to be, or the task that guard has spawned.
Covered(r) ==
    \/ lent[r]
    \/ unparks[r] > 0
    \/ \E q \in Guards(r) : request[q] = "lending"

\* It reads waiting_permission, its engine works, and nobody will unpark it.
Stranded(r) ==
    task[r] = "streaming" /\ status[r] = "waiting_permission" /\ ~Covered(r)

\* Nothing leaves a run parked with no question open (permissions.rs on
\* ParkGuard).  The code does not keep this: hyper may drop the future that has
\* just parked the run before it has noted the loan.
NobodyStranded == \A r \in Runs : ~Stranded(r)

\* What it does keep: that is the only way.  However the questions of a run
\* end, in whatever order, and however late the unparks land, a run comes to be
\* stranded only by the step that drops the very future that parked it, at the
\* await of gate.park (permissions.rs, request and ParkGuard::drop).
OnlyHangUpStrands ==
    [][\A r \in Runs :
          ~Stranded(r) /\ Stranded(r)' =>
              \E q \in Guards(r) : request[q] = "lending" /\ request'[q] = "done"]_vars

\* An ending is never undone: not by the unpark of a request abandoned in the
\* meantime, and not by a park or a step that comes late (gate.rs, abandon).
EndedIsFinal ==
    [][\A r \in Runs : status[r] \in Terminal => status'[r] = status[r]]_vars

\* A prompt is told its run is gone only when the run has ended, or its
\* engine has and the ending is being written (gate.rs on RunGate::park).  The
\* code does not keep this: an unpark that is still on its way leaves the run
\* parked, and so does a hang-up that stranded it.
GoneMeansEnded ==
    [][\A q \in Requests :
          request[q] = "parking" /\ request'[q] = "leaving"
              => status[owner[q]] \in Terminal \/ task[owner[q]] # "streaming"]_vars

\* And those are the only two ways.
GoneNeedsALag ==
    [][\A q \in Requests :
          request[q] = "parking" /\ request'[q] = "leaving"
              => \/ status[owner[q]] \in Terminal
                 \/ task[owner[q]] # "streaming"
                 \/ unparks[owner[q]] > 0
                 \/ Stranded(owner[q])]_vars

\* What is held, lent and owed behaves as SlotBudget says.
Abstract == INSTANCE SlotBudget WITH
                held <- PermitsHeld, lentOut <- Cardinality(Lent), owed <- debt

ImplementsBudget == Abstract!Spec

(* Liveness. *)

\* However long people take, a parked run never keeps a queued one from
\* starting (slots.rs, the module comment; permissions.rs, the first rule).
QueueNotFrozen == \A r \in Runs : status[r] = "queued" ~> status[r] # "queued"

\* A question with a finite window ends: answered, abandoned, or gone.
EveryQuestionEnds ==
    \A q \in Requests \ Patient : request[q] \in Guarded ~> request[q] = "done"

=============================================================================
