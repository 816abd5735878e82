------------------------- MODULE RunLifecycleProofs -------------------------
(***************************************************************************)
(* What RunLifecycle keeps for every set of runs, workers and plan-first   *)
(* runs, and every bound: its types, and that a waiting run always has     *)
(* something to dispatch it; that a run has a second engine, and an ended  *)
(* run another status, only through a rate limit; and RunPromise.          *)
(***************************************************************************)
EXTENDS RunLifecycle, FiniteSetTheorems, TLAPS

\* What `finish` is called with is an ending.
EndingsAreEndings ==
    \A w \in Workers :
        /\ pc[w] = "closing" => outcome[w] # "none"
        /\ pc[w] \in {"ending", "writing"} => outcome[w] \in Terminal

LInv == TypeOK /\ EndingsAreEndings /\ ComesBack

USE DEF Terminal, Waiting, Statuses, Rows, Places, Outcomes

----------------------------------------------------------------------------
(* Types. *)

LEMMA InitTypes == Init => TypeOK /\ EndingsAreEndings
  BY BoundsAssumption DEF Init, TypeOK, EndingsAreEndings

LEMMA WorkerKeepsTypes ==
    ASSUME TypeOK, EndingsAreEndings, NEW w \in Workers, WorkerStep(w) \/ RateLimited(w)
    PROVE  TypeOK' /\ EndingsAreEndings'
  <1> USE DEF TypeOK, EndingsAreEndings, Goto, dbVars, workerVars, cancelVars, routeVars
  <1>1. ASSUME NEW r \in Runs, Claim(w, r) PROVE TypeOK' /\ EndingsAreEndings'
    BY <1>1 DEF Claim
  <1>2. CASE Execute(w)
    BY <1>2 DEF Execute
  <1>3. CASE DropClaim(w)
    BY <1>3 DEF DropClaim
  <1>4. CASE Prepare(w)
    BY <1>4 DEF Prepare, SetStatus
  <1>5. CASE CannotStart(w)
    BY <1>5 DEF CannotStart
  <1>6. CASE PassGate(w)
    BY <1>6 DEF PassGate, SetStatus
  <1>7. CASE MissGate(w)
    BY <1>7 DEF MissGate
  <1>8. CASE Register(w)
    <2>1. listener' \in [Runs -> Workers \cup {NoWorker}] /\ fired' \in [Workers -> BOOLEAN]
      BY <1>8 DEF Register
    <2> QED
      BY <1>8, <2>1 DEF Register
  <1>9. CASE RateLimited(w)
    <2>1. holds' \in [Runs -> 0 .. MaxHolds]
      BY <1>9, BoundsAssumption DEF RateLimited
    <2> QED
      BY <1>9, <2>1 DEF RateLimited
  <1>10. CASE HoldQueues(w)
    BY <1>10 DEF HoldQueues
  <1>11. CASE StreamEnds(w)
    BY <1>11 DEF StreamEnds
  <1>12. CASE Interrupted(w)
    BY <1>12 DEF Interrupted
  <1>13. CASE Close(w)
    <2>1. After(w) \in {"idle", "parking", "ending"}
      BY DEF After
    <2>2. After(w) = "ending" => outcome[w] \in Terminal
      BY <1>13 DEF After, Close
    <2>3. listener' \in [Runs -> Workers \cup {NoWorker}] /\ fired' \in [Workers -> BOOLEAN]
      BY <1>13 DEF Close, Fire
    <2> QED
      BY <1>13, <2>1, <2>2, <2>3 DEF Close
  <1>14. CASE ParkForApproval(w)
    BY <1>14 DEF ParkForApproval, SetStatus
  <1>15. CASE FinishForgets(w)
    <2>1. /\ listener' \in [Runs -> Workers \cup {NoWorker}] /\ fired' \in [Workers -> BOOLEAN]
          /\ requested' \in [Runs -> BOOLEAN]
      BY <1>15 DEF FinishForgets, ForgetCancel, Fire
    <2> QED
      BY <1>15, <2>1 DEF FinishForgets
  <1>16. CASE FinishWrites(w)
    BY <1>16 DEF FinishWrites, FinishTx, SetStatus
  <1> QED
    BY <1>1, <1>2, <1>3, <1>4, <1>5, <1>6, <1>7, <1>8, <1>9, <1>10, <1>11, <1>12,
       <1>13, <1>14, <1>15, <1>16 DEF WorkerStep, TaskStep

LEMMA RunKeepsTypes ==
    ASSUME TypeOK, EndingsAreEndings, NEW r \in Runs,
           RouteStep(r) \/ PersonStep(r) \/ Ripen(r)
    PROVE  TypeOK' /\ EndingsAreEndings'
  <1> USE DEF TypeOK, EndingsAreEndings, dbVars, workerVars, cancelVars, routeVars
  <1>1. CASE StopReads(r)
    BY <1>1 DEF StopReads
  <1>2. CASE StopSignals(r)
    BY <1>2 DEF StopSignals, Fire
  <1>3. CASE StopForgets(r)
    BY <1>3 DEF StopForgets, ForgetCancel, Fire
  <1>4. CASE StopWrites(r)
    BY <1>4 DEF StopWrites, FinishTx, SetStatus
  <1>5. CASE Approve(r)
    BY <1>5 DEF Approve
  <1>6. CASE Revise(r)
    <2>1. revisions' \in [Runs -> 0 .. MaxRevisions]
      BY <1>6, BoundsAssumption DEF Revise
    <2> QED
      BY <1>6, <2>1 DEF Revise
  <1>7. CASE Requeue(r)
    BY <1>7 DEF Requeue
  <1>8. CASE Ripen(r)
    BY <1>8 DEF Ripen
  <1> QED
    BY <1>1, <1>2, <1>3, <1>4, <1>5, <1>6, <1>7, <1>8 DEF RouteStep, PersonStep

LEMMA NextKeepsTypes ==
    ASSUME TypeOK, EndingsAreEndings, [Next]_vars
    PROVE  TypeOK' /\ EndingsAreEndings'
  <1> USE DEF TypeOK, EndingsAreEndings
  <1>1. CASE UNCHANGED vars
    BY <1>1 DEF vars, dbVars, workerVars, cancelVars, routeVars
  <1>2. ASSUME NEW w \in Workers, WorkerStep(w) \/ RateLimited(w)
       PROVE  TypeOK' /\ EndingsAreEndings'
    BY <1>2, WorkerKeepsTypes
  <1>3. ASSUME NEW r \in Runs, RouteStep(r) \/ PersonStep(r) \/ Ripen(r)
        PROVE  TypeOK' /\ EndingsAreEndings'
    BY <1>3, RunKeepsTypes
  <1>4. CASE Crash
    <2>1. crashes' \in 0 .. MaxCrashes
      BY <1>4, BoundsAssumption DEF Crash
    <2>2. UNCHANGED dbVars
      BY <1>4 DEF Crash
    <2>3. TypeOK'
      BY <1>4, <2>1, <2>2 DEF Crash, dbVars
    <2> QED
      BY <1>4, <2>3 DEF Crash
  <1>5. CASE Recover
    <2>1. queue' \in [Runs -> Rows]
      BY <1>5 DEF Recover, Repaired
    <2>2. status' \in [Runs -> Statuses]
      BY <1>5 DEF Recover
    <2> QED
      BY <1>5, <2>1, <2>2 DEF Recover, workerVars, cancelVars, routeVars
  <1>6. CASE Settled
    BY <1>1, <1>6 DEF Settled
  <1> QED
    BY <1>1, <1>2, <1>3, <1>4, <1>5, <1>6 DEF Next

\* Every variable keeps its type, and no run is ever finished with a status
\* that is not an ending (the debug assertion of `finish`).
THEOREM TypeCorrect == Spec => []TypeOK
  <1>1. TypeOK /\ EndingsAreEndings /\ [Next]_vars => TypeOK' /\ EndingsAreEndings'
    BY NextKeepsTypes
  <1> QED
    BY InitTypes, <1>1, PTL DEF Spec

----------------------------------------------------------------------------
(* What waits is dispatched. *)

\* ComesBack, of one run.
Claimed(r) == \E w \in Workers : job[w] = r /\ pc[w] \in {"claimed", "holding"}

Dispatchable(r) == queue[r] # "none" \/ Claimed(r) \/ requeuing[r]

LEMMA WorkerBringsBack ==
    ASSUME TypeOK, EndingsAreEndings, ComesBack, NEW w \in Workers,
           WorkerStep(w) \/ RateLimited(w), NEW r \in Runs, up', status'[r] \in Waiting
    PROVE  Dispatchable(r)'
  <1> USE DEF TypeOK, Goto, dbVars, workerVars, cancelVars, routeVars
  <1>1. up /\ requeuing' = requeuing
    BY DEF WorkerStep, TaskStep, Claim, Execute, DropClaim, Prepare, CannotStart, PassGate,
          MissGate,
           Register, RateLimited, HoldQueues, StreamEnds, Interrupted, Close,
           ParkForApproval, FinishForgets, FinishWrites
  <1>2. status[r] \in Waiting => Dispatchable(r)
    BY <1>1 DEF ComesBack, Dispatchable, Claimed
  \* The worker's step leaves a run alone unless it is the worker's own.
  <1>3. ASSUME status[r] \in Waiting, queue'[r] = queue[r],
               job[w] = r => pc[w] \notin {"claimed", "holding"},
               \A v \in Workers : v # w => job'[v] = job[v] /\ pc'[v] = pc[v]
        PROVE  Dispatchable(r)'
    BY <1>1, <1>2, <1>3 DEF Dispatchable, Claimed
  <1>4. ASSUME NEW s \in Runs, Claim(w, s) PROVE Dispatchable(r)'
    <2>1. CASE s = r
      BY <1>4, <2>1 DEF Claim, Dispatchable, Claimed
    <2>2. CASE s # r
      BY <1>3, <1>4, <2>2 DEF Claim
    <2> QED
      BY <2>1, <2>2
  <1>5. CASE Execute(w)
    <2>1. job[w] # r
      BY <1>5 DEF Execute
    <2> QED
      BY <1>3, <1>5, <2>1 DEF Execute
  <1>11. CASE DropClaim(w)
    <2>1. job[w] = r => status[r] \notin Waiting
      BY <1>11 DEF DropClaim
    <2> QED
      BY <1>3, <1>11, <2>1 DEF DropClaim
  <1>6. CASE Prepare(w) \/ PassGate(w) \/ ParkForApproval(w)
    <2>1. job[w] \in Runs /\ job[w] # r
      BY <1>6 DEF Prepare, PassGate, ParkForApproval, SetStatus
    <2>2. status'[r] = status[r] /\ queue' = queue /\ job' = job
      BY <1>6, <2>1 DEF Prepare, PassGate, ParkForApproval, SetStatus
    <2>3. \A v \in Workers : v # w => pc'[v] = pc[v]
      BY <1>6 DEF Prepare, PassGate, ParkForApproval
    <2> QED
      BY <1>3, <2>1, <2>2, <2>3
  <1>7. CASE CannotStart(w) \/ MissGate(w) \/ Register(w) \/ StreamEnds(w) \/ Interrupted(w)
             \/ Close(w) \/ FinishForgets(w)
    BY <1>3, <1>7 DEF CannotStart, MissGate, Register, StreamEnds, Interrupted, Close, FinishForgets
  <1>8. CASE RateLimited(w)
    <2>1. CASE job[w] = r
      BY <1>8, <2>1 DEF RateLimited, Dispatchable, Claimed
    <2>2. CASE job[w] # r
      BY <1>3, <1>8, <2>2 DEF RateLimited
    <2> QED
      BY <2>1, <2>2
  <1>9. CASE HoldQueues(w)
    <2>1. CASE job[w] = r
      BY <1>9, <2>1 DEF HoldQueues, Dispatchable
    <2>2. CASE job[w] # r
      BY <1>3, <1>9, <2>2 DEF HoldQueues
    <2> QED
      BY <2>1, <2>2
  <1>10. CASE FinishWrites(w)
    <2>1. job[w] # r
      BY <1>10 DEF FinishWrites, FinishTx, SetStatus, EndingsAreEndings
    <2> QED
      BY <1>3, <1>10, <2>1 DEF FinishWrites, FinishTx, SetStatus
  <1> QED
    BY <1>4, <1>5, <1>6, <1>7, <1>8, <1>9, <1>10, <1>11 DEF WorkerStep, TaskStep

LEMMA RunBringsBack ==
    ASSUME TypeOK, ComesBack, NEW s \in Runs, RouteStep(s) \/ PersonStep(s) \/ Ripen(s),
           NEW r \in Runs, up', status'[r] \in Waiting
    PROVE  Dispatchable(r)'
  <1> USE DEF TypeOK, dbVars, workerVars, cancelVars, routeVars
  <1>1. up /\ Claimed(r)' = Claimed(r)
    BY DEF RouteStep, PersonStep, StopReads, StopSignals, StopForgets, StopWrites,
           Approve, Revise, Requeue, Ripen, Claimed
  <1>2. status[r] \in Waiting => Dispatchable(r)
    BY <1>1 DEF ComesBack, Dispatchable, Claimed
  <1>3. CASE StopReads(s) \/ StopSignals(s) \/ StopForgets(s)
    BY <1>1, <1>2, <1>3 DEF StopReads, StopSignals, StopForgets, Dispatchable
  <1>4. CASE StopWrites(s)
    <2>1. r # s /\ status[r] \in Waiting
      BY <1>4 DEF StopWrites, FinishTx, SetStatus
    <2> QED
      BY <1>1, <1>2, <1>4, <2>1 DEF StopWrites, FinishTx, Dispatchable
  <1>5. CASE Approve(s) \/ Revise(s)
    BY <1>1, <1>2, <1>5 DEF Approve, Revise, Dispatchable
  <1>6. CASE Requeue(s) \/ Ripen(s)
    BY <1>1, <1>2, <1>6 DEF Requeue, Ripen, Dispatchable
  <1> QED
    BY <1>3, <1>4, <1>5, <1>6 DEF RouteStep, PersonStep

LEMMA NextBringsBack ==
    ASSUME TypeOK, EndingsAreEndings, ComesBack, [Next]_vars
    PROVE  ComesBack'
  <1> SUFFICES ASSUME NEW r \in Runs, up', status'[r] \in Waiting
               PROVE  Dispatchable(r)'
    BY DEF ComesBack, Dispatchable, Claimed
  <1>1. CASE UNCHANGED vars
    BY <1>1 DEF vars, dbVars, workerVars, cancelVars, routeVars, ComesBack, Dispatchable, Claimed
  <1>2. ASSUME NEW w \in Workers, WorkerStep(w) \/ RateLimited(w) PROVE Dispatchable(r)'
    BY <1>2, WorkerBringsBack
  <1>3. ASSUME NEW s \in Runs, RouteStep(s) \/ PersonStep(s) \/ Ripen(s) PROVE Dispatchable(r)'
    BY <1>3, RunBringsBack
  <1>4. CASE Crash
    BY <1>4 DEF Crash
  <1>5. CASE Recover
    BY <1>5 DEF Recover, Repaired, Orphaned, Dispatchable, TypeOK
  <1>6. CASE Settled
    BY <1>1, <1>6 DEF Settled
  <1> QED
    BY <1>1, <1>2, <1>3, <1>4, <1>5, <1>6 DEF Next

\* Nothing waits for ever for want of a queue row: not after a hold, an
\* approval, a cancel or a crash between any two of their statements.
THEOREM WaitingRunsComeBack == Spec => []ComesBack
  <1>1. Init => LInv
    BY InitTypes DEF Init, LInv, ComesBack
  <1>2. LInv /\ [Next]_vars => LInv'
    BY NextKeepsTypes, NextBringsBack DEF LInv
  <1>3. LInv => ComesBack
    BY DEF LInv
  <1> QED
    BY <1>1, <1>2, <1>3, PTL DEF Spec

----------------------------------------------------------------------------
(* Endings. *)

LEMMA StepsLeaveEndings ==
    ASSUME TypeOK, [Next]_vars, NEW r \in Runs, status[r] \in Terminal, status'[r] # status[r]
    PROVE  /\ status'[r] = "rate_limited"
           /\ \E w \in Workers : job[w] = r /\ pc[w] = "streaming" /\ pc'[w] = "holding"
  <1> USE DEF TypeOK, dbVars, SetStatus, FinishTx
  <1>1. CASE UNCHANGED vars
    BY <1>1 DEF vars
  <1>2. ASSUME NEW w \in Workers, WorkerStep(w) PROVE FALSE
    BY <1>2 DEF WorkerStep, TaskStep, Claim, Execute, DropClaim, Prepare, CannotStart, PassGate,
           MissGate, Register, HoldQueues, StreamEnds, Interrupted, Close, ParkForApproval,
           FinishForgets, FinishWrites
  <1>3. ASSUME NEW w \in Workers, RateLimited(w)
        PROVE  /\ status'[r] = "rate_limited"
               /\ job[w] = r /\ pc[w] = "streaming" /\ pc'[w] = "holding"
    <2>1. pc[w] = "streaming" /\ pc'[w] = "holding"
      BY <1>3 DEF RateLimited, Goto
    <2>2. job[w] \in Runs /\ status' = [status EXCEPT ![job[w]] = "rate_limited"]
      BY <1>3 DEF RateLimited
    <2> QED
      BY <2>1, <2>2
  <1>4. ASSUME NEW q \in Runs, RouteStep(q) \/ PersonStep(q) \/ Ripen(q) PROVE FALSE
    BY <1>4 DEF RouteStep, PersonStep, StopReads, StopSignals, StopForgets, StopWrites,
           Approve, Revise, Requeue, Ripen
  <1>5. CASE Crash \/ Recover \/ Settled
    BY <1>5 DEF Crash, Recover, Settled, vars, Orphaned
  <1> QED
    BY <1>1, <1>2, <1>3, <1>4, <1>5 DEF Next

\* An ended run changes its status only by the hold of a stream still open:
\* however late a plan is parked, a gate passed, a cancel finished or an approval
\* made, and whatever a crash cut in two.
THEOREM EndingsAreLeftToHolds == Spec => OnlyHoldsRevive
  <1>1. TypeOK /\ [Next]_vars =>
            [\A r \in Runs :
                status[r] \in Terminal /\ status'[r] # status[r] =>
                    /\ status'[r] = "rate_limited"
                    /\ \E w \in Workers : job[w] = r /\ pc[w] = "streaming" /\ pc'[w] = "holding"]_vars
    BY StepsLeaveEndings
  <1> QED
    BY <1>1, TypeCorrect, PTL DEF Spec, OnlyHoldsRevive

----------------------------------------------------------------------------
(* One engine. *)

Active == Places \ {"idle", "claimed"}

\* A worker past the claim works for a run that reads at work, held or ended:
\* nobody can claim a run for which somebody works, but one that is held.
ActiveIsWorking ==
    \A w \in Workers :
        pc[w] \in Active /\ job[w] \notin overrun =>
            status[job[w]] \in {"starting", "running", "rate_limited"} \cup Terminal

OneActive ==
    \A v, w \in Workers :
        pc[v] \in Active /\ pc[w] \in Active /\ job[v] = job[w] /\ job[v] \notin overrun => v = w

DownIsIdle == ~up => \A w \in Workers : pc[w] = "idle"

HeldIsCounted == \A r \in Runs : status[r] = "rate_limited" => holds[r] > 0

NInv ==
    /\ TypeOK
    /\ EndingsAreEndings
    /\ ActiveIsWorking
    /\ OneActive
    /\ DownIsIdle
    /\ HeldIsCounted

\* What most steps may do to statuses and to the workers past the claim.
Quiet ==
    /\ \A r \in Runs : status'[r] # status[r] =>
          status'[r] \in {"starting", "running", "rate_limited"} \cup Terminal
    /\ \A w \in Workers : pc'[w] \in Active => pc[w] \in Active /\ job'[w] = job[w]
    /\ overrun' = overrun

LEMMA QuietKeeps ==
    ASSUME NInv, TypeOK', Quiet
    PROVE  ActiveIsWorking' /\ OneActive'
  <1> USE DEF NInv, Quiet
  <1>1. ASSUME NEW w \in Workers, pc'[w] \in Active, job'[w] \notin overrun'
        PROVE  status'[job'[w]] \in {"starting", "running", "rate_limited"} \cup Terminal
    <2>1. pc[w] \in Active /\ job'[w] = job[w] /\ job[w] \in Runs /\ job[w] \notin overrun
      BY <1>1 DEF TypeOK, Active
    <2>2. status[job[w]] \in {"starting", "running", "rate_limited"} \cup Terminal
      BY <2>1 DEF ActiveIsWorking
    <2> QED
      BY <2>1, <2>2
  <1>2. OneActive'
    BY DEF OneActive
  <1> QED
    BY <1>1, <1>2 DEF ActiveIsWorking

\* The steps that are not quiet: a run is taken up, a plan is put to a person,
\* the person answers.
Answers(r) == Approve(r) \/ Revise(r)

LEMMA WorkerIsQuiet ==
    ASSUME NInv, NEW w \in Workers, WorkerStep(w) \/ RateLimited(w)
    PROVE  Quiet \/ Execute(w) \/ ParkForApproval(w)
  <1> USE DEF NInv, TypeOK, Active, Goto, dbVars, workerVars, Quiet
  <1>1. ASSUME NEW r \in Runs, Claim(w, r) PROVE Quiet
    BY <1>1 DEF Claim
  <1>2. CASE DropClaim(w) \/ CannotStart(w) \/ MissGate(w) \/ Register(w) \/ StreamEnds(w)
             \/ Interrupted(w) \/ Close(w) \/ FinishForgets(w)
    <2>1. status' = status /\ job' = job /\ overrun' = overrun
      BY <1>2 DEF DropClaim, CannotStart, MissGate, Register, StreamEnds, Interrupted, Close,
            FinishForgets
    <2>2. \A v \in Workers : v # w => pc'[v] = pc[v]
      BY <1>2 DEF DropClaim, CannotStart, MissGate, Register, StreamEnds, Interrupted, Close,
            FinishForgets
    <2>3. pc'[w] \in Active => pc[w] \in Active
      BY <1>2 DEF DropClaim, CannotStart, MissGate, Register, StreamEnds, Interrupted, Close,
            FinishForgets
    <2> QED
      BY <2>1, <2>2, <2>3
  <1>3. CASE HoldQueues(w)
    BY <1>3 DEF HoldQueues
  <1>4. CASE RateLimited(w)
    BY <1>4 DEF RateLimited
  <1>5. CASE Prepare(w)
    BY <1>5 DEF Prepare, SetStatus
  <1>6. CASE PassGate(w)
    BY <1>6 DEF PassGate, SetStatus
  <1>7. CASE FinishWrites(w)
    <2>1. outcome[w] \in Terminal
      BY <1>7 DEF FinishWrites, EndingsAreEndings
    <2> QED
      BY <1>7, <2>1 DEF FinishWrites, FinishTx, SetStatus
  <1> QED
    BY <1>1, <1>2, <1>3, <1>4, <1>5, <1>6, <1>7 DEF WorkerStep, TaskStep

LEMMA RunIsQuiet ==
    ASSUME NInv, NEW r \in Runs, RouteStep(r) \/ PersonStep(r) \/ Ripen(r)
    PROVE  Quiet \/ Answers(r)
  <1> USE DEF NInv, TypeOK, dbVars, workerVars, Quiet
  <1>1. CASE StopReads(r) \/ StopSignals(r) \/ StopForgets(r) \/ Requeue(r) \/ Ripen(r)
    BY <1>1 DEF StopReads, StopSignals, StopForgets, Requeue, Ripen
  <1>2. CASE StopWrites(r)
    BY <1>2 DEF StopWrites, FinishTx, SetStatus
  <1> QED
    BY <1>1, <1>2 DEF RouteStep, PersonStep, Answers

LEMMA TakenUpKeeps ==
    ASSUME NInv, NEW w \in Workers, Execute(w)
    PROVE  ActiveIsWorking' /\ OneActive'
  <1> USE DEF NInv, TypeOK
  <1>1. /\ job[w] \in Runs /\ job' = job
        /\ status[job[w]] \in Waiting /\ status'[job[w]] = "starting"
        /\ \A r \in Runs : r # job[w] => status'[r] = status[r]
        /\ \A v \in Workers : v # w => pc'[v] = pc[v]
        /\ overrun \subseteq overrun'
    BY DEF Execute, Goto
  \* Whoever else works for the run, it was held, and is known to be overrun.
  <1>2. ASSUME NEW v \in Workers, pc[v] \in Active, job[v] = job[w], job[w] \notin overrun'
        PROVE  FALSE
    <2>1. job[w] \notin overrun
      BY <1>1, <1>2
    <2>2. status[job[w]] = "rate_limited"
      BY <1>1, <1>2, <2>1 DEF ActiveIsWorking
    <2>3. AtWork(v, job[w])
      BY <1>2 DEF AtWork, Active
    <2> QED
      BY <1>1, <1>2, <2>2, <2>3 DEF Execute
  <1>3. ActiveIsWorking'
    BY <1>1 DEF ActiveIsWorking, Active
  <1>4. OneActive'
    BY <1>1, <1>2 DEF OneActive, Active
  <1> QED
    BY <1>3, <1>4

LEMMA AskedAndAnsweredKeep ==
    ASSUME NInv, (\E w \in Workers : ParkForApproval(w)) \/ (\E r \in Runs : Answers(r))
    PROVE  ActiveIsWorking' /\ OneActive'
  <1> USE DEF NInv, TypeOK, Active, ActiveIsWorking, OneActive, Goto, workerVars
  <1>1. ASSUME NEW w \in Workers, ParkForApproval(w) PROVE ActiveIsWorking' /\ OneActive'
    <2>1. /\ pc[w] \in Active /\ job' = job /\ overrun' = overrun
          /\ \A v \in Workers : pc'[v] \in Active => v # w /\ pc'[v] = pc[v]
      BY <1>1 DEF ParkForApproval
    <2>2. \A r \in Runs : r # job[w] => status'[r] = status[r]
      BY <1>1 DEF ParkForApproval, SetStatus
    <2> QED
      BY <2>1, <2>2
  <1>2. ASSUME NEW r \in Runs, Answers(r) PROVE ActiveIsWorking' /\ OneActive'
    <2>1. job' = job /\ pc' = pc /\ status[r] = "awaiting_approval" /\ overrun' = overrun
      BY <1>2 DEF Answers, Approve, Revise
    <2>2. \A q \in Runs : q # r => status'[q] = status[q]
      BY <1>2 DEF Answers, Approve, Revise
    <2> QED
      BY <2>1, <2>2
  <1> QED
    BY <1>1, <1>2

LEMMA NextKeepsOne ==
    ASSUME NInv, TypeOK', [Next]_vars
    PROVE  ActiveIsWorking' /\ OneActive'
  <1> USE DEF NInv, TypeOK
  <1>1. CASE UNCHANGED vars
    BY <1>1 DEF vars, dbVars, workerVars, ActiveIsWorking, OneActive
  <1>2. ASSUME NEW w \in Workers, WorkerStep(w) \/ RateLimited(w)
        PROVE  ActiveIsWorking' /\ OneActive'
    BY <1>2, WorkerIsQuiet, QuietKeeps, TakenUpKeeps, AskedAndAnsweredKeep
  <1>3. ASSUME NEW r \in Runs, RouteStep(r) \/ PersonStep(r) \/ Ripen(r)
        PROVE  ActiveIsWorking' /\ OneActive'
    BY <1>3, RunIsQuiet, QuietKeeps, AskedAndAnsweredKeep
  <1>4. CASE Crash
    BY <1>4 DEF Crash, Active, ActiveIsWorking, OneActive
  <1>5. CASE Recover
    BY <1>5 DEF Recover, workerVars, DownIsIdle, Active, ActiveIsWorking, OneActive
  <1>6. CASE Settled
    BY <1>1, <1>6 DEF Settled
  <1> QED
    BY <1>1, <1>2, <1>3, <1>4, <1>5, <1>6 DEF Next

LEMMA NextKeepsIdle ==
    ASSUME NInv, [Next]_vars
    PROVE  DownIsIdle'
  <1> USE DEF NInv, DownIsIdle
  <1>1. CASE UNCHANGED vars
    BY <1>1 DEF vars, workerVars
  <1>2. ASSUME NEW w \in Workers, WorkerStep(w) \/ RateLimited(w) PROVE up'
    BY <1>2 DEF WorkerStep, TaskStep, Claim, Execute, DropClaim, Prepare, CannotStart, PassGate,
          MissGate,
           Register, RateLimited, HoldQueues, StreamEnds, Interrupted, Close,
           ParkForApproval, FinishForgets, FinishWrites
  <1>3. ASSUME NEW r \in Runs, RouteStep(r) \/ PersonStep(r) \/ Ripen(r) PROVE UNCHANGED <<up, pc>>
    BY <1>3 DEF RouteStep, PersonStep, StopReads, StopSignals, StopForgets, StopWrites,
           Approve, Revise, Requeue, Ripen, workerVars
  <1>4. CASE Crash \/ Recover
    BY <1>4 DEF Crash, Recover
  <1>5. CASE Settled
    BY <1>1, <1>5 DEF Settled
  <1> QED
    BY <1>1, <1>2, <1>3, <1>4, <1>5 DEF Next

LEMMA NextCountsHolds ==
    ASSUME NInv, [Next]_vars
    PROVE  HeldIsCounted'
  <1> USE DEF NInv, TypeOK, HeldIsCounted, dbVars, SetStatus, FinishTx
  <1>1. CASE UNCHANGED vars
    BY <1>1 DEF vars
  <1>2. ASSUME NEW w \in Workers, RateLimited(w) PROVE HeldIsCounted'
    <2>1. /\ job[w] \in Runs /\ holds[job[w]] \in Nat
          /\ status' = [status EXCEPT ![job[w]] = "rate_limited"]
          /\ holds' = [holds EXCEPT ![job[w]] = @ + 1]
      BY <1>2, BoundsAssumption DEF RateLimited
    <2> QED
      BY <2>1
  <1>3. ASSUME NEW w \in Workers, FinishWrites(w) PROVE HeldIsCounted'
    BY <1>3 DEF FinishWrites, EndingsAreEndings
  <1>4. ASSUME NEW w \in Workers, WorkerStep(w), ~FinishWrites(w) PROVE HeldIsCounted'
    BY <1>4 DEF WorkerStep, TaskStep, Claim, Execute, DropClaim, Prepare, CannotStart, PassGate,
           MissGate, Register, HoldQueues, StreamEnds, Interrupted, Close, ParkForApproval,
           FinishForgets
  <1>5. ASSUME NEW r \in Runs, RouteStep(r) \/ PersonStep(r) \/ Ripen(r) PROVE HeldIsCounted'
    BY <1>5 DEF RouteStep, PersonStep, StopReads, StopSignals, StopForgets, StopWrites,
           Approve, Revise, Requeue, Ripen
  <1>6. CASE Crash \/ Recover \/ Settled
    BY <1>6 DEF Crash, Recover, Settled, vars
  <1> QED
    BY <1>1, <1>2, <1>3, <1>4, <1>5, <1>6 DEF Next

LEMMA Invariance == Spec => []NInv
  <1>1. Init => NInv
    BY InitTypes DEF Init, NInv, ActiveIsWorking, OneActive, DownIsIdle, Active, HeldIsCounted
  <1>2. NInv /\ [Next]_vars => NInv'
    <2> SUFFICES ASSUME NInv, [Next]_vars PROVE NInv'
      OBVIOUS
    <2>1. TypeOK' /\ EndingsAreEndings'
      BY NextKeepsTypes DEF NInv
    <2>2. ActiveIsWorking' /\ OneActive'
      BY <2>1, NextKeepsOne
    <2> QED
      BY <2>1, <2>2, NextKeepsIdle, NextCountsHolds DEF NInv
  <1> QED
    BY <1>1, <1>2, PTL DEF Spec

\* Claims, approvals, revisions, cancels, holds and restarts put a second engine
\* on a run only after the row of a hold was claimed with the held stream open.
THEOREM OneEngineButForHolds == Spec => []OneEngineUnlessOverrun
  <1>1. NInv => OneEngineUnlessOverrun
    <2> SUFFICES ASSUME NInv, NEW r \in Runs, r \notin overrun
                 PROVE  Cardinality(Engines(r)) <= 1
      BY DEF OneEngineUnlessOverrun
    <2>1. \A v, w \in Engines(r) : v = w
      BY DEF NInv, OneActive, Engines, Active
    <2>2. CASE Engines(r) = {}
      BY <2>2, FS_EmptySet
    <2>3. CASE Engines(r) # {}
      <3>1. PICK w : w \in Engines(r)
        BY <2>3
      <3>2. Engines(r) = {w}
        BY <2>1, <3>1
      <3> QED
        BY <3>2, FS_Singleton
    <2> QED
      BY <2>2, <2>3
  <1> QED
    BY <1>1, Invariance, PTL

----------------------------------------------------------------------------
(* The refinement. *)

PromiseVars == <<Phase, Held, overrun>>

\* One status written is one phase moved.
LEMMA PhaseMoves ==
    ASSUME TypeOK, NEW x \in Runs, NEW s, status' = [status EXCEPT ![x] = s]
    PROVE  Phase' = [Phase EXCEPT ![x] = PhaseOf(s)]
  <1>1. ASSUME NEW r \in Runs
        PROVE  status'[r] = IF r = x THEN s ELSE status[r]
    BY DEF TypeOK
  <1>2. Phase' = [r \in Runs |-> PhaseOf(IF r = x THEN s ELSE status[r])]
    BY <1>1 DEF Phase
  <1> QED
    BY <1>2 DEF Phase

LEMMA Phases ==
    ASSUME TypeOK, NEW r \in Runs
    PROVE  /\ Phase[r] = "waiting" <=> status[r] \in Waiting
           /\ Phase[r] = "working" <=> status[r] \in {"starting", "running"}
           /\ Phase[r] = "asking" <=> status[r] = "awaiting_approval"
           /\ Phase[r] = "ended" <=> status[r] \in Terminal
           /\ Phase[r] \in {"waiting", "working", "asking", "ended"}
  BY DEF TypeOK, Phase, PhaseOf

LEMMA PhaseNames ==
    /\ PhaseOf("starting") = "working" /\ PhaseOf("running") = "working"
    /\ PhaseOf("awaiting_approval") = "asking"
    /\ PhaseOf("queued") = "waiting" /\ PhaseOf("rate_limited") = "waiting"
  BY DEF PhaseOf

\* A worker that writes what its run has come to.
LEMMA WritesOrLeaves ==
    ASSUME TypeOK, NEW x \in Runs, NEW s, SetStatus(x, s)
    PROVE  \/ status[x] \in Terminal /\ status' = status
           \/ status[x] \notin Terminal /\ status' = [status EXCEPT ![x] = s]
  BY DEF SetStatus, TypeOK

LEMMA WorkIsPromised ==
    ASSUME NInv, NEW w \in Workers, Prepare(w) \/ PassGate(w)
    PROVE  [Promise!Next]_PromiseVars
  <1> DEFINE x == job[w]
  <1>1. /\ x \in Runs /\ TypeOK /\ overrun' = overrun /\ holds' = holds
        /\ SetStatus(x, "starting") \/ SetStatus(x, "running")
        /\ x \notin overrun => status[x] # "awaiting_approval"
    BY DEF NInv, TypeOK, Prepare, PassGate, ActiveIsWorking, Active
  <1>2. Held' = Held
    BY <1>1 DEF Held
  <1>3. CASE status' = status
    BY <1>1, <1>2, <1>3 DEF Phase, PromiseVars
  <1>4. CASE status' # status
    <2>1. status[x] \notin Terminal /\ Phase' = [Phase EXCEPT ![x] = "working"]
      BY <1>1, <1>4, WritesOrLeaves, PhaseMoves, PhaseNames
    <2>2. CASE Phase[x] = "working"
      BY <1>1, <1>2, <2>1, <2>2 DEF Phase, PromiseVars
    <2>3. CASE Phase[x] = "waiting"
      BY <1>1, <1>2, <2>1, <2>3 DEF Promise!Next, Promise!Start, Promise!Enters
    <2>4. CASE Phase[x] = "asking"
      <3>1. x \in overrun
        BY <1>1, <2>4, Phases
      <3> QED
        BY <1>1, <1>2, <2>1, <2>4, <3>1 DEF Promise!Next, Promise!Wander, Promise!Enters
    <2> QED
      BY <1>1, <2>1, <2>2, <2>3, <2>4, Phases
  <1> QED
    BY <1>3, <1>4

LEMMA HoldIsPromised ==
    ASSUME NInv, NEW w \in Workers, RateLimited(w)
    PROVE  Promise!Next
  <1> DEFINE x == job[w]
  <1>1. /\ x \in Runs /\ TypeOK /\ overrun' = overrun
        /\ status' = [status EXCEPT ![x] = "rate_limited"]
        /\ holds' = [holds EXCEPT ![x] = @ + 1]
        /\ x \notin overrun =>
              status[x] \in {"starting", "running", "rate_limited"} \cup Terminal
        /\ status[x] = "rate_limited" => x \in Held
    BY DEF NInv, TypeOK, RateLimited, ActiveIsWorking, Active, HeldIsCounted, Held
  <1>2. holds \in [Runs -> Nat]
    BY <1>1, BoundsAssumption DEF TypeOK
  <1>3. Held' = Held \cup {x}
    BY <1>1, <1>2 DEF Held
  <1>4. Phase' = [Phase EXCEPT ![x] = "waiting"]
    <2>1. Phase' = [Phase EXCEPT ![x] = PhaseOf("rate_limited")]
      BY <1>1, PhaseMoves
    <2> QED
      BY <2>1, PhaseNames
  <1>5. Phase[x] \in {"working", "ended"} \/ x \in overrun \/ (Phase[x] = "waiting" /\ x \in Held)
    BY <1>1, Phases
  <1> QED
    BY <1>1, <1>3, <1>4, <1>5 DEF Promise!Next, Promise!Hold, Promise!Enters

LEMMA PlanIsPromised ==
    ASSUME NInv, NEW w \in Workers, ParkForApproval(w)
    PROVE  [Promise!Next]_PromiseVars
  <1> DEFINE x == job[w]
  <1>1. /\ x \in Runs /\ TypeOK /\ overrun' = overrun /\ holds' = holds
        /\ SetStatus(x, "awaiting_approval")
        /\ x \notin overrun =>
              status[x] \in {"starting", "running", "rate_limited"} \cup Terminal
        /\ status[x] = "rate_limited" => x \in Held
    BY DEF NInv, TypeOK, ParkForApproval, ActiveIsWorking, Active, HeldIsCounted, Held
  <1>2. Held' = Held
    BY <1>1 DEF Held
  <1>3. CASE status' = status
    BY <1>1, <1>2, <1>3 DEF Phase, PromiseVars
  <1>4. CASE status' # status
    <2>1. status[x] \notin Terminal /\ Phase' = [Phase EXCEPT ![x] = "asking"]
      BY <1>1, <1>4, WritesOrLeaves, PhaseMoves, PhaseNames
    <2>2. CASE x \in overrun
      BY <1>1, <1>2, <2>1, <2>2, Phases DEF Promise!Next, Promise!Wander, Promise!Enters
    <2>3. CASE x \notin overrun
      <3>1. Phase[x] = "working" \/ (Phase[x] = "waiting" /\ x \in Held)
        BY <1>1, <2>1, <2>3, Phases
      <3> QED
        BY <1>1, <1>2, <2>1, <3>1 DEF Promise!Next, Promise!Ask, Promise!Enters
    <2> QED
      BY <2>2, <2>3
  <1> QED
    BY <1>3, <1>4

LEMMA StartIsPromised ==
    ASSUME NInv, NEW w \in Workers, Execute(w)
    PROVE  Promise!Next
  <1> DEFINE x == job[w]
  <1>1. /\ x \in Runs /\ TypeOK /\ holds' = holds
        /\ status[x] \in Waiting
        /\ status' = [status EXCEPT ![x] = "starting"]
        /\ status[x] = "rate_limited" => x \in Held
    BY DEF NInv, TypeOK, Execute, HeldIsCounted, Held
  <1>2. overrun' = overrun \/ (x \in Held /\ overrun' = overrun \cup {x})
    BY <1>1 DEF Execute
  <1>3. Held' = Held
    BY <1>1 DEF Held
  <1>4. Phase' = [Phase EXCEPT ![x] = "working"] /\ Phase[x] = "waiting"
    <2>1. Phase' = [Phase EXCEPT ![x] = PhaseOf("starting")]
      BY <1>1, PhaseMoves
    <2>2. Phase[x] = "waiting"
      BY <1>1, Phases
    <2> QED
      BY <2>1, <2>2, PhaseNames
  <1> QED
    BY <1>1, <1>2, <1>3, <1>4 DEF Promise!Next, Promise!Start, Promise!Enters

LEMMA AnswerIsPromised ==
    ASSUME NInv, NEW r \in Runs, Answers(r)
    PROVE  Promise!Next
  <1>1. /\ TypeOK /\ holds' = holds /\ overrun' = overrun
        /\ status[r] = "awaiting_approval"
        /\ status' = [status EXCEPT ![r] = "queued"]
    BY DEF NInv, Answers, Approve, Revise
  <1>2. Held' = Held
    BY <1>1 DEF Held
  <1>3. Phase' = [Phase EXCEPT ![r] = "waiting"] /\ Phase[r] = "asking"
    <2>1. Phase' = [Phase EXCEPT ![r] = PhaseOf("queued")]
      BY <1>1, PhaseMoves
    <2>2. Phase[r] = "asking"
      BY <1>1, Phases
    <2> QED
      BY <2>1, <2>2, PhaseNames
  <1> QED
    BY <1>1, <1>2, <1>3 DEF Promise!Next, Promise!Answer, Promise!Enters

\* Runs come to an end, one or, with the server, all that were executed.
LEMMA EndsArePromised ==
    ASSUME TypeOK, TypeOK', holds' = holds, overrun' = overrun,
           \A r \in Runs : status'[r] # status[r] =>
               status[r] \notin Terminal /\ status'[r] \in Terminal
    PROVE  Promise!Next
  <1> DEFINE S == {r \in Runs : status'[r] # status[r]}
  <1>1. S \in SUBSET {r \in Runs : Phase[r] # "ended"}
    BY Phases
  <1>2. ASSUME NEW r \in Runs
        PROVE  PhaseOf(status'[r]) = IF r \in S THEN "ended" ELSE PhaseOf(status[r])
    BY DEF PhaseOf
  <1>3. Phase' = [r \in Runs |-> IF r \in S THEN "ended" ELSE Phase[r]]
    BY <1>2 DEF Phase
  <1>4. Held' = Held
    BY DEF Held
  <1> QED
    BY <1>1, <1>3, <1>4 DEF Promise!Next, Promise!End

LEMMA StepIsPromised ==
    ASSUME NInv, TypeOK', [Next]_vars
    PROVE  [Promise!Next]_PromiseVars
  <1>0. TypeOK
    BY DEF NInv
  <1>1. ASSUME UNCHANGED <<status, holds, overrun>> PROVE UNCHANGED PromiseVars
    BY <1>1 DEF PromiseVars, Phase, Held
  <1>2. CASE UNCHANGED vars
    BY <1>1, <1>2 DEF vars, dbVars
  <1>3. ASSUME NEW w \in Workers, WorkerStep(w) \/ RateLimited(w)
        PROVE  [Promise!Next]_PromiseVars
    <2>1. CASE Execute(w)
      BY <2>1, StartIsPromised
    <2>2. CASE Prepare(w) \/ PassGate(w)
      BY <2>2, WorkIsPromised
    <2>3. CASE RateLimited(w)
      BY <2>3, HoldIsPromised
    <2>4. CASE ParkForApproval(w)
      BY <2>4, PlanIsPromised
    <2>5. CASE FinishWrites(w)
      <3>1. outcome[w] \in Terminal /\ job[w] \in Runs /\ holds' = holds /\ overrun' = overrun
        BY <2>5 DEF FinishWrites, NInv, TypeOK, EndingsAreEndings
      <3>2. \A r \in Runs : status'[r] # status[r] =>
               status[r] \notin Terminal /\ status'[r] \in Terminal
        BY <1>0, <2>5, <3>1 DEF FinishWrites, FinishTx, SetStatus, TypeOK
      <3> QED
        BY <1>0, <3>1, <3>2, EndsArePromised
    <2>6. CASE ~(Execute(w) \/ Prepare(w) \/ PassGate(w) \/ RateLimited(w) \/ ParkForApproval(w)
                 \/ FinishWrites(w))
      <3>1. UNCHANGED <<status, holds, overrun>>
        BY <1>3, <2>6 DEF WorkerStep, TaskStep, Claim, DropClaim, CannotStart, MissGate,
              Register, HoldQueues, StreamEnds, Interrupted, Close, FinishForgets, dbVars
      <3> QED
        BY <1>1, <3>1
    <2> QED
      BY <2>1, <2>2, <2>3, <2>4, <2>5, <2>6
  <1>4. ASSUME NEW r \in Runs, RouteStep(r) \/ PersonStep(r) \/ Ripen(r)
        PROVE  [Promise!Next]_PromiseVars
    <2>1. CASE Answers(r)
      BY <2>1, AnswerIsPromised
    <2>2. CASE StopWrites(r)
      <3>1. holds' = holds /\ overrun' = overrun
        BY <2>2 DEF StopWrites
      <3>2. \A q \in Runs : status'[q] # status[q] =>
               status[q] \notin Terminal /\ status'[q] \in Terminal
        BY <1>0, <2>2 DEF StopWrites, FinishTx, SetStatus, TypeOK
      <3> QED
        BY <1>0, <3>1, <3>2, EndsArePromised
    <2>3. CASE ~(Answers(r) \/ StopWrites(r))
      <3>1. UNCHANGED <<status, holds, overrun>>
        BY <1>4, <2>3 DEF RouteStep, PersonStep, StopReads, StopSignals, StopForgets, Requeue,
              Ripen, Answers, dbVars
      <3> QED
        BY <1>1, <3>1
    <2> QED
      BY <2>1, <2>2, <2>3
  <1>5. CASE Crash
    <2>1. Phase' = Phase /\ Held' = Held /\ overrun' = {}
      BY <1>5 DEF Crash, dbVars, Phase, Held
    <2> QED
      BY <2>1 DEF Promise!Next, Promise!Down
  <1>6. CASE Recover
    <2>1. holds' = holds /\ overrun' = overrun
      BY <1>6 DEF Recover
    <2>2. \A r \in Runs : status'[r] # status[r] =>
               status[r] \notin Terminal /\ status'[r] \in Terminal
      BY <1>0, <1>6 DEF Recover, Orphaned, TypeOK
    <2> QED
      BY <1>0, <2>1, <2>2, EndsArePromised
  <1>7. CASE Settled
    BY <1>2, <1>7 DEF Settled
  <1> QED
    BY <1>2, <1>3, <1>4, <1>5, <1>6, <1>7 DEF Next

\* Workers, routes, rate limits, crashes and recovery together implement
\* RunPromise.
THEOREM PromiseIsKept == Spec => KeepsPromise
  <1>1. Init => Promise!Init
    <2>1. Init => Phase = [r \in Runs |-> "waiting"]
      BY PhaseNames DEF Init, Phase
    <2>2. Init => Held = {}
      BY DEF Init, Held
    <2> QED
      BY <2>1, <2>2 DEF Init, Promise!Init
  <1>2. NInv /\ NInv' /\ [Next]_vars => [Promise!Next]_PromiseVars
    BY StepIsPromised DEF NInv
  <1>3. PromiseVars = Promise!vars
    BY DEF PromiseVars, Promise!vars
  <1> QED
    BY <1>1, <1>2, <1>3, Invariance, PTL DEF Spec, KeepsPromise, Promise!Spec, PromiseVars, Promise!vars

=============================================================================
