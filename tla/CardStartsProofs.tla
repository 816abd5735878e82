-------------------------- MODULE CardStartsProofs --------------------------
(***************************************************************************)
(* What CardStarts keeps for any number of runs, calls and restarts: its   *)
(* types, that a hand-off is claimed only when its run has ended, and,     *)
(* until a resume has added a run: one live run, and one engine beside     *)
(* those that no stop reaches.                                             *)
(***************************************************************************)
EXTENDS CardStarts, TLAPS

\* What a run's row and its status say of the task that executes it.
RowsAreIdle == \A r \in queue : task[r] = "idle" /\ status[r] \in Ended \cup {"queued"}

TasksHaveRuns ==
    \A r \in Runs :
        /\ status[r] \in {"none", "asking"} => task[r] = "idle"
        /\ task[r] = "preparing" => status[r] \in Ended \cup {"working"}
        /\ task[r] \in {"opening", "streaming"} =>
              status[r] = "working" \/ (status[r] \in Ended /\ r \in unheard)

\* A run that a door has read exists.
DoorsKnowRuns ==
    /\ handoff # NoRun => status[handoff] # "none"
    /\ \A d \in Doors : pc[d] \in {"recording", "stopping", "queueing", "counting", "claiming"} =>
          run[d] \in Runs /\ status[run[d]] # "none"

\* A run whose row is still to be written is nobody else's.
AddedIsIdle ==
    /\ \A d \in Doors : pc[d] = "queueing" =>
          /\ run[d] \notin queue
          /\ task[run[d]] = "idle"
          /\ status[run[d]] \in Ended \cup {"queued"}
    /\ \A d, e \in Doors : pc[d] = "queueing" /\ pc[e] = "queueing" /\ run[d] = run[e] => d = e

ClaimingIsEnded == \A d \in Doors : pc[d] = "claiming" => status[run[d]] \in Ended

RunsInv == RowsAreIdle /\ TasksHaveRuns
CInv == TypeOK /\ RunsInv /\ DoorsKnowRuns /\ AddedIsIdle /\ ClaimingIsEnded

USE DEF Ended, Busy, Statuses, Calls, Places, tally

----------------------------------------------------------------------------
(* Stopping runs. *)

LEMMA StopMoves ==
    ASSUME TypeOK, NEW R \in SUBSET Runs, Stop(R)
    PROVE  /\ status' \in [Runs -> Statuses]
           /\ queue' \subseteq queue
           /\ \A r \in Runs :
                 /\ status'[r] # status[r] => Live(r) /\ status'[r] = "canceled"
                 /\ task[r] = "streaming" => status'[r] = status[r]
                 /\ task[r] = "opening" /\ status'[r] # status[r] => r \in unheard'
           /\ unheard \subseteq unheard' /\ unheard' \subseteq Runs
  BY DEF Stop, Misses, TypeOK, Live

----------------------------------------------------------------------------
(* The steps of runs and people. *)

\* No door moves; an ending stays, and nothing comes to exist.
RunsOnly ==
    /\ UNCHANGED <<handoff, summaries, lock, call, pc, run, restarts, resumed>>
    /\ \A r \in Runs :
          /\ status[r] # "none" => status'[r] # "none"
          /\ status[r] \in Ended => status'[r] = status[r]
          /\ ~Live(r) => ~Live(r)'

LEMMA RunSteps ==
    ASSUME CInv, NEW r \in Runs, RunStep(r) \/ PersonStep(r)
    PROVE  TypeOK' /\ RunsInv' /\ RunsOnly /\ AddedIsIdle'
  <1> USE DEF CInv, TypeOK, RunsInv, RowsAreIdle, TasksHaveRuns, AddedIsIdle, RunsOnly,
              Live, Become, Turn, End, doorVars, cardVars
  <1>a. \A d \in Doors : pc[d] = "queueing" => run[d] \in Runs
    BY DEF DoorsKnowRuns
  <1>1. CASE Claim(r)
    <2>1. \A d \in Doors : pc[d] = "queueing" => run[d] # r
      BY <1>1 DEF Claim
    <2> QED
      BY <1>1, <1>a, <2>1 DEF Claim
  <1>2. CASE Execute(r)
    <2>1. \A d \in Doors : pc[d] = "queueing" => run[d] # r
      BY <1>2 DEF Execute
    <2> QED
      BY <1>2, <1>a, <2>1 DEF Execute
  <1>3. CASE PassGate(r)
    BY <1>3 DEF PassGate
  <1>4. CASE MissGate(r)
    BY <1>4 DEF MissGate, Closes
  <1>5. CASE StreamEnds(r)
    BY <1>5 DEF StreamEnds, Closes
  <1>6. CASE ParkPlan(r)
    BY <1>6 DEF ParkPlan, Closes
  <1>7. CASE PostWorkEnds(r)
    BY <1>7 DEF PostWorkEnds
  <1>8. CASE Cancel(r)
    <2>1. {r} \in SUBSET Runs /\ Stop({r})
      BY <1>8 DEF Cancel
    <2> HIDE DEF CInv, Live
    <2>2. /\ status' \in [Runs -> Statuses]
          /\ queue' \subseteq queue
          /\ \A s \in Runs :
                /\ status'[s] # status[s] => Live(s) /\ status'[s] = "canceled"
                /\ task[s] = "streaming" => status'[s] = status[s]
                /\ task[s] = "opening" /\ status'[s] # status[s] => s \in unheard'
          /\ unheard \subseteq unheard' /\ unheard' \subseteq Runs
      BY <2>1, StopMoves DEF CInv
    <2> QED
      BY <1>8, <1>a, <2>2 DEF Cancel, CInv, Live
  <1>9. CASE Approve(r)
    BY <1>9 DEF Approve
  <1>10. CASE Register(r)
    BY <1>10 DEF Register
  <1> QED
    BY <1>1, <1>2, <1>3, <1>4, <1>5, <1>6, <1>7, <1>8, <1>9, <1>10 DEF RunStep, PersonStep

----------------------------------------------------------------------------
(* The steps of doors. *)

\* No task moves, and each run is as it was, is created or is stopped.
DoorsOnly ==
    /\ UNCHANGED task
    /\ \A r \in Runs :
          \/ status'[r] = status[r]
          \/ status[r] = "none" /\ status'[r] = "queued"
          \/ Live(r) /\ status'[r] = "canceled" /\ task[r] # "streaming"

\* Every other door stands still.
OthersWait(d) ==
    \A e \in Doors : e # d => pc'[e] = pc[e] /\ run'[e] = run[e] /\ call'[e] = call[e]

LEMMA CallSteps ==
    ASSUME CInv, NEW d \in Doors, CallStep(d)
    PROVE  CInv' /\ UNCHANGED <<cardVars, task, lock>> /\ OthersWait(d)
  <1> USE DEF CInv, TypeOK, RunsInv, RowsAreIdle, TasksHaveRuns, AddedIsIdle, DoorsKnowRuns,
              ClaimingIsEnded, OthersWait, Enters, cardVars
  <1>1. CASE Start(d)
    BY <1>1 DEF Start
  <1>2. CASE Settle(d)
    BY <1>2 DEF Settle
  <1>3. ASSUME NEW r \in Runs, Summarize(d, r) \/ Resume(d, r) \/ HandOver(d, r)
        PROVE  CInv' /\ UNCHANGED <<cardVars, task, lock>> /\ OthersWait(d)
    BY <1>3 DEF Summarize, Resume, HandOver
  <1> QED
    BY <1>1, <1>2, <1>3 DEF CallStep

LEMMA DoorSteps ==
    ASSUME CInv, NEW d \in Doors, Lock(d) \/ DoorStep(d)
    PROVE  CInv' /\ DoorsOnly /\ OthersWait(d)
  <1> USE DEF CInv, TypeOK, RunsInv, RowsAreIdle, TasksHaveRuns, AddedIsIdle, DoorsKnowRuns,
              ClaimingIsEnded, OthersWait, DoorsOnly, Goto, Return, cardVars
  <1>1. CASE Supersede(d)
    <2> DEFINE S == {r \in summaries : Live(r)}
    <2>1. S \in SUBSET Runs /\ Stop(S)
      BY <1>1 DEF Supersede
    <2>2. /\ status' \in [Runs -> Statuses]
          /\ queue' \subseteq queue
          /\ \A s \in Runs :
                /\ status'[s] # status[s] => Live(s) /\ status'[s] = "canceled"
                /\ task[s] = "streaming" => status'[s] = status[s]
                /\ task[s] = "opening" /\ status'[s] # status[s] => s \in unheard'
          /\ unheard \subseteq unheard' /\ unheard' \subseteq Runs
      BY <2>1, StopMoves
    <2> HIDE DEF S
    <2> QED
      BY <1>1, <2>2 DEF Supersede, Live
  <1>2. CASE Lock(d) \/ Check(d) \/ Refuse(d) \/ AddFails(d) \/ Record(d)
    BY <1>2 DEF Lock, Check, Refuse, AddFails, Record
  <1>3. CASE Look(d)
    BY <1>3 DEF Look
  <1>4. CASE AddQueues(d)
    BY <1>4 DEF AddQueues
  <1>5. CASE HandStops(d)
    <2>1. {run[d]} \in SUBSET Runs /\ Stop({run[d]})
      BY <1>5 DEF HandStops
    <2>2. /\ status' \in [Runs -> Statuses]
          /\ queue' \subseteq queue
          /\ \A s \in Runs :
                /\ status'[s] # status[s] => Live(s) /\ status'[s] = "canceled"
                /\ task[s] = "streaming" => status'[s] = status[s]
                /\ task[s] = "opening" /\ status'[s] # status[s] => s \in unheard'
          /\ unheard \subseteq unheard' /\ unheard' \subseteq Runs
      BY <2>1, StopMoves
    <2> QED
      BY <1>5, <2>2 DEF HandStops, Live
  <1>6. CASE Count(d)
    BY <1>6 DEF Count, Live
  <1>7. CASE ClaimHandoff(d) \/ DropHandoff(d)
    BY <1>7 DEF ClaimHandoff, DropHandoff, Opens
  <1>8. ASSUME NEW r \in Runs, Insert(d, r) PROVE CInv' /\ DoorsOnly /\ OthersWait(d)
    BY <1>8 DEF Insert, Fresh, Become
  <1>9. ASSUME NEW r \in Runs, Add(d, r) PROVE CInv' /\ DoorsOnly /\ OthersWait(d)
    BY <1>9 DEF Add, Fresh, Become
  <1> QED
    BY <1>1, <1>2, <1>3, <1>4, <1>5, <1>6, <1>7, <1>8, <1>9 DEF DoorStep

----------------------------------------------------------------------------
(* The invariant, and the hand-off that waits. *)

LEMMA InitKeeps == Init => CInv
  <1> SUFFICES ASSUME Init PROVE CInv
    OBVIOUS
  <1> USE DEF Init
  <1>1. \A r \in Runs : status[r] \in {"none", "completed"} /\ task[r] = "idle"
    OBVIOUS
  <1>2. TypeOK
    <2>1. status \in [Runs -> Statuses]
      OBVIOUS
    <2>2. restarts \in 0 .. MaxRestarts
      BY RestartsAssumption
    <2>3. handoff \in Runs \cup {NoRun}
      BY RunsAssumption
    <2> QED
      BY <2>1, <2>2, <2>3 DEF TypeOK
  <1>3. RunsInv
    BY <1>1 DEF RunsInv, RowsAreIdle, TasksHaveRuns
  <1>4. AddedIsIdle /\ ClaimingIsEnded
    BY DEF AddedIsIdle, ClaimingIsEnded
  <1>5. DoorsKnowRuns
    <2>1. handoff # NoRun => status[handoff] = "completed"
      BY RunsAssumption
    <2> QED
      BY <2>1 DEF DoorsKnowRuns
  <1> QED
    BY <1>2, <1>3, <1>4, <1>5 DEF CInv

LEMMA NextKeeps ==
    ASSUME CInv, [Next]_vars
    PROVE  CInv'
  <1>1. CASE UNCHANGED vars
    BY <1>1 DEF vars, cardVars, doorVars, tally, CInv, TypeOK, RunsInv, RowsAreIdle, TasksHaveRuns,
                AddedIsIdle, DoorsKnowRuns, ClaimingIsEnded
  <1>2. ASSUME NEW r \in Runs, RunStep(r) \/ PersonStep(r) PROVE CInv'
    <2>1. TypeOK' /\ RunsInv' /\ RunsOnly /\ AddedIsIdle'
      BY <1>2, RunSteps
    <2> QED
      BY <2>1 DEF CInv, RunsOnly, DoorsKnowRuns, ClaimingIsEnded, TypeOK
  <1>3. ASSUME NEW d \in Doors, CallStep(d) PROVE CInv'
    BY <1>3, CallSteps
  <1>4. ASSUME NEW d \in Doors, Lock(d) \/ DoorStep(d) PROVE CInv'
    BY <1>4, DoorSteps
  <1>5. CASE Restart
    BY <1>5, RestartsAssumption
       DEF Restart, CInv, TypeOK, RunsInv, RowsAreIdle, TasksHaveRuns, AddedIsIdle, DoorsKnowRuns,
           ClaimingIsEnded
  <1> QED
    BY <1>1, <1>2, <1>3, <1>4, <1>5 DEF Next

\* Every variable keeps its type.
THEOREM TypeCorrect == Spec => []TypeOK
  <1>1. CInv => TypeOK
    BY DEF CInv
  <1> QED
    BY InitKeeps, NextKeeps, <1>1, PTL DEF Spec

LEMMA ClaimWaits ==
    ASSUME CInv, [Next]_vars,
           NEW d \in Doors, pc[d] = "claiming", pc'[d] = "superseding", run[d] = handoff
    PROVE  status[handoff] \in Ended /\ (task[handoff] = "streaming" => handoff \in unheard)
  <1>1. status[handoff] \in Ended /\ handoff \in Runs
    BY DEF CInv, ClaimingIsEnded, DoorsKnowRuns
  <1> QED
    BY <1>1 DEF CInv, RunsInv, TasksHaveRuns

\* A settle that claims the hand-off it has read finds its run ended and its
\* engine gone, or deaf to the stop that ended it, whatever the other doors do between its reads and its claim,
\* resumes of dead runs included: an ending is never taken back.
THEOREM HandoffsWait == Spec => HandoffWaits
  <1>1. CInv /\ [Next]_vars =>
          [\A d \in Doors :
             pc[d] = "claiming" /\ pc'[d] = "superseding" /\ run[d] = handoff
                 => /\ status[handoff] \in Ended
                    /\ task[handoff] = "streaming" => handoff \in unheard]_vars
    BY ClaimWaits
  <1> QED
    BY InitKeeps, NextKeeps, <1>1, PTL DEF Spec, HandoffWaits

----------------------------------------------------------------------------
(* One live run, until a resume has added one. *)

LockIsHeld == \A d \in Doors : pc[d] \in {"checking", "inserting"} <=> lock = d

\* Between its check and its insert a door is alone with the card.
InsertingIsAlone == \A d \in Doors : pc[d] = "inserting" => \A r \in Runs : ~Live(r)

Alone == InsertingIsAlone /\ OneLiveRun

OInv == CInv /\ LockIsHeld /\ (resumed \/ Alone)

LEMMA InitIsAlone == Init => OInv
  <1>1. Init => LockIsHeld /\ InsertingIsAlone /\ OneLiveRun
    BY DoorsAssumption DEF Init, LockIsHeld, InsertingIsAlone, OneLiveRun, Live
  <1> QED
    BY <1>1, InitKeeps DEF OInv, Alone

\* The doors keep to the lock.
LEMMA DoorsKeepLock ==
    ASSUME OInv, NEW d \in Doors, CallStep(d) \/ Lock(d) \/ DoorStep(d)
    PROVE  LockIsHeld'
  <1> USE DoorsAssumption
      DEF OInv, CInv, TypeOK, LockIsHeld, Goto, Return, Enters, doorVars
  <1>1. CASE CallStep(d)
    BY <1>1 DEF CallStep, Start, Settle, Summarize, Resume, HandOver
  <1>2. CASE Lock(d)
    BY <1>2 DEF Lock
  <1>3. CASE Supersede(d) \/ Check(d) \/ Refuse(d)
    BY <1>3 DEF Supersede, Check, Refuse
  <1>4. CASE Look(d) \/ AddQueues(d) \/ AddFails(d) \/ \E r \in Runs : Add(d, r)
    BY <1>4 DEF Look, AddQueues, AddFails, Add
  <1>5. CASE Record(d) \/ HandStops(d)
    BY <1>5 DEF Record, HandStops
  <1>6. CASE Count(d) \/ ClaimHandoff(d) \/ DropHandoff(d)
    BY <1>6 DEF Count, ClaimHandoff, DropHandoff, Opens
  <1>7. CASE \E r \in Runs : Insert(d, r)
    BY <1>7 DEF Insert
  <1> QED
    BY <1>1, <1>2, <1>3, <1>4, <1>5, <1>6, <1>7 DEF DoorStep

\* A door that has resumed nothing added nothing.
LEMMA OnlyAddResumes ==
    ASSUME ~resumed', NEW d \in Doors, Lock(d) \/ DoorStep(d)
    PROVE  ~resumed /\ \A r \in Runs : ~Add(d, r)
  <1>1. \A r \in Runs : ~Add(d, r)
    BY DEF Add
  <1>2. UNCHANGED resumed
    <2>1. CASE \E r \in Runs : Insert(d, r)
      BY <2>1 DEF Insert
    <2>2. CASE Lock(d) \/ Supersede(d) \/ Check(d) \/ Refuse(d) \/ Look(d)
      BY <2>2 DEF Lock, Supersede, Check, Refuse, Look
    <2>3. CASE AddQueues(d) \/ AddFails(d) \/ Record(d) \/ HandStops(d) \/ Count(d)
      BY <2>3 DEF AddQueues, AddFails, Record, HandStops, Count
    <2>4. CASE ClaimHandoff(d) \/ DropHandoff(d)
      BY <2>4 DEF ClaimHandoff, DropHandoff
    <2> QED
      BY <1>1, <2>1, <2>2, <2>3, <2>4 DEF DoorStep
  <1> QED
    BY <1>1, <1>2

\* Only an insert makes a run live, and it finds no other.
LEMMA DoorsStayAlone ==
    ASSUME OInv, ~resumed', NEW d \in Doors, Lock(d) \/ DoorStep(d)
    PROVE  Alone'
  <1> USE DEF OInv, Alone, CInv, TypeOK, InsertingIsAlone, OneLiveRun, Live
  <1>a. ~resumed /\ \A r \in Runs : ~Add(d, r)
    BY OnlyAddResumes
  <1>1. DoorsOnly /\ OthersWait(d)
    BY DoorSteps
  <1>2. CASE \E r \in Runs : Insert(d, r)
    <2>1. PICK r \in Runs : Insert(d, r)
      BY <1>2
    <2>2. \A s \in Runs : s # r => status'[s] = status[s]
      BY <2>1 DEF Insert, Become
    <2>3. \A s \in Runs : ~Live(s)
      BY <2>1 DEF Insert
    <2>4. \A e \in Doors : pc'[e] # "inserting"
      BY <2>1, <1>1 DEF Insert, Return, OthersWait, LockIsHeld
    <2> QED
      BY <1>a, <2>2, <2>3, <2>4
  <1>3. CASE Check(d)
    BY <1>3, <1>1, <1>a DEF Check, Goto, OthersWait, cardVars
  <1>4. CASE ~Check(d) /\ ~(\E r \in Runs : Insert(d, r))
    <2>1. pc'[d] # "inserting"
      BY <1>4 DEF DoorStep, Lock, Supersede, Refuse, Look, AddQueues, AddFails, Record, HandStops,
                  Count, ClaimHandoff, DropHandoff, Opens, Add, Goto, Return
    <2>2. \A r \in Runs : status'[r] # status[r] => Live(r) /\ status'[r] = "canceled"
      <3>1. CASE Supersede(d)
        <4>1. {r \in summaries : Live(r)} \in SUBSET Runs /\ Stop({r \in summaries : Live(r)})
          BY <3>1 DEF Supersede
        <4> QED
          BY <4>1, StopMoves
      <3>2. CASE HandStops(d)
        <4>1. {run[d]} \in SUBSET Runs /\ Stop({run[d]})
          BY <3>2 DEF HandStops, DoorsKnowRuns
        <4> QED
          BY <4>1, StopMoves
      <3>3. CASE status' = status
        BY <3>3
      <3> QED
        BY <1>4, <1>a, <3>1, <3>2, <3>3
           DEF DoorStep, Lock, Refuse, Look, AddQueues, AddFails, Record, Count,
               ClaimHandoff, DropHandoff, cardVars
    <2> QED
      BY <2>1, <2>2, <1>1, <1>a DEF OthersWait
  <1> QED
    BY <1>2, <1>3, <1>4

LEMMA NextStaysAlone ==
    ASSUME OInv, [Next]_vars
    PROVE  OInv'
  <1> USE DEF OInv, Alone
  <1>a. CInv'
    BY NextKeeps
  <1>1. CASE UNCHANGED vars
    BY <1>1, <1>a DEF vars, cardVars, doorVars, tally, LockIsHeld, InsertingIsAlone, OneLiveRun,
          Live
  <1>2. ASSUME NEW r \in Runs, RunStep(r) \/ PersonStep(r) PROVE OInv'
    <2>1. RunsOnly
      BY <1>2, RunSteps
    <2>2. \A s \in Runs : Live(s)' => Live(s)
      BY <2>1 DEF RunsOnly
    <2>3. LockIsHeld'
      BY <2>1 DEF RunsOnly, LockIsHeld
    <2>4. resumed' \/ Alone'
      BY <2>1, <2>2 DEF RunsOnly, tally, InsertingIsAlone, OneLiveRun
    <2> QED
      BY <1>a, <2>3, <2>4
  <1>3. ASSUME NEW d \in Doors, CallStep(d) PROVE OInv'
    <2>1. UNCHANGED <<cardVars, task, lock, resumed>> /\ OthersWait(d) /\ pc'[d] # "inserting"
      BY <1>3, CallSteps
         DEF CallStep, Start, Settle, Summarize, Resume, HandOver, Enters, CInv, TypeOK, tally
    <2>2. resumed' \/ Alone'
      BY <2>1 DEF OthersWait, InsertingIsAlone, OneLiveRun, Live, cardVars
    <2> QED
      BY <1>3, <1>a, <2>2, DoorsKeepLock
  <1>4. ASSUME NEW d \in Doors, Lock(d) \/ DoorStep(d) PROVE OInv'
    BY <1>4, <1>a, DoorsKeepLock, DoorsStayAlone
  <1>5. CASE Restart
    <2>1. LockIsHeld' /\ InsertingIsAlone'
      BY <1>5, DoorsAssumption DEF Restart, LockIsHeld, InsertingIsAlone
    <2>2. OneLiveRun'
      BY <1>5 DEF Restart, OneLiveRun, Live, CInv, TypeOK
    <2> QED
      BY <1>a, <2>1, <2>2
  <1> QED
    BY <1>1, <1>2, <1>3, <1>4, <1>5 DEF Next

\* A card has one live run at most, for any number of calls at once and any
\* restarts, until the one door without the lock has let a run in.
THEOREM OneRunUnlessResumed == Spec => []OneLiveRun
  <1>1. OInv /\ [Next]_vars => OInv'
    BY NextStaysAlone
  <1>2. OInv => OneLiveRun
    BY DEF OInv, Alone, OneLiveRun
  <1> QED
    BY InitIsAlone, <1>1, <1>2, PTL DEF Spec

\* And so no engine works in the card's worktree beside one that can still be
\* told to stop: only the stop that falls between a gate and a registration, and
\* the resume that does not lock, put two engines there.
THEOREM OneEngineButForUnheard == Spec => []OneEngineUnlessUnheard
  <1>1. OInv /\ [Next]_vars => OInv'
    BY NextStaysAlone
  <1>2. OInv => OneEngineUnlessUnheard
    <2> SUFFICES ASSUME OInv, ~resumed, NEW r \in Runs, NEW s \in Runs,
                        task[r] = "streaming", task[s] = "streaming",
                        r \notin unheard, s \notin unheard
                 PROVE  r = s
      BY DEF OneEngineUnlessUnheard
    <2>1. Live(r) /\ Live(s)
      BY DEF OInv, CInv, RunsInv, TasksHaveRuns, Live
    <2> QED
      BY <2>1 DEF OInv, Alone, OneLiveRun
  <1> QED
    BY InitIsAlone, <1>1, <1>2, PTL DEF Spec

=============================================================================
