----------------------- MODULE PermissionBrokerProofs -----------------------
(***************************************************************************)
(* What PermissionBroker keeps for every set of runs and requests and for  *)
(* every budget: its types, the refcount, the loans, the conservation of   *)
(* permits, and that it implements SlotBudget.                             *)
(*                                                                         *)
(* The inductive invariant adds to the properties of PermissionBroker what *)
(* holds between two steps and makes them inductive: a queued run has no   *)
(* task, a live future has an owner, and a loan is counted.  What strands  *)
(* a run, and what tells a prompt that its run is gone, is read off it.    *)
(***************************************************************************)
EXTENDS PermissionBroker, FiniteSetTheorems, TLAPS

\* A task exists for a run that was claimed, and the claim left "queued".
QueuedIsIdle == \A r \in Runs : status[r] = "queued" => task[r] = "idle"

\* A future that is awaited knows its run.
GuardedIsOwned == \A q \in Requests : request[q] \in Guarded => owner[q] \in Runs

\* `lent` lives in the entry `count` counts.
LoanIsCounted == \A r \in Runs : lent[r] => count[r] > 0

\* OnePark, of two requests at a time.
OnTheWay == {"parking", "lending"}

ParksAlone ==
    \A p, o \in Requests :
        request[p] \in OnTheWay =>
            /\ ~lent[owner[p]]
            /\ o # p /\ owner[o] = owner[p] => request[o] \notin OnTheWay

IInv ==
    /\ TypeOK
    /\ QueuedIsIdle
    /\ GuardedIsOwned
    /\ RefcountIsGuards
    /\ LoanIsCounted
    /\ ParksAlone
    /\ SlotConservation

USE DEF Statuses, Terminal, TaskStates, RequestStates, Guarded

----------------------------------------------------------------------------
(* Finite sets. *)

LEMMA GuardsFinite ==
    ASSUME NEW r
    PROVE  IsFiniteSet(Guards(r)) /\ Cardinality(Guards(r)) \in Nat
  <1>1. Guards(r) \subseteq Requests
    BY DEF Guards
  <1>2. IsFiniteSet(Guards(r))
    BY <1>1, RequestsAssumption, FS_Subset
  <1> QED
    BY <1>2, FS_CardinalityType

LEMMA RunSetsFinite ==
    ASSUME NEW S, S \subseteq Runs
    PROVE  IsFiniteSet(S) /\ Cardinality(S) \in Nat
  <1>1. IsFiniteSet(S)
    BY RunsAssumption, FS_Subset
  <1> QED
    BY <1>1, FS_CardinalityType

LEMMA ExtraIsFinite ==
    ASSUME NEW S, S \subseteq Runs \X (1 .. MaxExtra)
    PROVE  IsFiniteSet(S) /\ Cardinality(S) \in Nat
  <1>1. IsFiniteSet(1 .. MaxExtra)
    BY FanOutAssumption, FS_Interval
  <1>2. IsFiniteSet(Runs \X (1 .. MaxExtra))
    BY <1>1, RunsAssumption, FS_Product
  <1>3. IsFiniteSet(S)
    BY <1>2, FS_Subset
  <1> QED
    BY <1>3, FS_CardinalityType

----------------------------------------------------------------------------
(* Types. *)

LEMMA InitTypeOK == Init => TypeOK
  BY MaxConcurrentAssumption, RunsAssumption DEF Init, TypeOK, SlotsInit

LEMMA LoopKeepsTypes ==
    ASSUME TypeOK, LoopStep
    PROVE  TypeOK'
  <1> USE DEF TypeOK, runVars, brokerVars, requestVars, slotVars
  <1>1. CASE LoopAcquire
    BY <1>1 DEF LoopAcquire, Acquire
  <1>2. CASE LoopPayDebt
    BY <1>2 DEF LoopPayDebt, TakeDebt
  <1>3. CASE LoopKeepPermit
    BY <1>3 DEF LoopKeepPermit
  <1>4. CASE LoopFindsNothing
    BY <1>4 DEF LoopFindsNothing, Release
  <1>5. ASSUME NEW r \in Runs, LoopDispatch(r) PROVE TypeOK'
    BY <1>5 DEF LoopDispatch
  <1> QED
    BY <1>1, <1>2, <1>3, <1>4, <1>5 DEF LoopStep

LEMMA TaskKeepsTypes ==
    ASSUME TypeOK, NEW r \in Runs, TaskStep(r) \/ FanOutStep(r) \/ Unpark(r) \/ CancelRun(r)
    PROVE  TypeOK'
  <1> USE DEF TypeOK, runVars, brokerVars, requestVars, slotVars
  <1>1. CASE EngineExits(r)
    BY <1>1 DEF EngineExits
  <1>2. CASE Finish(r)
    BY <1>2 DEF Finish, Ended
  <1>3. CASE TaskEnds(r)
    BY <1>3 DEF TaskEnds, Release
  <1>4. CASE StepStarts(r)
    BY <1>4 DEF StepStarts
  <1>5. ASSUME NEW i \in 1 .. MaxExtra, FanOutBorrows(r, i) PROVE TypeOK'
    BY <1>5 DEF FanOutBorrows, Acquire
  <1>6. ASSUME NEW i \in 1 .. MaxExtra, FanOutReturns(r, i) PROVE TypeOK'
    BY <1>6 DEF FanOutReturns, Release
  <1>7. CASE Unpark(r)
    <2>1. unparks' \in [Runs -> Nat]
      BY <1>7 DEF Unpark
    <2>2. status' \in [Runs -> Statuses]
      BY <1>7 DEF Unpark, Unparked
    <2> QED
      BY <1>7, <2>1, <2>2 DEF Unpark
  <1>8. CASE CancelRun(r)
    BY <1>8 DEF CancelRun
  <1>9. TaskStep(r) => TypeOK'
    BY <1>1, <1>2, <1>3 DEF TaskStep
  <1>10. FanOutStep(r) => TypeOK'
    BY <1>4, <1>5, <1>6 DEF FanOutStep
  <1> QED
    BY <1>7, <1>8, <1>9, <1>10

LEMMA DropKeepsTypes ==
    ASSUME TypeOK, NEW q \in Requests, owner[q] \in Runs, DropGuard(q)
    PROVE  TypeOK'
  <1> USE DEF TypeOK, Goto, slotVars
  <1>1. /\ available' \in Nat /\ debt' \in Nat
        /\ count' \in [Runs -> Nat] /\ lent' \in [Runs -> BOOLEAN]
        /\ unparks' \in [Runs -> Nat] /\ status' \in [Runs -> Statuses]
    <2>1. CASE OneOfMany(owner[q])
      BY <2>1 DEF OneOfMany
    <2>2. CASE LastWithoutLoan(owner[q])
      BY <2>2 DEF LastWithoutLoan
    <2>3. CASE LastSettles(owner[q])
      BY <2>3 DEF LastSettles, Reclaim, Unparked
    <2> QED
      BY <2>1, <2>2, <2>3 DEF DropGuard
  <1> QED
    BY <1>1 DEF DropGuard

LEMMA FutureKeepsTypes ==
    ASSUME TypeOK, GuardedIsOwned, NEW q \in Requests, FutureStep(q) \/ ClientStep(q)
    PROVE  TypeOK'
  <1> USE DEF TypeOK, runVars, brokerVars, requestVars, slotVars, Goto
  <1>1. CASE ParkSucceeds(q)
    BY <1>1 DEF ParkSucceeds
  <1>2. CASE ParkRefused(q)
    BY <1>2 DEF ParkRefused
  <1>3. CASE LendSlot(q)
    <2>1. owner[q] \in Runs
      BY <1>3 DEF LendSlot, GuardedIsOwned
    <2>2. lent' \in [Runs -> BOOLEAN]
      BY <1>3, <2>1 DEF LendSlot
    <2> QED
      BY <1>3, <2>2 DEF LendSlot, Lend
  <1>4. CASE Answered(q)
    BY <1>4 DEF Answered
  <1>5. CASE TimesOut(q)
    BY <1>5 DEF TimesOut
  <1>6. CASE Abandon(q)
    BY <1>6 DEF Abandon, Ended
  <1>7. CASE SignalAbandoned(q)
    BY <1>7 DEF SignalAbandoned
  <1>8. CASE Leave(q) \/ HangUp(q)
    <2>1. owner[q] \in Runs /\ DropGuard(q)
      BY <1>8 DEF Leave, HangUp, GuardedIsOwned
    <2> QED
      BY <2>1, DropKeepsTypes
  <1>9. ASSUME NEW r \in Runs, Ask(q, r) PROVE TypeOK'
    BY <1>9 DEF Ask
  <1> QED
    BY <1>1, <1>2, <1>3, <1>4, <1>5, <1>6, <1>7, <1>8, <1>9 DEF FutureStep, ClientStep

LEMMA ResolveKeepsTypes ==
    ASSUME TypeOK, NEW q \in Requests, NEW a \in {"allow", "deny"}, Resolve(q, a)
    PROVE  TypeOK'
  BY DEF TypeOK, Resolve, runVars, brokerVars, slotVars

LEMMA NextKeepsTypes ==
    ASSUME TypeOK, GuardedIsOwned, [Next]_vars
    PROVE  TypeOK'
  <1>1. CASE UNCHANGED vars
    BY <1>1 DEF TypeOK, vars, runVars, brokerVars, requestVars
  <1>2. CASE LoopStep
    BY <1>2, LoopKeepsTypes
  <1>3. CASE PersonStep
    BY <1>3, ResolveKeepsTypes, TaskKeepsTypes DEF PersonStep
  <1>4. ASSUME NEW r \in Runs, TaskStep(r) \/ FanOutStep(r) \/ Unpark(r) PROVE TypeOK'
    BY <1>4, TaskKeepsTypes
  <1>5. ASSUME NEW q \in Requests, FutureStep(q) \/ ClientStep(q) PROVE TypeOK'
    BY <1>5, FutureKeepsTypes
  <1> QED
    BY <1>1, <1>2, <1>3, <1>4, <1>5 DEF Next

----------------------------------------------------------------------------
(* Steps that leave parts of the state alone. *)

\* The variables the refcount, the loans and the parking of a run read.
futureVars == <<count, lent, request, owner>>

\* The loop, the tasks and the people do not touch the futures.
LEMMA OthersLeaveFutures ==
    ASSUME LoopStep \/ PersonStep
               \/ \E r \in Runs : TaskStep(r) \/ FanOutStep(r) \/ Unpark(r)
    PROVE  UNCHANGED futureVars
  <1> USE DEF futureVars, runVars, brokerVars, requestVars
  <1>1. CASE LoopStep
    BY <1>1 DEF LoopStep, LoopAcquire, LoopPayDebt, LoopKeepPermit, LoopFindsNothing, LoopDispatch
  <1>2. CASE PersonStep
    BY <1>2 DEF PersonStep, CancelRun, Resolve
  <1>3. ASSUME NEW r \in Runs, TaskStep(r) PROVE UNCHANGED futureVars
    BY <1>3 DEF TaskStep, EngineExits, Finish, TaskEnds
  <1>4. ASSUME NEW r \in Runs, FanOutStep(r) PROVE UNCHANGED futureVars
    BY <1>4 DEF FanOutStep, StepStarts, FanOutBorrows, FanOutReturns
  <1>5. ASSUME NEW r \in Runs, Unpark(r) PROVE UNCHANGED futureVars
    BY <1>5 DEF Unpark
  <1> QED
    BY <1>1, <1>2, <1>3, <1>4, <1>5

\* A future between asking and leaving moves from one guarded point to another
\* and stays its run's.
Between(q) ==
    \/ ParkSucceeds(q) \/ ParkRefused(q) \/ LendSlot(q)
    \/ Answered(q) \/ TimesOut(q) \/ Abandon(q) \/ SignalAbandoned(q)

LEMMA BetweenKeepsGuards ==
    ASSUME TypeOK, NEW q \in Requests, Between(q), NEW r
    PROVE  /\ request[q] \in Guarded /\ request'[q] \in Guarded
           /\ owner' = owner
           /\ \A p \in Requests : p # q => request'[p] = request[p]
           /\ Guards(r)' = Guards(r)
           /\ count' = count
  <1> USE DEF TypeOK, Goto, brokerVars
  <1>1. /\ request[q] \in Guarded /\ request'[q] \in Guarded
        /\ owner' = owner
        /\ \A p \in Requests : p # q => request'[p] = request[p]
        /\ count' = count
    BY DEF Between, ParkSucceeds, ParkRefused, LendSlot, Answered, TimesOut, Abandon,
          SignalAbandoned
  <1> QED
    BY <1>1 DEF Guards

LEMMA AskAddsGuard ==
    ASSUME TypeOK, NEW q \in Requests, NEW r \in Runs, Ask(q, r), NEW s \in Runs
    PROVE  /\ q \notin Guards(s)
           /\ Guards(s)' = IF s = r THEN Guards(s) \cup {q} ELSE Guards(s)
  BY DEF TypeOK, Ask, Goto, Guards

LEMMA DropRemovesGuard ==
    ASSUME TypeOK, NEW q \in Requests, request[q] \in Guarded, owner[q] \in Runs,
           DropGuard(q), NEW s \in Runs
    PROVE  /\ q \in Guards(owner[q])
           /\ Guards(s)' = Guards(s) \ {q}
           /\ s # owner[q] => q \notin Guards(s)
  BY RunsAssumption DEF TypeOK, DropGuard, Goto, Guards

----------------------------------------------------------------------------
(* Who owns a live future. *)

LEMMA NextKeepsOwners ==
    ASSUME TypeOK, GuardedIsOwned, [Next]_vars
    PROVE  GuardedIsOwned'
  <1> USE DEF GuardedIsOwned
  <1>1. ASSUME UNCHANGED futureVars PROVE GuardedIsOwned'
    BY <1>1 DEF futureVars
  <1>2. CASE UNCHANGED vars
    BY <1>1, <1>2 DEF vars, brokerVars, requestVars, futureVars
  <1>3. ASSUME NEW q \in Requests, Between(q) PROVE GuardedIsOwned'
    BY <1>3, BetweenKeepsGuards, RunsAssumption DEF TypeOK
  <1>4. ASSUME NEW q \in Requests, Leave(q) \/ HangUp(q) PROVE GuardedIsOwned'
    BY <1>4 DEF Leave, HangUp, DropGuard, Goto, TypeOK
  <1>5. ASSUME NEW q \in Requests, NEW r \in Runs, Ask(q, r) PROVE GuardedIsOwned'
    BY <1>5 DEF Ask, Goto, TypeOK
  <1> QED
    BY <1>1, <1>2, <1>3, <1>4, <1>5, OthersLeaveFutures DEF Next, FutureStep, ClientStep, Between

Typed == TypeOK /\ GuardedIsOwned

\* Every variable keeps its type, whatever the runs, requests and budget: a
\* guard that drops finds the run it counts for.
THEOREM TypeCorrect == Spec => []TypeOK
  <1>1. Init => Typed
    BY InitTypeOK DEF Init, Typed, GuardedIsOwned
  <1>2. Typed /\ [Next]_vars => Typed'
    BY NextKeepsTypes, NextKeepsOwners DEF Typed
  <1>3. Typed => TypeOK
    BY DEF Typed
  <1> QED
    BY <1>1, <1>2, <1>3, PTL DEF Spec

----------------------------------------------------------------------------
(* Refcount, loans and parking: what the futures keep among themselves. *)

FutureInv == RefcountIsGuards /\ LoanIsCounted /\ ParksAlone

\* A finite set gains or loses one member.
LEMMA OneMore ==
    ASSUME NEW S, IsFiniteSet(S), NEW x, x \notin S
    PROVE  Cardinality(S \cup {x}) = Cardinality(S) + 1
  BY FS_AddElement

LEMMA OneLess ==
    ASSUME NEW S, IsFiniteSet(S), NEW x, x \in S
    PROVE  /\ Cardinality(S \ {x}) = Cardinality(S) - 1
           /\ Cardinality(S) \in Nat /\ Cardinality(S) > 0
  <1>1. Cardinality(S) \in Nat /\ Cardinality(S \ {x}) = Cardinality(S) - 1 /\ IsFiniteSet(S \ {x})
    BY FS_RemoveElement, FS_CardinalityType
  <1>2. Cardinality(S \ {x}) \in Nat
    BY <1>1, FS_CardinalityType
  <1> QED
    BY <1>1, <1>2

LEMMA AskKeepsFutures ==
    ASSUME TypeOK, FutureInv, NEW q \in Requests, NEW r \in Runs, Ask(q, r)
    PROVE  FutureInv'
  <1>1. ASSUME NEW s \in Runs PROVE count'[s] = Cardinality(Guards(s)')
    <2>1. CASE s = r
      <3>1. Cardinality(Guards(s)') = Cardinality(Guards(s)) + 1
        BY <2>1, AskAddsGuard, GuardsFinite, OneMore
      <3> QED
        BY <2>1, <3>1 DEF Ask, TypeOK, FutureInv, RefcountIsGuards
    <2>2. CASE s # r
      <3>1. Guards(s)' = Guards(s)
        BY <2>2, AskAddsGuard
      <3>2. count'[s] = count[s]
        BY <2>2 DEF Ask, TypeOK
      <3> QED
        BY <3>1, <3>2 DEF FutureInv, RefcountIsGuards
    <2> QED
      BY <2>1, <2>2
  <1>2. LoanIsCounted'
    BY DEF Ask, TypeOK, FutureInv, LoanIsCounted
  <1>3. count[r] = 0 => Guards(r) = {} /\ ~lent[r]
    BY GuardsFinite, FS_EmptySet DEF FutureInv, RefcountIsGuards, LoanIsCounted
  <1>4. ASSUME NEW p \in Requests, NEW o \in Requests, request'[p] \in OnTheWay
        PROVE  /\ ~lent'[owner'[p]]
               /\ o # p /\ owner'[o] = owner'[p] => request'[o] \notin OnTheWay
    <2> USE DEF TypeOK, Ask, Goto, FutureInv, ParksAlone, OnTheWay
    <2>1. CASE p = q
      <3>1. count[r] = 0 /\ owner'[p] = r /\ lent' = lent
        BY <2>1, <1>4
      <3>2. o # q => request'[o] = request[o] /\ owner'[o] = owner[o]
        OBVIOUS
      <3>3. o # q /\ owner[o] = r => request[o] \notin OnTheWay
        BY <3>1, <1>3 DEF Guards
      <3> QED
        BY <2>1, <3>1, <3>2, <3>3, <1>3
    <2>2. CASE p # q
      <3>1. request[p] \in OnTheWay /\ owner'[p] = owner[p] /\ lent' = lent
        BY <2>2, <1>4
      <3>2. CASE o = q /\ owner[p] = r
        <4>1. count[r] # 0
          BY <3>1, <3>2, <1>3 DEF Guards
        <4> QED
          BY <4>1, <3>1, <3>2
      <3>3. CASE o = q /\ owner[p] # r
        BY <3>1, <3>3, RunsAssumption
      <3>4. CASE o # q
        BY <3>1, <3>4
      <3> QED
        BY <3>2, <3>3, <3>4
    <2> QED
      BY <2>1, <2>2
  <1>5. RefcountIsGuards'
    BY <1>1 DEF RefcountIsGuards
  <1>6. ParksAlone'
    BY <1>4 DEF ParksAlone, OnTheWay
  <1> QED
    BY <1>2, <1>5, <1>6 DEF FutureInv

LEMMA DropKeepsFutures ==
    ASSUME TypeOK, GuardedIsOwned, FutureInv, NEW q \in Requests, request[q] \in Guarded,
           owner[q] \in Runs, DropGuard(q)
    PROVE  FutureInv'
  <1>1. ASSUME NEW s \in Runs PROVE count'[s] = Cardinality(Guards(s)')
    <2>1. CASE s = owner[q]
      <3>1. /\ Cardinality(Guards(s)') = count[s] - 1
            /\ count[s] \in Nat /\ count[s] > 0
        BY <2>1, DropRemovesGuard, GuardsFinite, OneLess DEF FutureInv, RefcountIsGuards
      <3>2. count'[s] = count[s] - 1
        BY <2>1, <3>1 DEF DropGuard, OneOfMany, LastWithoutLoan, LastSettles, TypeOK
      <3> QED
        BY <3>1, <3>2
    <2>2. CASE s # owner[q]
      <3>1. Guards(s)' = Guards(s)
        BY <2>2, DropRemovesGuard
      <3>2. count'[s] = count[s]
        BY <2>2 DEF DropGuard, OneOfMany, LastWithoutLoan, LastSettles, TypeOK
      <3> QED
        BY <3>1, <3>2 DEF FutureInv, RefcountIsGuards
    <2> QED
      BY <2>1, <2>2
  <1>2. LoanIsCounted'
    BY DEF DropGuard, OneOfMany, LastWithoutLoan, LastSettles, TypeOK, FutureInv, LoanIsCounted
  <1>3. \A s \in Runs : lent'[s] => lent[s]
    BY DEF DropGuard, OneOfMany, LastWithoutLoan, LastSettles, TypeOK
  <1>4. /\ request'[q] = "done"
        /\ \A p \in Requests : p # q => request'[p] = request[p] /\ owner'[p] = owner[p]
    BY DEF DropGuard, Goto, TypeOK
  <1>5. \A p \in Requests : request'[p] \in OnTheWay =>
           p # q /\ request[p] \in OnTheWay /\ owner[p] \in Runs
    BY <1>4 DEF OnTheWay, GuardedIsOwned
  <1>6. ParksAlone'
    BY <1>3, <1>4, <1>5 DEF FutureInv, ParksAlone
  <1> QED
    BY <1>1, <1>2, <1>6 DEF FutureInv, RefcountIsGuards

LEMMA BetweenKeepsFutures ==
    ASSUME TypeOK, GuardedIsOwned, FutureInv, NEW q \in Requests, Between(q)
    PROVE  FutureInv'
  <1>1. RefcountIsGuards'
    BY BetweenKeepsGuards DEF FutureInv, RefcountIsGuards
  <1>2. CASE LendSlot(q)
    <2>1. owner[q] \in Runs /\ owner' = owner /\ count' = count
      BY <1>2 DEF LendSlot, GuardedIsOwned
    <2>2. LoanIsCounted'
      BY <1>2, <2>1 DEF LendSlot, TypeOK, FutureInv, LoanIsCounted
    <2>3. \A s \in Runs : s # owner[q] => lent'[s] = lent[s]
      BY <1>2 DEF LendSlot, TypeOK
    <2>4. /\ request[q] = "lending" /\ request'[q] = "waiting"
          /\ \A p \in Requests : p # q => request'[p] = request[p]
      BY <1>2 DEF LendSlot, Goto, TypeOK
    <2>5. \A p \in Requests : request'[p] \in OnTheWay =>
             request[p] \in OnTheWay /\ owner[p] # owner[q] /\ owner[p] \in Runs
      BY <2>4 DEF FutureInv, ParksAlone, OnTheWay, GuardedIsOwned
    <2>6. \A o \in Requests : request'[o] \in OnTheWay => request[o] \in OnTheWay
      BY <2>5
    <2>7. ParksAlone'
      BY <2>1, <2>3, <2>5, <2>6 DEF FutureInv, ParksAlone
    <2> QED
      BY <1>1, <2>2, <2>7 DEF FutureInv
  <1>3. CASE ~LendSlot(q)
    <2>1. lent' = lent
      BY <1>3 DEF Between, ParkSucceeds, ParkRefused, Answered, TimesOut, Abandon,
                  SignalAbandoned, brokerVars
    <2>2. request'[q] \in OnTheWay => request[q] \in OnTheWay
      BY <1>3 DEF Between, ParkSucceeds, ParkRefused, Answered, TimesOut, Abandon,
                  SignalAbandoned, Goto, TypeOK, OnTheWay
    <2>3. /\ owner' = owner
          /\ \A p \in Requests : request'[p] \in OnTheWay => request[p] \in OnTheWay
      BY <2>2, BetweenKeepsGuards
    <2>4. ParksAlone'
      BY <2>1, <2>3 DEF FutureInv, ParksAlone
    <2> QED
      BY <1>1, <2>1, <2>4, BetweenKeepsGuards DEF FutureInv, LoanIsCounted
  <1> QED
    BY <1>2, <1>3

LEMMA NextKeepsFutures ==
    ASSUME TypeOK, GuardedIsOwned, FutureInv, [Next]_vars
    PROVE  FutureInv'
  <1>1. ASSUME UNCHANGED futureVars PROVE FutureInv'
    BY <1>1 DEF futureVars, FutureInv, RefcountIsGuards, LoanIsCounted, ParksAlone, Guards
  <1>2. CASE UNCHANGED vars
    BY <1>1, <1>2 DEF vars, brokerVars, requestVars, futureVars
  <1>3. ASSUME NEW q \in Requests, Between(q) PROVE FutureInv'
    BY <1>3, BetweenKeepsFutures
  <1>4. ASSUME NEW q \in Requests, Leave(q) \/ HangUp(q) PROVE FutureInv'
    <2>1. request[q] \in Guarded /\ owner[q] \in Runs /\ DropGuard(q)
      BY <1>4 DEF Leave, HangUp, GuardedIsOwned
    <2> QED
      BY <2>1, DropKeepsFutures
  <1>5. ASSUME NEW q \in Requests, NEW r \in Runs, Ask(q, r) PROVE FutureInv'
    BY <1>5, AskKeepsFutures
  <1> QED
    BY <1>1, <1>2, <1>3, <1>4, <1>5, OthersLeaveFutures DEF Next, FutureStep, ClientStep, Between

----------------------------------------------------------------------------
(* Slots: every step is a step of the abstract budget, or moves no slot. *)

SlotStep ==
    \/ /\ UNCHANGED <<available, debt>>
       /\ PermitsHeld' = PermitsHeld
       /\ Cardinality(Lent)' = Cardinality(Lent)
    \/ /\ Acquire
       /\ PermitsHeld' = PermitsHeld + 1
       /\ Cardinality(Lent)' = Cardinality(Lent)
    \/ /\ Release
       /\ PermitsHeld' = PermitsHeld - 1
       /\ Cardinality(Lent)' = Cardinality(Lent)
    \/ /\ Lend
       /\ PermitsHeld' = PermitsHeld
       /\ Cardinality(Lent)' = Cardinality(Lent) + 1
    \/ /\ Reclaim
       /\ PermitsHeld' = PermitsHeld
       /\ Cardinality(Lent)' = Cardinality(Lent) - 1
    \/ /\ TakeDebt
       /\ PermitsHeld' = PermitsHeld - 1
       /\ Cardinality(Lent)' = Cardinality(Lent)

LEMMA CountsAreNat ==
    ASSUME TypeOK
    PROVE  /\ Cardinality(Executing) \in Nat /\ IsFiniteSet(Executing)
           /\ Cardinality(Lent) \in Nat /\ IsFiniteSet(Lent)
           /\ Cardinality(extra) \in Nat /\ IsFiniteSet(extra)
           /\ PermitsHeld \in Nat
  <1>1. Executing \subseteq Runs /\ Lent \subseteq Runs
    BY DEF Executing, Lent
  <1>2. /\ Cardinality(Executing) \in Nat /\ IsFiniteSet(Executing)
        /\ Cardinality(Lent) \in Nat /\ IsFiniteSet(Lent)
    BY <1>1, RunSetsFinite
  <1>3. Cardinality(extra) \in Nat /\ IsFiniteSet(extra)
    BY ExtraIsFinite DEF TypeOK
  <1> QED
    BY <1>2, <1>3 DEF PermitsHeld

LEMMA LoopMovesSlots ==
    ASSUME TypeOK, QueuedIsIdle, LoopStep
    PROVE  SlotStep
  <1> USE CountsAreNat DEF PermitsHeld, SlotStep, runVars, brokerVars, slotVars
  <1>1. lent' = lent /\ extra' = extra /\ Lent' = Lent
    BY DEF LoopStep, LoopAcquire, LoopPayDebt, LoopKeepPermit, LoopFindsNothing, LoopDispatch, Lent
  <1>2. ASSUME NEW r \in Runs, LoopDispatch(r) PROVE SlotStep
    <2>1. r \notin Executing /\ Executing' = Executing \cup {r}
      BY <1>2 DEF LoopDispatch, QueuedIsIdle, Executing, TypeOK
    <2>2. Cardinality(Executing') = Cardinality(Executing) + 1
      BY <2>1, OneMore
    <2> QED
      BY <1>1, <1>2, <2>2 DEF LoopDispatch
  <1>3. CASE LoopAcquire \/ LoopPayDebt \/ LoopKeepPermit \/ LoopFindsNothing
    <2>1. Executing' = Executing
      BY <1>3 DEF LoopAcquire, LoopPayDebt, LoopKeepPermit, LoopFindsNothing, Executing
    <2>2. CASE LoopAcquire
      BY <1>1, <2>1, <2>2 DEF LoopAcquire, Acquire
    <2>3. CASE LoopPayDebt
      BY <1>1, <2>1, <2>3 DEF LoopPayDebt, TakeDebt
    <2>4. CASE LoopKeepPermit
      BY <1>1, <2>1, <2>4 DEF LoopKeepPermit
    <2>5. CASE LoopFindsNothing
      BY <1>1, <2>1, <2>5 DEF LoopFindsNothing, Release
    <2> QED
      BY <1>3, <2>2, <2>3, <2>4, <2>5
  <1> QED
    BY <1>2, <1>3 DEF LoopStep

LEMMA TaskMovesSlots ==
    ASSUME TypeOK, NEW r \in Runs, TaskStep(r) \/ FanOutStep(r) \/ Unpark(r) \/ CancelRun(r)
    PROVE  SlotStep
  <1> USE CountsAreNat DEF PermitsHeld, SlotStep, runVars, brokerVars, slotVars
  <1>1. lent' = lent /\ loop' = loop /\ Lent' = Lent
    BY DEF TaskStep, EngineExits, Finish, TaskEnds, FanOutStep, StepStarts, FanOutBorrows,
           FanOutReturns, Unpark, CancelRun, Lent
  <1>2. CASE EngineExits(r) \/ Finish(r) \/ StepStarts(r) \/ Unpark(r) \/ CancelRun(r)
    <2>1. Executing' = Executing
      BY <1>2 DEF EngineExits, Finish, StepStarts, Unpark, CancelRun, Executing, TypeOK
    <2>2. extra' = extra /\ UNCHANGED <<available, debt>>
      BY <1>2 DEF EngineExits, Finish, StepStarts, Unpark, CancelRun
    <2> QED
      BY <1>1, <2>1, <2>2
  <1>3. CASE TaskEnds(r)
    <2>1. r \in Executing /\ Executing' = Executing \ {r}
      BY <1>3 DEF TaskEnds, Executing, TypeOK
    <2>2. Cardinality(Executing') = Cardinality(Executing) - 1
      BY <2>1, OneLess
    <2> QED
      BY <1>1, <1>3, <2>2 DEF TaskEnds, Release
  <1>4. ASSUME NEW i \in 1 .. MaxExtra, FanOutBorrows(r, i) PROVE SlotStep
    <2>1. Cardinality(extra') = Cardinality(extra) + 1
      BY <1>4, OneMore DEF FanOutBorrows
    <2>2. Executing' = Executing
      BY <1>4 DEF FanOutBorrows, Executing
    <2> QED
      BY <1>1, <1>4, <2>1, <2>2 DEF FanOutBorrows, Acquire
  <1>5. ASSUME NEW i \in 1 .. MaxExtra, FanOutReturns(r, i) PROVE SlotStep
    <2>1. Cardinality(extra') = Cardinality(extra) - 1
      BY <1>5, OneLess DEF FanOutReturns
    <2>2. Executing' = Executing
      BY <1>5 DEF FanOutReturns, Executing
    <2> QED
      BY <1>1, <1>5, <2>1, <2>2 DEF FanOutReturns, Release
  <1> QED
    BY <1>2, <1>3, <1>4, <1>5 DEF TaskStep, FanOutStep

LEMMA FuturesMoveSlots ==
    ASSUME TypeOK, GuardedIsOwned, FutureInv, NEW q \in Requests, FutureStep(q) \/ ClientStep(q)
    PROVE  SlotStep
  <1> USE CountsAreNat DEF SlotStep, slotVars
  <1>1. /\ task' = task /\ loop' = loop /\ extra' = extra
        /\ PermitsHeld' = PermitsHeld
    BY DEF FutureStep, ClientStep, ParkSucceeds, ParkRefused, LendSlot, Answered, TimesOut,
           Abandon, SignalAbandoned, Leave, HangUp, DropGuard, Ask, runVars, PermitsHeld, Executing
  <1>2. CASE LendSlot(q)
    <2>1. owner[q] \in Runs /\ owner[q] \notin Lent
      BY <1>2 DEF LendSlot, GuardedIsOwned, FutureInv, ParksAlone, OnTheWay, Lent
    <2>2. q \in Guards(owner[q])
      BY <1>2 DEF LendSlot, Guards
    <2>3. count[owner[q]] > 0
      BY <2>1, <2>2, GuardsFinite, OneLess DEF FutureInv, RefcountIsGuards
    <2>4. Lent' = Lent \cup {owner[q]}
      BY <1>2, <2>1, <2>3 DEF LendSlot, Lent, TypeOK
    <2>5. Cardinality(Lent') = Cardinality(Lent) + 1
      BY <2>1, <2>4, OneMore
    <2> QED
      BY <1>1, <1>2, <2>5 DEF LendSlot
  <1>3. CASE Leave(q) \/ HangUp(q)
    <2>1. DropGuard(q) /\ owner[q] \in Runs
      BY <1>3 DEF Leave, HangUp, GuardedIsOwned
    <2>2. CASE OneOfMany(owner[q]) \/ LastWithoutLoan(owner[q])
      <3>1. Lent' = Lent /\ UNCHANGED <<available, debt>>
        BY <2>2 DEF OneOfMany, LastWithoutLoan, Lent
      <3> QED
        BY <1>1, <3>1
    <2>3. CASE LastSettles(owner[q])
      <3>1. owner[q] \in Lent /\ Lent' = Lent \ {owner[q]} /\ Reclaim
        BY <2>1, <2>3 DEF LastSettles, Lent, TypeOK
      <3>2. Cardinality(Lent') = Cardinality(Lent) - 1
        BY <3>1, OneLess
      <3> QED
        BY <1>1, <3>1, <3>2
    <2> QED
      BY <2>1, <2>2, <2>3 DEF DropGuard
  <1>4. CASE \/ ParkSucceeds(q) \/ ParkRefused(q) \/ Answered(q) \/ TimesOut(q)
             \/ Abandon(q) \/ SignalAbandoned(q) \/ \E r \in Runs : Ask(q, r)
    <2>1. Lent' = Lent /\ UNCHANGED <<available, debt>>
      BY <1>4 DEF ParkSucceeds, ParkRefused, Answered, TimesOut, Abandon, SignalAbandoned,
                  Ask, brokerVars, Lent
    <2> QED
      BY <1>1, <2>1
  <1> QED
    BY <1>2, <1>3, <1>4 DEF FutureStep, ClientStep

LEMMA NextMovesSlots ==
    ASSUME TypeOK, GuardedIsOwned, QueuedIsIdle, FutureInv, [Next]_vars
    PROVE  SlotStep
  <1>1. CASE UNCHANGED vars
    BY <1>1 DEF vars, slotVars, runVars, brokerVars, SlotStep, PermitsHeld, Executing, Lent
  <1>2. CASE LoopStep
    BY <1>2, LoopMovesSlots
  <1>3. ASSUME NEW r \in Runs, CancelRun(r) PROVE SlotStep
    BY <1>3, TaskMovesSlots
  <1>4. ASSUME NEW q \in Requests, NEW a \in {"allow", "deny"}, Resolve(q, a) PROVE SlotStep
    BY <1>4 DEF Resolve, slotVars, runVars, brokerVars, SlotStep, PermitsHeld, Executing, Lent
  <1>5. ASSUME NEW r \in Runs, TaskStep(r) \/ FanOutStep(r) \/ Unpark(r) PROVE SlotStep
    BY <1>5, TaskMovesSlots
  <1>6. ASSUME NEW q \in Requests, FutureStep(q) \/ ClientStep(q) PROVE SlotStep
    BY <1>6, FuturesMoveSlots
  <1> QED
    BY <1>1, <1>2, <1>3, <1>4, <1>5, <1>6 DEF Next, PersonStep

LEMMA SlotStepConserves ==
    ASSUME TypeOK, TypeOK', SlotConservation, SlotStep
    PROVE  SlotConservation'
  <1> DEFINE h == PermitsHeld
             l == Cardinality(Lent)
  <1>1. h \in Nat /\ l \in Nat /\ available \in Nat /\ debt \in Nat
    BY CountsAreNat DEF TypeOK
  <1> QED
    BY <1>1, MaxConcurrentAssumption DEF SlotStep, SlotConservation, Acquire, Release, Lend,
          Reclaim, TakeDebt

----------------------------------------------------------------------------
(* Statuses: who may change one, and what never changes again. *)

\* What a step does to a run's status and task, seen by the other lemmas.
StatusStep ==
    \A r \in Runs :
        /\ status[r] \in Terminal => status'[r] = status[r]
        /\ status'[r] = "queued" => status[r] = "queued" /\ task'[r] = task[r]

LEMMA LoopMovesStatus ==
    ASSUME TypeOK, LoopStep
    PROVE  StatusStep
  <1> USE DEF StatusStep, runVars
  <1>1. ASSUME NEW r \in Runs, LoopDispatch(r) PROVE StatusStep
    BY <1>1 DEF LoopDispatch, TypeOK
  <1>2. CASE LoopAcquire \/ LoopPayDebt \/ LoopKeepPermit \/ LoopFindsNothing
    BY <1>2 DEF LoopAcquire, LoopPayDebt, LoopKeepPermit, LoopFindsNothing
  <1> QED
    BY <1>1, <1>2 DEF LoopStep

LEMMA TaskMovesStatus ==
    ASSUME TypeOK, QueuedIsIdle, NEW r \in Runs,
           TaskStep(r) \/ FanOutStep(r) \/ Unpark(r) \/ CancelRun(r)
    PROVE  StatusStep
  <1> USE DEF StatusStep, TypeOK
  <1>1. \A s \in Runs : s # r => status'[s] = status[s] /\ task'[s] = task[s]
    BY DEF TaskStep, EngineExits, Finish, TaskEnds, FanOutStep, StepStarts, FanOutBorrows,
           FanOutReturns, Unpark, CancelRun, Ended, Unparked
  <1>2. status[r] \in Terminal => status'[r] = status[r]
    BY DEF TaskStep, EngineExits, Finish, TaskEnds, FanOutStep, StepStarts, FanOutBorrows,
           FanOutReturns, Unpark, CancelRun, Ended, Unparked
  <1>3. status'[r] = "queued" => status[r] = "queued" /\ task'[r] = task[r]
    <2>1. CASE EngineExits(r) \/ TaskEnds(r)
      BY <2>1 DEF EngineExits, TaskEnds, QueuedIsIdle
    <2>2. CASE Finish(r)
      BY <2>2 DEF Finish, Ended
    <2>3. CASE FanOutStep(r)
      BY <2>3 DEF FanOutStep, StepStarts, FanOutBorrows, FanOutReturns
    <2>4. CASE Unpark(r) \/ CancelRun(r)
      BY <2>4 DEF Unpark, Unparked, CancelRun
    <2> QED
      BY <2>1, <2>2, <2>3, <2>4 DEF TaskStep
  <1> QED
    BY <1>1, <1>2, <1>3

LEMMA FuturesMoveStatus ==
    ASSUME TypeOK, GuardedIsOwned, NEW q \in Requests, FutureStep(q) \/ ClientStep(q)
    PROVE  StatusStep
  <1> USE DEF StatusStep, TypeOK
  <1>1. task' = task
    BY DEF FutureStep, ClientStep, ParkSucceeds, ParkRefused, LendSlot, Answered, TimesOut,
           Abandon, SignalAbandoned, Leave, HangUp, DropGuard, Ask, runVars
  <1>2. CASE ParkSucceeds(q)
    BY <1>1, <1>2 DEF ParkSucceeds
  <1>3. CASE Abandon(q)
    BY <1>1, <1>3 DEF Abandon, Ended
  <1>4. CASE Leave(q) \/ HangUp(q)
    BY <1>1, <1>4 DEF Leave, HangUp, DropGuard, OneOfMany, LastWithoutLoan, LastSettles, Unparked
  <1>5. CASE \/ ParkRefused(q) \/ LendSlot(q) \/ Answered(q) \/ TimesOut(q)
             \/ SignalAbandoned(q) \/ \E r \in Runs : Ask(q, r)
    BY <1>1, <1>5 DEF ParkRefused, LendSlot, Answered, TimesOut, SignalAbandoned, Ask, runVars
  <1> QED
    BY <1>2, <1>3, <1>4, <1>5 DEF FutureStep, ClientStep

LEMMA NextMovesStatus ==
    ASSUME TypeOK, GuardedIsOwned, QueuedIsIdle, [Next]_vars
    PROVE  StatusStep
  <1>1. CASE UNCHANGED vars
    BY <1>1 DEF vars, runVars, StatusStep
  <1>2. CASE LoopStep
    BY <1>2, LoopMovesStatus
  <1>3. ASSUME NEW r \in Runs, CancelRun(r) PROVE StatusStep
    BY <1>3, TaskMovesStatus
  <1>4. ASSUME NEW q \in Requests, NEW a \in {"allow", "deny"}, Resolve(q, a) PROVE StatusStep
    BY <1>4 DEF Resolve, runVars, StatusStep
  <1>5. ASSUME NEW r \in Runs, TaskStep(r) \/ FanOutStep(r) \/ Unpark(r) PROVE StatusStep
    BY <1>5, TaskMovesStatus
  <1>6. ASSUME NEW q \in Requests, FutureStep(q) \/ ClientStep(q) PROVE StatusStep
    BY <1>6, FuturesMoveStatus
  <1> QED
    BY <1>1, <1>2, <1>3, <1>4, <1>5, <1>6 DEF Next, PersonStep

----------------------------------------------------------------------------
(* The inductive invariant, and what follows from it. *)

LEMMA InitEstablishes == Init => IInv
  <1> SUFFICES ASSUME Init PROVE IInv
    OBVIOUS
  <1> USE DEF Init, SlotsInit
  <1>1. Executing = {} /\ Lent = {} /\ \A r \in Runs : Guards(r) = {}
    BY DEF Executing, Lent, Guards
  <1>2. SlotConservation
    BY <1>1, FS_EmptySet, MaxConcurrentAssumption DEF SlotConservation, PermitsHeld
  <1>3. RefcountIsGuards
    BY <1>1, FS_EmptySet DEF RefcountIsGuards
  <1> QED
    BY <1>2, <1>3, InitTypeOK
    DEF IInv, QueuedIsIdle, GuardedIsOwned, LoanIsCounted, ParksAlone, OnTheWay

LEMMA StepPreserves == IInv /\ [Next]_vars => IInv'
  <1> SUFFICES ASSUME IInv, [Next]_vars PROVE IInv'
    OBVIOUS
  <1>1. TypeOK' /\ GuardedIsOwned'
    BY NextKeepsTypes, NextKeepsOwners DEF IInv
  <1>2. FutureInv'
    BY NextKeepsFutures DEF IInv, FutureInv
  <1>3. QueuedIsIdle'
    BY NextMovesStatus DEF IInv, StatusStep, QueuedIsIdle
  <1>4. SlotConservation'
    BY <1>1, NextMovesSlots, SlotStepConserves DEF IInv, FutureInv
  <1> QED
    BY <1>1, <1>2, <1>3, <1>4 DEF IInv, FutureInv

LEMMA Inductive == Spec => []IInv
  BY InitEstablishes, StepPreserves, PTL DEF Spec

\* Slots are conserved through every interleaving of the queue loop, the
\* fan-outs, parking, hanging up and late unparks, for every budget.
THEOREM SlotsAreConserved == Spec => []SlotConservation
  <1>1. IInv => SlotConservation
    BY DEF IInv
  <1> QED
    BY <1>1, Inductive, PTL

\* The refcount is the number of futures that will drop a guard.
THEOREM RefcountIsExact == Spec => []RefcountIsGuards
  <1>1. IInv => RefcountIsGuards
    BY DEF IInv
  <1> QED
    BY <1>1, Inductive, PTL

\* No loan outlives the questions of its run.
THEOREM LoansHaveQuestions == Spec => []LoanHasQuestion
  <1>1. IInv => LoanHasQuestion
    <2> SUFFICES ASSUME IInv, NEW r \in Runs, lent[r] PROVE Guards(r) # {}
      BY DEF LoanHasQuestion
    <2>1. Cardinality(Guards(r)) > 0
      BY DEF IInv, LoanIsCounted, RefcountIsGuards
    <2> QED
      BY <2>1, FS_EmptySet
  <1> QED
    BY <1>1, Inductive, PTL

\* However many questions a run has open, one of them parks and lends.
THEOREM OneQuestionParks == Spec => []OnePark
  <1>1. IInv => OnePark
    BY DEF IInv, ParksAlone, OnTheWay, OnePark, Guards
  <1> QED
    BY <1>1, Inductive, PTL

\* No step of any actor undoes an ending.
THEOREM EndingsAreFinal == Spec => EndedIsFinal
  <1>1. IInv /\ [Next]_vars => [\A r \in Runs : status[r] \in Terminal => status'[r] = status[r]]_vars
    BY NextMovesStatus DEF IInv, StatusStep
  <1> QED
    BY <1>1, Inductive, PTL DEF Spec, EndedIsFinal

\* The broker and the queue loop implement the abstract budget: what is held
\* is never more than the budget, the loans and the debt together, and what
\* moves does so by one slot at a time.
THEOREM RefinesBudget == Spec => ImplementsBudget
  <1>1. Init => Abstract!Init
    BY InitEstablishes, FS_EmptySet
    DEF Init, SlotsInit, Abstract!Init, PermitsHeld, Executing, Lent
  <1>2. IInv /\ [Next]_vars => [Abstract!Next]_(Abstract!vars)
    <2> SUFFICES ASSUME IInv, IInv', [Next]_vars
                 PROVE  Abstract!Next \/ UNCHANGED Abstract!vars
      BY StepPreserves
    <2>1. SlotStep
      BY NextMovesSlots DEF IInv, FutureInv
    <2>2. /\ PermitsHeld \in Nat /\ Cardinality(Lent) \in Nat
          /\ available \in Nat /\ debt \in Nat
      BY CountsAreNat DEF IInv, TypeOK
    <2>3. Executing' \subseteq Runs /\ Lent' \subseteq Runs
      BY DEF Executing, Lent
    <2>4. Cardinality(Executing') \in Nat /\ Cardinality(Lent') \in Nat
      BY <2>3, RunSetsFinite
    <2>5. Cardinality(extra') \in Nat
      BY ExtraIsFinite DEF IInv, TypeOK
    <2>6. PermitsHeld' \in Nat /\ Cardinality(Lent)' \in Nat
      BY <2>4, <2>5 DEF PermitsHeld
    <2> QED
      BY <2>1, <2>2, <2>6, MaxConcurrentAssumption
      DEF IInv, SlotConservation, SlotStep, Acquire, Release, Lend, Reclaim, TakeDebt,
          Abstract!Next, Abstract!vars, Abstract!Take, Abstract!Drop, Abstract!LendOne,
          Abstract!TakeBack, Abstract!Pay, Abstract!Budget
  <1> QED
    BY <1>1, <1>2, Inductive, PTL DEF Spec, ImplementsBudget, Abstract!Spec

----------------------------------------------------------------------------
(* What strands a run. *)

\* An engine parked on a person, told to stop or not.
Parked(r) == task[r] = "streaming" /\ status[r] = "waiting_permission"

\* The loop, the tasks and the people park nobody, and leave a run that stays
\* parked as it is covered: an unpark that lands unparks.
LEMMA OthersParkNobody ==
    ASSUME TypeOK, NEW s \in Runs, Parked(s)',
           LoopStep \/ PersonStep \/ \E r \in Runs : TaskStep(r) \/ FanOutStep(r) \/ Unpark(r)
    PROVE  Parked(s) /\ unparks'[s] = unparks[s]
  <1> USE DEF TypeOK, Parked, runVars, brokerVars
  <1>1. CASE LoopStep
    BY <1>1 DEF LoopStep, LoopAcquire, LoopPayDebt, LoopKeepPermit, LoopFindsNothing, LoopDispatch
  <1>2. CASE PersonStep
    BY <1>2 DEF PersonStep, CancelRun, Resolve
  <1>3. ASSUME NEW r \in Runs, TaskStep(r) PROVE Parked(s) /\ unparks'[s] = unparks[s]
    BY <1>3 DEF TaskStep, EngineExits, Finish, TaskEnds, Ended
  <1>4. ASSUME NEW r \in Runs, FanOutStep(r) PROVE Parked(s) /\ unparks'[s] = unparks[s]
    BY <1>4 DEF FanOutStep, StepStarts, FanOutBorrows, FanOutReturns
  <1>5. ASSUME NEW r \in Runs, Unpark(r) PROVE Parked(s) /\ unparks'[s] = unparks[s]
    BY <1>5 DEF Unpark, Unparked
  <1> QED
    BY <1>1, <1>2, <1>3, <1>4, <1>5

LEMMA BetweenKeepsCovered ==
    ASSUME IInv, NEW q \in Requests, Between(q), NEW s \in Runs, Parked(s)',
           Parked(s) => Covered(s)
    PROVE  Covered(s)'
  <1> USE DEF TypeOK, Goto, runVars, brokerVars
  <1>0. TypeOK /\ GuardedIsOwned
    BY DEF IInv
  <1>1. /\ request[q] \in Guarded /\ request'[q] \in Guarded /\ owner' = owner
        /\ \A p \in Requests : p # q => request'[p] = request[p]
        /\ Guards(s)' = Guards(s)
    BY <1>0, BetweenKeepsGuards
  <1>2. owner[q] = s => q \in Guards(s) /\ q \in Guards(s)'
    BY <1>1 DEF Guards
  <1>3. CASE owner[q] = s /\ ParkSucceeds(q)
    <2>1. request'[q] = "lending"
      BY <1>0, <1>3 DEF ParkSucceeds
    <2> QED
      BY <1>2, <1>3, <2>1 DEF Covered
  <1>4. CASE owner[q] = s /\ LendSlot(q)
    <2>1. count[s] > 0
      <3>1. Cardinality(Guards(s)) > 0
        BY <1>2, <1>4, GuardsFinite, OneLess
      <3> QED
        BY <3>1 DEF IInv, RefcountIsGuards
    <2>2. lent'[s]
      BY <1>0, <1>4, <2>1 DEF LendSlot
    <2> QED
      BY <2>2 DEF Covered
  <1>5. CASE /\ owner[q] # s \/ ~ParkSucceeds(q)
             /\ owner[q] # s \/ ~LendSlot(q)
    <2>1. Parked(s)
      <3>1. task' = task /\ owner[q] \in Runs
        BY <1>0, <1>1 DEF GuardedIsOwned, Between, ParkSucceeds, ParkRefused, LendSlot, Answered,
           TimesOut, Abandon, SignalAbandoned
      <3>2. status'[s] = "waiting_permission" => status[s] = "waiting_permission"
        BY <1>0, <1>5, <3>1 DEF Between, ParkSucceeds, ParkRefused, LendSlot, Answered, TimesOut,
           Abandon, SignalAbandoned, Ended
      <3> QED
        BY <3>1, <3>2 DEF Parked
    <2>2. lent'[s] = lent[s] /\ unparks' = unparks
      BY <1>0, <1>1, <1>5 DEF GuardedIsOwned, Between, ParkSucceeds, ParkRefused, LendSlot,
         Answered, TimesOut, Abandon, SignalAbandoned
    <2>3. owner[q] = s => request[q] # "lending"
      BY <1>5 DEF Between, ParkSucceeds, ParkRefused, LendSlot, Answered, TimesOut, Abandon,
         SignalAbandoned
    <2>4. \A p \in Guards(s) : request[p] = "lending" => request'[p] = "lending"
      BY <1>1, <2>3 DEF Guards
    <2> QED
      BY <1>1, <2>1, <2>2, <2>4 DEF Covered
  <1> QED
    BY <1>3, <1>4, <1>5

\* A guard that drops leaves no run stranded, unless it is the one that was to
\* lend: the last one settles, and what it spawns unparks the run.
LEMMA DropKeepsCovered ==
    ASSUME IInv, NEW q \in Requests, Leave(q) \/ HangUp(q), NEW s \in Runs, Parked(s)',
           Parked(s) => Covered(s),
           ~(q \in Guards(s) /\ request[q] = "lending")
    PROVE  Covered(s)'
  <1> USE DEF TypeOK, Goto
  <1>0. TypeOK /\ GuardedIsOwned /\ RefcountIsGuards
    BY DEF IInv
  <1>1. DropGuard(q) /\ request[q] \in Guarded /\ owner[q] \in Runs
    BY <1>0 DEF Leave, HangUp, GuardedIsOwned
  <1>2. /\ Guards(s)' = Guards(s) \ {q}
        /\ s # owner[q] => q \notin Guards(s)
        /\ q \in Guards(owner[q])
    BY <1>0, <1>1, DropRemovesGuard
  <1>3. \A p \in Requests : p # q => request'[p] = request[p]
    BY <1>0, <1>1 DEF DropGuard
  <1>4. task' = task
    BY <1>1 DEF DropGuard
  <1>5. Parked(s)
    BY <1>0, <1>1, <1>4 DEF Parked, DropGuard, OneOfMany, LastWithoutLoan, LastSettles, Unparked
  <1>6. Covered(s)
    BY <1>5
  <1>7. unparks'[s] >= unparks[s] /\ unparks[s] \in Nat /\ unparks'[s] \in Nat
    BY <1>0, <1>1 DEF DropGuard, OneOfMany, LastWithoutLoan, LastSettles
  <1>8. CASE unparks[s] > 0
    BY <1>7, <1>8 DEF Covered
  <1>9. CASE lent[s]
    <2>1. CASE s = owner[q] /\ LastSettles(s)
      <3>1. UnparkLags
        BY <1>0, <1>4, <2>1 DEF LastSettles, Unparked, Parked
      <3>2. unparks'[s] = unparks[s] + 1
        BY <1>0, <3>1, <2>1, SwitchesAssumption DEF LastSettles
      <3> QED
        BY <1>7, <3>2 DEF Covered
    <2>2. CASE ~(s = owner[q] /\ LastSettles(s))
      <3>1. lent'[s] = lent[s]
        BY <1>0, <1>1, <2>2 DEF DropGuard, OneOfMany, LastWithoutLoan, LastSettles
      <3> QED
        BY <1>9, <3>1 DEF Covered
    <2> QED
      BY <2>1, <2>2
  <1>10. ASSUME NEW p \in Guards(s), request[p] = "lending" PROVE Covered(s)'
    <2>1. p # q /\ p \in Requests
      BY <1>10 DEF Guards
    <2>2. p \in Guards(s)' /\ request'[p] = "lending"
      BY <1>2, <1>3, <1>10, <2>1
    <2> QED
      BY <2>2 DEF Covered
  <1> QED
    BY <1>6, <1>8, <1>9, <1>10 DEF Covered

LEMMA AskKeepsCovered ==
    ASSUME IInv, NEW q \in Requests, NEW r \in Runs, Ask(q, r),
           NEW s \in Runs, Parked(s)', Parked(s) => Covered(s)
    PROVE  Covered(s)'
  <1>1. /\ q \notin Guards(s)
        /\ Guards(s) \subseteq Guards(s)'
    BY AskAddsGuard DEF IInv
  <1>2. \A p \in Guards(s) : request'[p] = request[p]
    BY <1>1 DEF IInv, TypeOK, Ask, Goto, Guards
  <1>3. lent' = lent /\ unparks' = unparks /\ Parked(s)
    BY DEF Ask, runVars, Parked
  <1> QED
    BY <1>1, <1>2, <1>3 DEF Covered

LEMMA StrandsByDrop ==
    ASSUME IInv, [Next]_vars, NEW s \in Runs, ~Stranded(s), Stranded(s)'
    PROVE  \E q \in Guards(s) : request[q] = "lending" /\ request'[q] = "done"
  <1>0. Parked(s)' /\ ~Covered(s)' /\ (Parked(s) => Covered(s))
    BY DEF Stranded, Parked
  <1>1. ASSUME UNCHANGED futureVars, Parked(s), unparks'[s] = unparks[s] PROVE FALSE
    BY <1>0, <1>1 DEF Covered, futureVars, Guards
  <1>2. CASE UNCHANGED vars
    BY <1>0, <1>1, <1>2 DEF vars, runVars, brokerVars, requestVars, futureVars, Parked
  <1>3. CASE LoopStep \/ PersonStep \/ \E r \in Runs : TaskStep(r) \/ FanOutStep(r) \/ Unpark(r)
    BY <1>0, <1>1, <1>3, OthersLeaveFutures, OthersParkNobody DEF IInv
  <1>4. ASSUME NEW q \in Requests, Between(q) PROVE FALSE
    BY <1>0, <1>4, BetweenKeepsCovered
  <1>5. ASSUME NEW q \in Requests, NEW r \in Runs, Ask(q, r) PROVE FALSE
    BY <1>0, <1>5, AskKeepsCovered
  <1>6. ASSUME NEW q \in Requests, Leave(q) \/ HangUp(q)
        PROVE  q \in Guards(s) /\ request[q] = "lending" /\ request'[q] = "done"
    <2>1. q \in Guards(s) /\ request[q] = "lending"
      BY <1>0, <1>6, DropKeepsCovered
    <2>2. request'[q] = "done"
      BY <1>6 DEF IInv, TypeOK, Leave, HangUp, DropGuard, Goto
    <2> QED
      BY <2>1, <2>2
  <1> QED
    BY <1>2, <1>3, <1>4, <1>5, <1>6 DEF Next, FutureStep, ClientStep, Between

\* However many questions a run has open, however they end and however late
\* their unparks land, nothing leaves it parked for good but a client that
\* closes, at the await of park, the very request that has parked it.
THEOREM OnlyHangUpsStrand == Spec => OnlyHangUpStrands
  <1>1. IInv /\ [Next]_vars =>
            [\A r \in Runs :
                ~Stranded(r) /\ Stranded(r)' =>
                    \E q \in Guards(r) : request[q] = "lending" /\ request'[q] = "done"]_vars
    BY StrandsByDrop
  <1> QED
    BY <1>1, Inductive, PTL DEF Spec, OnlyHangUpStrands

LEMMA OnlyRefusalLeaves ==
    ASSUME TypeOK, [Next]_vars, NEW q \in Requests, request[q] = "parking", request'[q] = "leaving"
    PROVE  status[owner[q]] # "running"
  <1>1. ASSUME UNCHANGED futureVars PROVE FALSE
    BY <1>1 DEF futureVars
  <1>2. CASE UNCHANGED vars
    BY <1>1, <1>2 DEF vars, brokerVars, requestVars, futureVars
  <1>3. CASE LoopStep \/ PersonStep \/ \E r \in Runs : TaskStep(r) \/ FanOutStep(r) \/ Unpark(r)
    BY <1>1, <1>3, OthersLeaveFutures
  <1>4. ASSUME NEW p \in Requests, Between(p) PROVE status[owner[q]] # "running"
    <2>1. p = q
      BY <1>4, BetweenKeepsGuards
    <2> QED
      BY <1>4, <2>1 DEF TypeOK, Goto, Between, ParkSucceeds, ParkRefused, LendSlot, Answered,
         TimesOut, Abandon, SignalAbandoned
  <1>5. ASSUME NEW p \in Requests, Leave(p) \/ HangUp(p) PROVE FALSE
    BY <1>5 DEF TypeOK, Leave, HangUp, DropGuard, Goto
  <1>6. ASSUME NEW p \in Requests, NEW r \in Runs, Ask(p, r) PROVE FALSE
    BY <1>6 DEF TypeOK, Ask, Goto
  <1> QED
    BY <1>2, <1>3, <1>4, <1>5, <1>6 DEF Next, FutureStep, ClientStep, Between

\* And a question is told that its run is gone while the run works only where
\* an unpark has not landed yet, or such a client has stranded the run.
THEOREM GoneNeedsLags == Spec => GoneNeedsALag
  <1> DEFINE Told == \A q \in Requests :
                        request[q] = "parking" /\ request'[q] = "leaving"
                            => \/ status[owner[q]] \in Terminal
                               \/ task[owner[q]] # "streaming"
                               \/ unparks[owner[q]] > 0
                               \/ Stranded(owner[q])
  <1>1. IInv /\ [Next]_vars => [Told]_vars
    <2> SUFFICES ASSUME IInv, [Next]_vars, NEW q \in Requests,
                        request[q] = "parking", request'[q] = "leaving",
                        task[owner[q]] = "streaming", status[owner[q]] \notin Terminal,
                        ~(unparks[owner[q]] > 0)
                 PROVE  Stranded(owner[q])
      OBVIOUS
    <2>1. owner[q] \in Runs
      BY DEF IInv, GuardedIsOwned
    <2>2. ~Covered(owner[q])
      BY DEF IInv, ParksAlone, OnTheWay, Covered, Guards
    <2>3. status[owner[q]] # "running"
      BY OnlyRefusalLeaves DEF IInv
    <2>4. status[owner[q]] # "queued"
      BY <2>1 DEF IInv, QueuedIsIdle
    <2> QED
      BY <2>1, <2>2, <2>3, <2>4 DEF IInv, TypeOK, Stranded
  <1> QED
    BY <1>1, Inductive, PTL DEF Spec, GoneNeedsALag

=============================================================================
