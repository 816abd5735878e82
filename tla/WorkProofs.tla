----------------------------- MODULE WorkProofs -----------------------------
(***************************************************************************)
(* Who works when, for any numbers.  First OrgRuns: its types, that a      *)
(* batch works on files that are apart and waits for what it depends on,   *)
(* that nothing is swept away by a run that completes, and that the rows   *)
(* and the board are settled once everybody is at rest.  Then Claims: its  *)
(* types, how many runs begin in a budget's window and under an agent's    *)
(* limits, and what a run that waits for a window waits for.               *)
(***************************************************************************)
EXTENDS OrgRuns, Claims, FiniteSetTheorems, TLAPS

----------------------------------------------------------------------------
(* OrgRuns. *)

\* An assignment of a batch that has not started, or is at work: they are
\* apart, and none waits for another or for anything queued or at work.
BatchIsSafe ==
    /\ pc # "working" => batch = {} /\ Active = {}
    /\ batch \cap Active = {}
    /\ \A s \in batch : step[s] \in {"queued", "skipped"}
    /\ \A s \in Active : step[s] # "none"
    /\ \A s, t \in batch \cup Active : s # t => Apart(s, t)
    /\ \A s \in batch : \A d \in DependsOn(s) :
          d \notin batch /\ step[d] \notin {"queued", "running"}

\* A row at work has a turn under it.
RowsHaveTurns == \A s \in Steps : step[s] = "running" => turn[s] # "idle" \/ late

\* Where the executor is, the run's status and what is planned go together.
PlacesAgree ==
    /\ run \in {"queued", "asking"} => pc = "idle"
    /\ run = "asking" => ~fromCard
    /\ late => run \in Ended /\ pc = "idle"
    /\ canceller = "mirroring" => run \in Ended
    /\ pc \in {"planning", "repairing", "writing"} => Present = {}
    /\ pc = "reviewing" \/ (pc = "finishing" /\ verdict = "completed") => Pending = {}
    /\ fromCard /\ pc \in {"idle", "mirroring", "settling"} /\ ~late => Pending = {}
    /\ pc \in {"finishing", "mirroring", "settling"} => verdict \in Ended

\* An assignment that failed keeps its row, and its second attempt comes once.
FailuresStay ==
    /\ \A s \in failures : step[s] \in Ended
    /\ \A k \in Keys : step[<<k, 2>>] # "none" =>
          /\ <<k, 1>> \notin batch \cup Active \cup failures
          /\ step[<<k, 1>>] \notin {"none", "queued", "running"}

\* A card of the team stands where its assignment says, or a pass over the
\* board is owed.
CardsAgree ==
    /\ \A s \in Steps : step[s] = "none" \/ ~fromCard => column[s] = "none"
    /\ \A s \in Steps : own[s] = "live" => column[s] # "none"
    /\ \A s \in Steps :
          column[s] # "none" /\ own[s] = "none" =>
              \/ column[s] = ColumnFor(step[s])
              \/ pc = "mirroring" \/ canceller = "mirroring" \/ late

OInv ==
    /\ TypeOK /\ BatchIsSafe /\ RowsHaveTurns /\ PlacesAgree
    /\ FailuresStay /\ CardsAgree

USE DEF Ended, Columns, Places, given, rows, cards, work, stops, tally

LEMMA StepsAreSteps == \A s \in Steps : s[1] \in Keys /\ s[2] \in {1, 2} /\ s = <<s[1], s[2]>>
  BY DEF Steps

LEMMA ColumnsAreColumns == \A st : ColumnFor(st) \in Columns
  BY DEF ColumnFor

----------------------------------------------------------------------------
(* Steps that move the executor or a stop, and no row. *)

LEMMA QuietSteps ==
    ASSUME OInv,
           \/ \E m \in Members : PassGate(m)
           \/ Dispatch \/ CannotStart \/ PlanEnds \/ RepairEnds \/ ApprovePlan
           \/ NothingPending \/ StopsBetween \/ OutOfBudget \/ BatchEnds \/ ReplanEnds
           \/ NoMoreFailures \/ AskAboutFailure \/ FailedTwice \/ Abort
           \/ ReviewEnds \/ SettleCard \/ CancelAsked \/ CancelSignals
    PROVE  OInv'
  <1> USE DEF OInv, TypeOK, BatchIsSafe, RowsHaveTurns, PlacesAgree, FailuresStay, CardsAgree,
              Active, Pending, Present, Apart, Declared, Touches, DependsOn, Goto, Ask, Conclude,
              Members
  <1>0. Manager \notin Steps
    BY SizeAssumption
  <1>1. ASSUME NEW m \in Members, PassGate(m) PROVE OInv'
    <2>1. turn' \in [Members -> {"idle", "opening", "streaming", "fired"}]
      BY <1>1 DEF PassGate
    <2>2. \A t \in Steps : turn'[t] = "idle" <=> turn[t] = "idle"
      BY <1>1 DEF PassGate
    <2>3. UNCHANGED <<given, rows, cards, pc, work, verdict, stops, tally>>
      BY <1>1 DEF PassGate
    <2>4. Active' = Active
      BY <2>2
    <2> HIDE DEF Active
    <2>5. BatchIsSafe' /\ RowsHaveTurns'
      BY <2>2, <2>3, <2>4
    <2>6. TypeOK' /\ PlacesAgree' /\ FailuresStay' /\ CardsAgree'
      BY <2>1, <2>3, <2>4
    <2> QED
      BY <2>5, <2>6
  <1>2. CASE Dispatch
    BY <1>0, <1>2 DEF Dispatch
  <1>3. CASE CannotStart
    BY <1>0, <1>3 DEF CannotStart
  <1>4. CASE PlanEnds
    BY <1>0, <1>4 DEF PlanEnds, Outcomes
  <1>5. CASE RepairEnds
    BY <1>0, <1>5 DEF RepairEnds
  <1>6. CASE ApprovePlan
    BY <1>0, <1>6 DEF ApprovePlan
  <1>7. CASE NothingPending
    BY <1>0, <1>7 DEF NothingPending
  <1>8. CASE StopsBetween
    BY <1>0, <1>8 DEF StopsBetween
  <1>9. CASE OutOfBudget
    BY <1>0, <1>9 DEF OutOfBudget
  <1>10. CASE BatchEnds
    BY <1>0, <1>10, LimitsAssumption DEF BatchEnds
  <1>11. CASE ReplanEnds
    BY <1>0, <1>11 DEF ReplanEnds
  <1>12. CASE NoMoreFailures
    BY <1>0, <1>12 DEF NoMoreFailures
  <1>13. CASE AskAboutFailure
    BY <1>0, <1>13 DEF AskAboutFailure
  <1>14. CASE FailedTwice
    BY <1>0, <1>14 DEF FailedTwice
  <1>15. CASE Abort
    BY <1>0, <1>15 DEF Abort
  <1>16. CASE ReviewEnds
    BY <1>0, <1>16 DEF ReviewEnds
  <1>17. CASE SettleCard
    BY <1>0, <1>17 DEF SettleCard
  <1>18. CASE CancelAsked
    BY <1>0, <1>18 DEF CancelAsked
  <1>19. CASE CancelSignals
    <2>1. turn' \in [Members -> {"idle", "opening", "streaming", "fired"}]
      BY <1>19 DEF CancelSignals, Interrupted
    <2>2. \A t \in Steps : turn'[t] = "idle" <=> turn[t] = "idle"
      BY <1>19 DEF CancelSignals, Interrupted
    <2> QED
      BY <1>19, <2>1, <2>2 DEF CancelSignals
  <1> QED
    BY <1>1, <1>2, <1>3, <1>4, <1>5, <1>6, <1>7, <1>8, <1>9, <1>10, <1>11, <1>12, <1>13,
       <1>14, <1>15, <1>16, <1>17, <1>18, <1>19

----------------------------------------------------------------------------
(* Steps that move rows or cards. *)

LEMMA MirrorMoves ==
    ASSUME TypeOK, NEW S, NEW rows1
    PROVE  /\ Mirrored(S, rows1) \in [Steps -> Columns \cup {"none"}]
           /\ \A s \in Steps :
                 Mirrored(S, rows1)[s] = IF s \in S /\ column[s] # "none" /\ own[s] = "none"
                                         THEN ColumnFor(rows1[s]) ELSE column[s]
           /\ \A s \in Steps : Mirrored(S, rows1)[s] = "none" <=> column[s] = "none"
  <1>1. \A s \in Steps : ColumnFor(rows1[s]) \in Columns
    BY ColumnsAreColumns
  <1> QED
    BY <1>1 DEF Mirrored, TypeOK

LEMMA SettledMoves ==
    ASSUME TypeOK, NEW ending \in Ended
    PROVE  /\ Settled(ending) \in [Steps -> {"none", "queued", "running", "skipped"} \cup Ended]
           /\ \A s \in Steps :
                 /\ step[s] = "running" => Settled(ending)[s] \in Ended
                 /\ step[s] = "queued" => Settled(ending)[s] = "skipped"
                 /\ step[s] \notin {"running", "queued"} => Settled(ending)[s] = step[s]
  BY DEF Settled, TypeOK

LEMMA PairsAreSteps == \A k \in Keys : <<k, 1>> \in Steps /\ <<k, 2>> \in Steps
  BY DEF Steps

\* What an assignment waits for and which files it touches is the plan's.
LEMMA PlanStays ==
    ASSUME TypeOK, plan' = plan
    PROVE  /\ \A s \in Steps : DependsOn(s)' = DependsOn(s) /\ DependsOn(s) \subseteq Steps
           /\ \A s \in Steps, t \in Steps : Apart(s, t)' <=> Apart(s, t)
  <1>1. \A s \in Steps : DependsOn(s) \subseteq Steps
    <2>1. Runnable(plan)
      BY PlansAssumption DEF TypeOK
    <2>2. ASSUME NEW s \in Steps, NEW d \in plan.deps[s[1]] PROVE <<d, 1>> \in Steps
      <3>1. s[1] \in Keys
        BY StepsAreSteps
      <3>2. plan.tasks \in 1 .. Size /\ d \in 1 .. plan.tasks
        BY <2>1, <3>1 DEF Runnable
      <3>3. d \in Keys
        BY <3>2, SizeAssumption DEF Keys
      <3> QED
        BY <3>3, PairsAreSteps
    <2> QED
      BY <2>2 DEF DependsOn
  <1> QED
    BY <1>1 DEF DependsOn, Apart, Declared, Touches

LEMMA RowSteps ==
    ASSUME OInv,
           \/ WritePlan \/ RejectPlan \/ Triage \/ Reconcile
           \/ \E s \in Steps : DropAssignment(s) \/ StartAssignment(s) \/ EndAssignment(s)
    PROVE  OInv'
  <1>0. Manager \notin Steps
    BY SizeAssumption
  <1>1. CASE WritePlan
    <2> USE <1>0, <1>1 DEF WritePlan, Members, Goto, Ask, Conclude
    <2>1. /\ \A t \in Steps : DependsOn(t)' = DependsOn(t) /\ DependsOn(t) \subseteq Steps
          /\ \A t \in Steps, u \in Steps : Apart(t, u)' <=> Apart(t, u)
      BY PlanStays DEF OInv
    <2>2. \A s \in Steps :
              /\ step[s] = "none"
              /\ step'[s] \in {"none", "queued"}
              /\ s[2] = 2 => step'[s] = "none"
      BY StepsAreSteps DEF OInv, TypeOK, PlacesAgree, Present
    <2>3. failures = {} /\ batch = {} /\ \A s \in Steps : turn[s] = "idle" /\ turn'[s] = "idle"
      <3>1. failures = {}
        BY <2>2 DEF OInv, TypeOK, FailuresStay
      <3>2. batch = {} /\ Active = {}
        BY DEF OInv, BatchIsSafe
      <3> QED
        BY <3>1, <3>2 DEF OInv, TypeOK, Active
    <2>4. TypeOK'
      BY <2>2, <2>3 DEF OInv, TypeOK
    <2>5. BatchIsSafe'
      BY <2>1, <2>2, <2>3 DEF OInv, TypeOK, BatchIsSafe, Active
    <2>6. RowsHaveTurns'
      BY <2>2, <2>3 DEF OInv, TypeOK, RowsHaveTurns
    <2>7. PlacesAgree'
      BY <2>2, <2>3 DEF OInv, TypeOK, PlacesAgree, Pending, Present
    <2>8. FailuresStay'
      <3>1. failures' = {}
        BY <2>3
      <3>2. \A k \in Keys : step'[<<k, 2>>] = "none"
        BY <2>2, PairsAreSteps
      <3> QED
        BY <3>1, <3>2 DEF FailuresStay
    <2>9. CardsAgree'
      BY <2>2, <2>3 DEF OInv, TypeOK, CardsAgree, PlacesAgree
    <2> QED
      BY <2>4, <2>5, <2>6, <2>7, <2>8, <2>9 DEF OInv
  <1>2. CASE RejectPlan
    <2> USE <1>0, <1>2 DEF RejectPlan, Members, Goto, Ask, Conclude
    <2>1. /\ \A t \in Steps : DependsOn(t)' = DependsOn(t) /\ DependsOn(t) \subseteq Steps
          /\ \A t \in Steps, u \in Steps : Apart(t, u)' <=> Apart(t, u)
      BY PlanStays DEF OInv
    <2>2. \A s \in Steps : step'[s] = IF step[s] = "queued" THEN "skipped" ELSE step[s]
      BY DEF Pending, OInv, TypeOK
    <2>3. TypeOK'
      BY <2>2 DEF OInv, TypeOK
    <2>4. BatchIsSafe'
      BY <2>1, <2>2 DEF OInv, TypeOK, BatchIsSafe, Active
    <2>5. RowsHaveTurns'
      BY <2>2 DEF OInv, TypeOK, RowsHaveTurns
    <2>6. PlacesAgree'
      BY <2>2 DEF OInv, TypeOK, PlacesAgree, Pending, Present
    <2>7. FailuresStay'
      BY <2>2, PairsAreSteps DEF OInv, TypeOK, FailuresStay, Active, BatchIsSafe
    <2>8. CardsAgree'
      BY <2>2 DEF OInv, TypeOK, CardsAgree, PlacesAgree
    <2> QED
      BY <2>3, <2>4, <2>5, <2>6, <2>7, <2>8 DEF OInv
  <1>3. CASE Triage
    <2> USE <1>0, <1>3 DEF Triage, Members, Goto, Ask, Conclude
    <2>1. /\ \A t \in Steps : DependsOn(t)' = DependsOn(t) /\ DependsOn(t) \subseteq Steps
          /\ \A t \in Steps, u \in Steps : Apart(t, u)' <=> Apart(t, u)
      BY PlanStays DEF OInv
    <2>2. PICK s \in failures :
              /\ s[2] = 1
              /\ step' \in {step, [step EXCEPT ![Retry(s)] = "queued"]}
              /\ failures' = failures \ {s}
      OBVIOUS
    <2>3. s \in Steps
      BY DEF OInv, TypeOK
    <2>4. s[1] \in Keys /\ s = <<s[1], 1>>
      BY <2>2, <2>3, StepsAreSteps
    <2>5. Retry(s) \in Steps /\ \A k \in Keys : <<k, 2>> = Retry(s) => <<k, 1>> = s
      BY <2>4, PairsAreSteps DEF Retry
    <2>6. step[Retry(s)] = "none" /\ step[s] \in Ended
      BY <2>4 DEF Retry, OInv, FailuresStay
    <2>7. \A t \in Steps : step'[t] = step[t] \/ (t = Retry(s) /\ step'[t] = "queued")
      BY <2>2, <2>5 DEF OInv, TypeOK
    <2>8. \A t \in Steps : turn'[t] = turn[t]
      BY DEF OInv, TypeOK, Members
    <2>9. TypeOK'
      BY <2>2, <2>3, <2>4, <2>5, <2>6, <2>7, <2>8 DEF OInv, TypeOK
    <2>10. BatchIsSafe'
      BY <2>1, <2>2, <2>3, <2>4, <2>5, <2>6, <2>7, <2>8 DEF OInv, TypeOK, BatchIsSafe, Active
    <2>11. RowsHaveTurns'
      BY <2>2, <2>3, <2>4, <2>5, <2>6, <2>7, <2>8 DEF OInv, TypeOK, RowsHaveTurns
    <2>12. PlacesAgree'
      BY <2>2, <2>3, <2>4, <2>5, <2>6, <2>7, <2>8 DEF OInv, TypeOK, PlacesAgree, Pending, Present
    <2>13. FailuresStay'
      BY <2>2, <2>3, <2>4, <2>5, <2>6, <2>7, <2>8, PairsAreSteps DEF OInv, TypeOK, FailuresStay,
            Active, BatchIsSafe
    <2>14. CardsAgree'
      BY <2>2, <2>3, <2>4, <2>5, <2>6, <2>7, <2>8 DEF OInv, TypeOK, CardsAgree, PlacesAgree
    <2> QED
      BY <2>9, <2>10, <2>11, <2>12, <2>13, <2>14 DEF OInv
  <1>4. CASE Reconcile
    <2> USE <1>0, <1>4 DEF Reconcile, Members, Goto, Ask, Conclude
    <2>1. /\ \A t \in Steps : DependsOn(t)' = DependsOn(t) /\ DependsOn(t) \subseteq Steps
          /\ \A t \in Steps, u \in Steps : Apart(t, u)' <=> Apart(t, u)
      BY PlanStays DEF OInv
    <2>2. column' \in [Steps -> Columns \cup {"none"}]
      BY ColumnsAreColumns DEF OInv, TypeOK
    <2>3. \A t \in Steps : turn'[t] = turn[t]
      BY DEF OInv, TypeOK, Members
    <2>4. TypeOK'
      BY <2>2, <2>3 DEF OInv, TypeOK
    <2>5. BatchIsSafe'
      BY <2>1, <2>2, <2>3 DEF OInv, TypeOK, BatchIsSafe, Active
    <2>6. RowsHaveTurns'
      BY <2>2, <2>3 DEF OInv, TypeOK, RowsHaveTurns
    <2>7. PlacesAgree'
      BY <2>2, <2>3 DEF OInv, TypeOK, PlacesAgree, Pending, Present
    <2>8. FailuresStay'
      BY <2>2, <2>3, PairsAreSteps DEF OInv, TypeOK, FailuresStay, Active, BatchIsSafe
    <2>9. CardsAgree'
      BY <2>2, <2>3 DEF OInv, TypeOK, CardsAgree, PlacesAgree
    <2> QED
      BY <2>4, <2>5, <2>6, <2>7, <2>8, <2>9 DEF OInv
  <1>5. ASSUME NEW s \in Steps, DropAssignment(s) PROVE OInv'
    <2> USE <1>0, <1>5 DEF DropAssignment, Members, Goto, Ask, Conclude
    <2>1. /\ \A t \in Steps : DependsOn(t)' = DependsOn(t) /\ DependsOn(t) \subseteq Steps
          /\ \A t \in Steps, u \in Steps : Apart(t, u)' <=> Apart(t, u)
      BY PlanStays DEF OInv
    <2>2. step[s] = "queued" /\ \A t \in Steps : step'[t] = IF t = s THEN "skipped" ELSE step[t]
      BY DEF Pending, OInv, TypeOK
    <2>3. TypeOK'
      BY <2>2 DEF OInv, TypeOK
    <2>4. BatchIsSafe'
      BY <2>1, <2>2 DEF OInv, TypeOK, BatchIsSafe, Active
    <2>5. RowsHaveTurns'
      BY <2>2 DEF OInv, TypeOK, RowsHaveTurns
    <2>6. PlacesAgree'
      BY <2>2 DEF OInv, TypeOK, PlacesAgree, Pending, Present
    <2>7. FailuresStay'
      BY <2>2, PairsAreSteps DEF OInv, TypeOK, FailuresStay, Active, BatchIsSafe
    <2>8. CardsAgree'
      BY <2>2 DEF OInv, TypeOK, CardsAgree, PlacesAgree
    <2> QED
      BY <2>3, <2>4, <2>5, <2>6, <2>7, <2>8 DEF OInv
  <1>6. ASSUME NEW s \in Steps, StartAssignment(s) PROVE OInv'
    <2>0. /\ pc = "working" /\ s \in batch /\ batch' = batch \ {s}
          /\ step' = [step EXCEPT ![s] = "running"]
          /\ turn' = [turn EXCEPT ![s] = "opening"]
          /\ UNCHANGED <<given, run, replans, epic, own, pc, width, reported, failures, added,
                         verdict, stops, tally>>
      BY <1>6 DEF StartAssignment
    <2>00. TypeOK /\ column' = Mirrored({s}, step')
      BY <1>6 DEF StartAssignment, OInv
    <2> USE <1>0, <2>0 DEF Members
    <2>1. /\ \A t \in Steps : DependsOn(t)' = DependsOn(t) /\ DependsOn(t) \subseteq Steps
          /\ \A t \in Steps, u \in Steps : Apart(t, u)' <=> Apart(t, u)
      BY PlanStays DEF OInv
    <2>2. /\ column' \in [Steps -> Columns \cup {"none"}]
          /\ \A t \in Steps :
                column'[t] = IF t \in {s} /\ column[t] # "none" /\ own[t] = "none"
                             THEN ColumnFor(step'[t]) ELSE column[t]
          /\ \A t \in Steps : column'[t] = "none" <=> column[t] = "none"
      BY ONLY <2>00, MirrorMoves
    <2>3. /\ step' \in [Steps -> {"none", "queued", "running", "skipped"} \cup Ended]
          /\ \A t \in Steps : step'[t] = IF t = s THEN "running" ELSE step[t]
      BY DEF OInv, TypeOK
    <2>4. /\ turn' \in [Members -> {"idle", "opening", "streaming", "fired"}]
          /\ \A t \in Steps : turn'[t] = IF t = s THEN "opening" ELSE turn[t]
      BY DEF OInv, TypeOK, Members
    <2>5. TypeOK'
      BY <2>2, <2>3, <2>4 DEF OInv, TypeOK
    <2>6. BatchIsSafe'
      BY <2>1, <2>2, <2>3, <2>4 DEF OInv, TypeOK, BatchIsSafe, Active
    <2>7. RowsHaveTurns'
      BY <2>2, <2>3, <2>4 DEF OInv, TypeOK, RowsHaveTurns
    <2>8. PlacesAgree'
      BY <2>2, <2>3, <2>4 DEF OInv, TypeOK, PlacesAgree, Pending, Present
    <2>9. FailuresStay'
      BY <2>2, <2>3, <2>4, PairsAreSteps DEF OInv, TypeOK, FailuresStay, Active, BatchIsSafe
    <2>10. CardsAgree'
      BY <2>2, <2>3, <2>4 DEF OInv, TypeOK, CardsAgree, PlacesAgree
    <2> QED
      BY <2>5, <2>6, <2>7, <2>8, <2>9, <2>10 DEF OInv
  <1>7. ASSUME NEW s \in Steps, EndAssignment(s) PROVE OInv'
    <2>0. /\ pc = "working"
          /\ \E o \in Outcomes(s) :
                /\ step' = [step EXCEPT ![s] = o]
                /\ reported' = (reported \/ o = "completed")
                /\ failures' = IF o = "completed" THEN failures ELSE failures \cup {s}
          /\ turn' = [turn EXCEPT ![s] = "idle"]
          /\ UNCHANGED <<given, run, replans, epic, own, pc, batch, width, added,
                         verdict, stops, tally>>
      BY <1>7 DEF EndAssignment
    <2>00. TypeOK /\ column' = Mirrored({s}, step')
      BY <1>7 DEF EndAssignment, OInv
    <2> USE <1>0, <2>0 DEF Members
    <2>1. /\ \A t \in Steps : DependsOn(t)' = DependsOn(t) /\ DependsOn(t) \subseteq Steps
          /\ \A t \in Steps, u \in Steps : Apart(t, u)' <=> Apart(t, u)
      BY PlanStays DEF OInv
    <2>2. /\ column' \in [Steps -> Columns \cup {"none"}]
          /\ \A t \in Steps :
                column'[t] = IF t \in {s} /\ column[t] # "none" /\ own[t] = "none"
                             THEN ColumnFor(step'[t]) ELSE column[t]
          /\ \A t \in Steps : column'[t] = "none" <=> column[t] = "none"
      BY ONLY <2>00, MirrorMoves
    <2>3. turn[s] # "idle" /\ step'[s] \in Ended /\ \A t \in Steps : t # s => step'[t] = step[t]
      BY DEF Outcomes, OInv, TypeOK
    <2>4. /\ turn' \in [Members -> {"idle", "opening", "streaming", "fired"}]
          /\ \A t \in Steps : turn'[t] = IF t = s THEN "idle" ELSE turn[t]
      BY DEF OInv, TypeOK, Members
    <2>5. step' \in [Steps -> {"none", "queued", "running", "skipped"} \cup Ended]
      BY DEF Outcomes, OInv, TypeOK
    <2>6. TypeOK'
      BY <2>2, <2>3, <2>4, <2>5 DEF OInv, TypeOK
    <2>7. BatchIsSafe'
      BY <2>1, <2>2, <2>3, <2>4, <2>5 DEF OInv, TypeOK, BatchIsSafe, Active
    <2>8. RowsHaveTurns'
      BY <2>2, <2>3, <2>4, <2>5 DEF OInv, TypeOK, RowsHaveTurns
    <2>9. PlacesAgree'
      BY <2>2, <2>3, <2>4, <2>5 DEF OInv, TypeOK, PlacesAgree, Pending, Present
    <2>10. FailuresStay'
      BY <2>2, <2>3, <2>4, <2>5, PairsAreSteps DEF OInv, TypeOK, FailuresStay, Active, BatchIsSafe
    <2>11. CardsAgree'
      BY <2>2, <2>3, <2>4, <2>5 DEF OInv, TypeOK, CardsAgree, PlacesAgree
    <2> QED
      BY <2>6, <2>7, <2>8, <2>9, <2>10, <2>11 DEF OInv
  <1> QED
    BY <1>1, <1>2, <1>3, <1>4, <1>5, <1>6, <1>7

LEMMA EndingSteps ==
    ASSUME OInv,
           \/ Finishes \/ FinishMirrors \/ CancelCloses \/ CancelMirrors \/ Restart
           \/ \E s \in Steps : OwnRunStarts(s) \/ OwnRunEnds(s)
    PROVE  OInv'
  <1>0. Manager \notin Steps
    BY SizeAssumption
  <1>1. CASE Finishes
    <2> USE <1>0, <1>1 DEF Finishes, Finish, Members, Goto, Ask, Conclude
    <2>1. /\ \A t \in Steps : DependsOn(t)' = DependsOn(t) /\ DependsOn(t) \subseteq Steps
          /\ \A t \in Steps, u \in Steps : Apart(t, u)' <=> Apart(t, u)
      BY PlanStays DEF OInv
    <2>2. verdict \in Ended
      BY DEF OInv, PlacesAgree
    <2>3. (IF run \in Ended THEN run ELSE verdict) \in Ended /\ TypeOK /\ run' \in Ended /\ step' = Settled(run')
      BY <2>2 DEF OInv
    <2>4. /\ step' \in [Steps -> {"none", "queued", "running", "skipped"} \cup Ended]
          /\ \A s \in Steps :
                /\ step[s] = "running" => step'[s] \in Ended
                /\ step[s] = "queued" => step'[s] = "skipped"
                /\ step[s] \notin {"running", "queued"} => step'[s] = step[s]
      BY <2>3, SettledMoves
    <2>5. /\ turn' \in [Members -> {"idle", "opening", "streaming", "fired"}]
          /\ \A m \in Members : turn'[m] = "idle" <=> turn[m] = "idle"
      BY DEF Interrupted, OInv, TypeOK
    <2>6. TypeOK'
      BY <2>2, <2>3, <2>4, <2>5 DEF OInv, TypeOK
    <2>7. BatchIsSafe'
      BY <2>1, <2>2, <2>3, <2>4, <2>5 DEF OInv, TypeOK, BatchIsSafe, Active
    <2>8. RowsHaveTurns'
      BY <2>2, <2>3, <2>4, <2>5 DEF OInv, TypeOK, RowsHaveTurns
    <2>9. PlacesAgree'
      BY <2>2, <2>3, <2>4, <2>5 DEF OInv, TypeOK, PlacesAgree, Pending, Present
    <2>10. FailuresStay'
      BY <2>2, <2>3, <2>4, <2>5, PairsAreSteps DEF OInv, TypeOK, FailuresStay, Active, BatchIsSafe
    <2>11. CardsAgree'
      BY <2>2, <2>3, <2>4, <2>5 DEF OInv, TypeOK, CardsAgree, PlacesAgree
    <2> QED
      BY <2>6, <2>7, <2>8, <2>9, <2>10, <2>11 DEF OInv
  <1>2. CASE FinishMirrors
    <2> USE <1>0, <1>2 DEF FinishMirrors, Members, Goto, Ask, Conclude
    <2>1. /\ \A t \in Steps : DependsOn(t)' = DependsOn(t) /\ DependsOn(t) \subseteq Steps
          /\ \A t \in Steps, u \in Steps : Apart(t, u)' <=> Apart(t, u)
      BY PlanStays DEF OInv
    <2>2. TypeOK /\ column' = Mirrored(Steps, step')
      BY DEF OInv
    <2>3. /\ column' \in [Steps -> Columns \cup {"none"}]
          /\ \A s \in Steps :
                column'[s] = IF column[s] # "none" /\ own[s] = "none"
                             THEN ColumnFor(step'[s]) ELSE column[s]
          /\ \A s \in Steps : column'[s] = "none" <=> column[s] = "none"
      BY <2>2, MirrorMoves
    <2>4. \A t \in Steps : turn'[t] = turn[t]
      BY DEF OInv, TypeOK, Members
    <2>5. TypeOK'
      BY <2>2, <2>3, <2>4 DEF OInv, TypeOK
    <2>6. BatchIsSafe'
      BY <2>1, <2>2, <2>3, <2>4 DEF OInv, TypeOK, BatchIsSafe, Active
    <2>7. RowsHaveTurns'
      BY <2>2, <2>3, <2>4 DEF OInv, TypeOK, RowsHaveTurns
    <2>8. PlacesAgree'
      BY <2>2, <2>3, <2>4 DEF OInv, TypeOK, PlacesAgree, Pending, Present
    <2>9. FailuresStay'
      BY <2>2, <2>3, <2>4, PairsAreSteps DEF OInv, TypeOK, FailuresStay, Active, BatchIsSafe
    <2>10. CardsAgree'
      BY <2>2, <2>3, <2>4 DEF OInv, TypeOK, CardsAgree, PlacesAgree
    <2> QED
      BY <2>5, <2>6, <2>7, <2>8, <2>9, <2>10 DEF OInv
  <1>3. CASE CancelCloses
    <2> USE <1>0, <1>3 DEF CancelCloses, Finish, Members, Goto, Ask, Conclude
    <2>1. /\ \A t \in Steps : DependsOn(t)' = DependsOn(t) /\ DependsOn(t) \subseteq Steps
          /\ \A t \in Steps, u \in Steps : Apart(t, u)' <=> Apart(t, u)
      BY PlanStays DEF OInv
    <2>2. TypeOK /\ run' \in Ended /\ step' = Settled(run')
      BY DEF OInv
    <2>3. /\ step' \in [Steps -> {"none", "queued", "running", "skipped"} \cup Ended]
          /\ \A s \in Steps :
                /\ step[s] = "running" => step'[s] \in Ended
                /\ step[s] = "queued" => step'[s] = "skipped"
                /\ step[s] \notin {"running", "queued"} => step'[s] = step[s]
      BY <2>2, SettledMoves
    <2>4. /\ turn' \in [Members -> {"idle", "opening", "streaming", "fired"}]
          /\ \A m \in Members : turn'[m] = "idle" <=> turn[m] = "idle"
      BY DEF Interrupted, OInv, TypeOK
    <2>5. TypeOK'
      BY <2>2, <2>3, <2>4 DEF OInv, TypeOK
    <2>6. BatchIsSafe'
      BY <2>1, <2>2, <2>3, <2>4 DEF OInv, TypeOK, BatchIsSafe, Active
    <2>7. RowsHaveTurns'
      BY <2>2, <2>3, <2>4 DEF OInv, TypeOK, RowsHaveTurns
    <2>8. PlacesAgree'
      BY <2>2, <2>3, <2>4 DEF OInv, TypeOK, PlacesAgree, Pending, Present
    <2>9. FailuresStay'
      BY <2>2, <2>3, <2>4, PairsAreSteps DEF OInv, TypeOK, FailuresStay, Active, BatchIsSafe
    <2>10. CardsAgree'
      BY <2>2, <2>3, <2>4 DEF OInv, TypeOK, CardsAgree, PlacesAgree
    <2> QED
      BY <2>5, <2>6, <2>7, <2>8, <2>9, <2>10 DEF OInv
  <1>4. CASE CancelMirrors
    <2> USE <1>0, <1>4 DEF CancelMirrors, Members, Goto, Ask, Conclude
    <2>1. /\ \A t \in Steps : DependsOn(t)' = DependsOn(t) /\ DependsOn(t) \subseteq Steps
          /\ \A t \in Steps, u \in Steps : Apart(t, u)' <=> Apart(t, u)
      BY PlanStays DEF OInv
    <2>2. TypeOK /\ column' = Mirrored(Steps, step')
      BY DEF OInv
    <2>3. /\ column' \in [Steps -> Columns \cup {"none"}]
          /\ \A s \in Steps :
                column'[s] = IF column[s] # "none" /\ own[s] = "none"
                             THEN ColumnFor(step'[s]) ELSE column[s]
          /\ \A s \in Steps : column'[s] = "none" <=> column[s] = "none"
      BY <2>2, MirrorMoves
    <2>4. TypeOK'
      BY <2>2, <2>3 DEF OInv, TypeOK
    <2>5. BatchIsSafe'
      BY <2>1, <2>2, <2>3 DEF OInv, TypeOK, BatchIsSafe, Active
    <2>6. RowsHaveTurns'
      BY <2>2, <2>3 DEF OInv, TypeOK, RowsHaveTurns
    <2>7. PlacesAgree'
      BY <2>2, <2>3 DEF OInv, TypeOK, PlacesAgree, Pending, Present
    <2>8. FailuresStay'
      BY <2>2, <2>3, PairsAreSteps DEF OInv, TypeOK, FailuresStay, Active, BatchIsSafe
    <2>9. CardsAgree'
      BY <2>2, <2>3 DEF OInv, TypeOK, CardsAgree, PlacesAgree
    <2> QED
      BY <2>4, <2>5, <2>6, <2>7, <2>8, <2>9 DEF OInv
  <1>5. CASE Restart
    <2> USE <1>0, <1>5 DEF Restart
    <2>1. /\ \A s \in Steps : DependsOn(s)' = DependsOn(s) /\ DependsOn(s) \subseteq Steps
          /\ \A s \in Steps, t \in Steps : Apart(s, t)' <=> Apart(s, t)
      BY PlanStays DEF OInv
    <2>2. /\ step' \in [Steps -> {"none", "queued", "running", "skipped"} \cup Ended]
          /\ \A s \in Steps :
                \/ step'[s] = step[s]
                \/ run = "working" /\ step[s] = "running" /\ step'[s] \in Ended
                \/ run = "working" /\ step[s] = "queued" /\ step'[s] = "skipped"
          /\ run = "working" => \A s \in Steps : step'[s] \notin {"running", "queued"}
      <3>1. TypeOK /\ "failed" \in Ended
        BY DEF OInv
      <3>2. CASE run = "working"
        BY <3>1, <3>2, SettledMoves
      <3>3. CASE run # "working"
        BY <3>1, <3>3 DEF TypeOK
      <3> QED
        BY <3>2, <3>3
    <2>3. /\ column' \in [Steps -> Columns \cup {"none"}]
          /\ \A s \in Steps : column'[s] = "none" <=> column[s] = "none"
          /\ run = "working" => \A s \in Steps :
                column'[s] # "none" /\ own[s] = "none" => column'[s] = ColumnFor(step'[s])
          /\ run # "working" => column' = column
      <3>1. TypeOK
        BY DEF OInv
      <3>2. CASE run = "working"
        <4>1. column' = Mirrored(Steps, step')
          BY <3>2
        <4> QED
          BY <3>1, <3>2, <4>1, MirrorMoves
      <3>3. CASE run # "working"
        BY <3>1, <3>3 DEF TypeOK
      <3> QED
        BY <3>2, <3>3
    <2>4. \A s \in Steps : turn'[s] = "idle" /\ (own'[s] = "none" <=> own[s] = "none")
      BY DEF Members, OInv, TypeOK
    <2>5. TypeOK'
      <3>1. /\ width' \in 1 .. MaxParallel /\ added' \in 0 .. MaxAdded
            /\ restarts' \in 0 .. MaxRestarts
        BY LimitsAssumption DEF OInv, TypeOK
      <3>2. turn' \in [Members -> {"idle", "opening", "streaming", "fired"}]
        OBVIOUS
      <3>3. own' \in [Steps -> {"none", "live", "ended"}]
        BY DEF OInv, TypeOK
      <3> QED
        BY <2>2, <2>3, <3>1, <3>2, <3>3 DEF OInv, TypeOK
    <2>6. BatchIsSafe'
      BY <2>4 DEF BatchIsSafe, Active
    <2>7. RowsHaveTurns'
      BY <2>2 DEF OInv, TypeOK, RowsHaveTurns, BatchIsSafe, PlacesAgree, Active
    <2>8. PlacesAgree'
      BY <2>2 DEF OInv, TypeOK, PlacesAgree, Pending, Present
    <2>9. FailuresStay'
      BY <2>2, <2>4, PairsAreSteps DEF OInv, TypeOK, FailuresStay, Active
    <2>10. CardsAgree'
      BY <2>2, <2>3, <2>4 DEF OInv, TypeOK, CardsAgree, PlacesAgree
    <2> QED
      BY <2>5, <2>6, <2>7, <2>8, <2>9, <2>10 DEF OInv
  <1>6. ASSUME NEW s \in Steps, OwnRunStarts(s) PROVE OInv'
    <2> USE <1>0, <1>6 DEF OwnRunStarts, Members, Goto, Ask, Conclude
    <2>1. /\ \A t \in Steps : DependsOn(t)' = DependsOn(t) /\ DependsOn(t) \subseteq Steps
          /\ \A t \in Steps, u \in Steps : Apart(t, u)' <=> Apart(t, u)
      BY PlanStays DEF OInv
    <2>2. column[s] # "none" /\ \A t \in Steps : /\ column'[t] = IF t = s THEN "running" ELSE column[t]
                /\ own'[t] = IF t = s THEN "live" ELSE own[t]
      BY DEF OInv, TypeOK
    <2>3. TypeOK'
      BY <2>2 DEF OInv, TypeOK
    <2>4. BatchIsSafe'
      BY <2>1, <2>2 DEF OInv, TypeOK, BatchIsSafe, Active
    <2>5. RowsHaveTurns'
      BY <2>2 DEF OInv, TypeOK, RowsHaveTurns
    <2>6. PlacesAgree'
      BY <2>2 DEF OInv, TypeOK, PlacesAgree, Pending, Present
    <2>7. FailuresStay'
      BY <2>2, PairsAreSteps DEF OInv, TypeOK, FailuresStay, Active, BatchIsSafe
    <2>8. CardsAgree'
      BY <2>2 DEF OInv, TypeOK, CardsAgree, PlacesAgree
    <2> QED
      BY <2>3, <2>4, <2>5, <2>6, <2>7, <2>8 DEF OInv
  <1>7. ASSUME NEW s \in Steps, OwnRunEnds(s) PROVE OInv'
    <2> USE <1>0, <1>7 DEF OwnRunEnds, Members, Goto, Ask, Conclude
    <2>1. /\ \A t \in Steps : DependsOn(t)' = DependsOn(t) /\ DependsOn(t) \subseteq Steps
          /\ \A t \in Steps, u \in Steps : Apart(t, u)' <=> Apart(t, u)
      BY PlanStays DEF OInv
    <2>2. \A t \in Steps : /\ column'[t] = IF t = s THEN column'[s] ELSE column[t]
                /\ own'[t] = IF t = s THEN "ended" ELSE own[t]
      BY DEF OInv, TypeOK
    <2>3. column' \in [Steps -> Columns \cup {"none"}] /\ column'[s] # "none"
      BY DEF OInv, TypeOK
    <2>4. \A t \in Steps : own[t] = "live" => column[t] # "none"
      BY DEF OInv, CardsAgree
    <2>5. TypeOK'
      BY <2>2, <2>3, <2>4 DEF OInv, TypeOK
    <2>6. BatchIsSafe'
      BY <2>1, <2>2, <2>3, <2>4 DEF OInv, TypeOK, BatchIsSafe, Active
    <2>7. RowsHaveTurns'
      BY <2>2, <2>3, <2>4 DEF OInv, TypeOK, RowsHaveTurns
    <2>8. PlacesAgree'
      BY <2>2, <2>3, <2>4 DEF OInv, TypeOK, PlacesAgree, Pending, Present
    <2>9. FailuresStay'
      BY <2>2, <2>3, <2>4, PairsAreSteps DEF OInv, TypeOK, FailuresStay, Active, BatchIsSafe
    <2>10. CardsAgree'
      BY <2>2, <2>3, <2>4 DEF OInv, TypeOK, CardsAgree, PlacesAgree
    <2> QED
      BY <2>5, <2>6, <2>7, <2>8, <2>9, <2>10 DEF OInv
  <1> QED
    BY <1>1, <1>2, <1>3, <1>4, <1>5, <1>6, <1>7

----------------------------------------------------------------------------
(* Batches and adjustments, which count. *)

LEMMA StepsAreFinite ==
    /\ IsFiniteSet(Steps)
    /\ \A S \in SUBSET Steps : IsFiniteSet(S) /\ Cardinality(S) \in Nat
  <1>1. IsFiniteSet(1 .. Size) /\ IsFiniteSet({1, 2})
    <2>1. {1, 2} = 1 .. 2
      OBVIOUS
    <2>2. IsFiniteSet(1 .. 2) /\ IsFiniteSet(1 .. Size)
      <3>1. 1 \in Int /\ 2 \in Int /\ Size \in Int
        BY SizeAssumption
      <3> QED
        BY <3>1, FS_Interval, Zenon
    <2> QED
      BY <2>1, <2>2
  <1>2. IsFiniteSet(Steps)
    BY <1>1, FS_Product DEF Steps, Keys
  <1> QED
    BY <1>2, FS_Subset, FS_CardinalityType

LEMMA BatchSteps ==
    ASSUME OInv, ChooseBatch
    PROVE  OInv'
  <1>0. Manager \notin Steps
    BY SizeAssumption
  <1>1. PICK B \in SUBSET Ready :
            /\ \A s, t \in B : s # t => Apart(s, t)
            /\ Cardinality(B) <= MaxParallel
            /\ batch' \subseteq B
    BY DEF ChooseBatch, IsBatch
  <1>2. B \subseteq Steps /\ batch' \subseteq Steps
    BY <1>1 DEF Ready, Pending
  <1>3. Cardinality(batch') <= MaxParallel /\ Cardinality(batch') \in Nat
    <2>1. IsFiniteSet(B) /\ Cardinality(B) \in Nat /\ Cardinality(batch') \in Nat
      BY <1>2, StepsAreFinite
    <2>2. Cardinality(batch') <= Cardinality(B)
      BY <1>1, <2>1, FS_Subset
    <2> QED
      BY <1>1, <2>1, <2>2, LimitsAssumption
  <1>4. /\ pc = "choosing" /\ pc' = "working" /\ failures' = {} /\ reported' = FALSE
        /\ width' \in 1 .. Cardinality(batch')
        /\ turn' = [turn EXCEPT ![Manager] = "idle"]
        /\ UNCHANGED <<given, rows, cards, added, verdict, stops, tally>>
    BY DEF ChooseBatch, Goto
  <1>5. width' \in 1 .. MaxParallel
    BY <1>3, <1>4, LimitsAssumption
  <1>6. /\ turn' \in [Members -> {"idle", "opening", "streaming", "fired"}]
        /\ \A s \in Steps : turn[s] = "idle" /\ turn'[s] = "idle"
    BY <1>0, <1>4 DEF Members, OInv, TypeOK, BatchIsSafe, Active
  <1>7. /\ \A t \in Steps : DependsOn(t)' = DependsOn(t) /\ DependsOn(t) \subseteq Steps
        /\ \A t \in Steps, u \in Steps : Apart(t, u)' <=> Apart(t, u)
    BY <1>4, PlanStays DEF OInv
  <1>8. \A s \in batch' : step[s] = "queued" /\ \A d \in DependsOn(s) :
                             step[d] # "queued" /\ step[d] # "running"
    <2>1. \A s \in Steps : step[s] # "running"
      BY <1>4, <1>6 DEF OInv, RowsHaveTurns, PlacesAgree
    <2>2. \A s \in batch' : s \in Pending /\ DependsOn(s) \cap Pending = {}
      BY <1>1 DEF Ready
    <2> QED
      BY <1>2, <1>7, <2>1, <2>2 DEF Pending
  <1>9. TypeOK'
    <2>1. /\ failures' = {} /\ reported' = FALSE /\ pc' \in Places
          /\ UNCHANGED <<given, rows, cards, added, verdict, stops, tally>>
      BY <1>4
    <2>2. failures' \subseteq Steps /\ reported' \in BOOLEAN
      BY <2>1
    <2>3. turn' \in [Members -> {"idle", "opening", "streaming", "fired"}]
      BY <1>6
    <2> HIDE <1>4
    <2> QED
      BY <1>2, <1>5, <2>1, <2>2, <2>3 DEF OInv, TypeOK
  <1>10. BatchIsSafe'
    BY <1>1, <1>2, <1>4, <1>6, <1>7, <1>8 DEF BatchIsSafe, Active
  <1>11. RowsHaveTurns'
    BY <1>4, <1>6 DEF OInv, RowsHaveTurns
  <1>12. PlacesAgree'
    BY <1>4 DEF OInv, PlacesAgree, Pending, Present
  <1>13. FailuresStay'
    BY <1>4, <1>6, <1>8 DEF OInv, FailuresStay, Active
  <1>14. CardsAgree'
    BY <1>4 DEF OInv, CardsAgree
  <1> QED
    BY <1>9, <1>10, <1>11, <1>12, <1>13, <1>14 DEF OInv

LEMMA RoomIsLeft ==
    ASSUME TypeOK, NEW dropped \in Nat, NEW n \in 0 .. Room(dropped)
    PROVE  n \in Nat /\ added + n <= MaxAdded
  <1>1. Cardinality(Present) \in Nat
    BY StepsAreFinite DEF Present
  <1>2. added \in Nat /\ added <= MaxAdded
    BY LimitsAssumption DEF TypeOK
  <1>3. Room(dropped) \in Nat /\ Room(dropped) <= MaxAdded - added
    BY <1>1, <1>2, LimitsAssumption DEF Room
  <1> QED
    BY <1>2, <1>3, LimitsAssumption

LEMMA AdjustSteps ==
    ASSUME OInv, Adjust
    PROVE  OInv'
  <1>0. Manager \notin Steps
    BY SizeAssumption
  <1>1. /\ pc = "adjusting" /\ pc' = "failing"
        /\ turn' = [turn EXCEPT ![Manager] = "idle"]
        /\ UNCHANGED <<given, run, replans, epic, own, batch, width, reported, failures,
                       verdict, stops, tally>>
    BY DEF Adjust, Goto
  <1>2. PICK D \in SUBSET Pending : \E n \in 0 .. Room(Cardinality(D)), new \in 0 .. Size :
            /\ added' = added + n
            /\ step' = [s \in Steps |-> CASE s \in D -> "skipped"
                                          [] s \in Newcomers(new) -> "queued"
                                          [] OTHER -> step[s]]
            /\ column' = Mirrored(D, step')
    BY DEF Adjust
  <1>3. PICK n \in 0 .. Room(Cardinality(D)), new \in 0 .. Size :
            /\ added' = added + n
            /\ step' = [s \in Steps |-> CASE s \in D -> "skipped"
                                          [] s \in Newcomers(new) -> "queued"
                                          [] OTHER -> step[s]]
            /\ column' = Mirrored(D, step')
    BY <1>2
  <1>4. added' \in 0 .. MaxAdded
    <2>1. Cardinality(D) \in Nat
      BY StepsAreFinite DEF Pending
    <2>2. n \in Nat /\ added + n <= MaxAdded
      BY <2>1, RoomIsLeft DEF OInv
    <2> QED
      BY <1>3, <2>2, LimitsAssumption DEF OInv, TypeOK
  <1>5. D \subseteq Steps /\ \A s \in D : step[s] = "queued"
    BY DEF Pending
  <1>6. \A s \in Newcomers(new) : s \in Steps /\ s[2] = 1 /\ step[s] = "none"
    BY StepsAreSteps DEF Newcomers, Steps
  <1>7. /\ step' \in [Steps -> {"none", "queued", "running", "skipped"} \cup Ended]
        /\ \A s \in Steps : \/ s \in D /\ step'[s] = "skipped"
                            \/ s \notin D /\ step[s] = "none" /\ s[2] = 1 /\ step'[s] = "queued"
                            \/ s \notin D /\ step'[s] = step[s]
    BY <1>3, <1>5, <1>6 DEF OInv, TypeOK
  <1>8. /\ column' \in [Steps -> Columns \cup {"none"}]
        /\ \A s \in Steps :
              column'[s] = IF s \in D /\ column[s] # "none" /\ own[s] = "none"
                           THEN ColumnFor(step'[s]) ELSE column[s]
        /\ \A s \in Steps : column'[s] = "none" <=> column[s] = "none"
    <2>1. TypeOK /\ column' = Mirrored(D, step')
      BY <1>3 DEF OInv
    <2> QED
      BY ONLY <2>1, MirrorMoves
  <1>9. /\ turn' \in [Members -> {"idle", "opening", "streaming", "fired"}]
        /\ batch = {} /\ \A s \in Steps : turn[s] = "idle" /\ turn'[s] = "idle"
    BY <1>0, <1>1 DEF Members, OInv, TypeOK, BatchIsSafe, Active
  <1>10. TypeOK'
    BY <1>1, <1>4, <1>7, <1>8, <1>9 DEF OInv, TypeOK
  <1>11. BatchIsSafe'
    BY <1>1, <1>9 DEF BatchIsSafe, Active
  <1>12. RowsHaveTurns'
    BY <1>1, <1>7, <1>9 DEF OInv, RowsHaveTurns
  <1>13. PlacesAgree'
    BY <1>1 DEF OInv, PlacesAgree
  <1>14. FailuresStay'
    <2>1. \A s \in failures' : step'[s] \in Ended
      BY <1>1, <1>5, <1>7 DEF OInv, TypeOK, FailuresStay
    <2>2. ASSUME NEW k \in Keys, step'[<<k, 2>>] # "none"
          PROVE  /\ <<k, 1>> \notin batch' \cup Active' \cup failures'
                 /\ step'[<<k, 1>>] \notin {"none", "queued", "running"}
      <3>1. <<k, 1>> \in Steps /\ <<k, 2>> \in Steps /\ <<k, 2>>[2] = 2
        BY PairsAreSteps
      <3>2. step[<<k, 2>>] # "none"
        BY <1>5, <1>7, <2>2, <3>1
      <3>3. <<k, 1>> \notin failures /\ step[<<k, 1>>] \notin {"none", "queued", "running"}
        BY <3>2 DEF OInv, FailuresStay
      <3> QED
        BY <1>1, <1>5, <1>7, <1>9, <3>1, <3>3 DEF Active
    <2> QED
      BY <2>1, <2>2 DEF FailuresStay
  <1>15. CardsAgree'
    <2>1. ASSUME NEW s \in Steps, step'[s] = "none" \/ ~fromCard' PROVE column'[s] = "none"
      BY <1>1, <1>5, <1>7, <1>8, <2>1 DEF OInv, CardsAgree
    <2>2. \A s \in Steps : own'[s] = "live" => column'[s] # "none"
      BY <1>1, <1>8 DEF OInv, CardsAgree
    <2>3. ASSUME NEW s \in Steps, column'[s] # "none", own'[s] = "none"
          PROVE  \/ column'[s] = ColumnFor(step'[s])
                 \/ canceller' = "mirroring" \/ late'
      <3>1. column[s] # "none" /\ own[s] = "none" /\ step[s] # "none"
        BY <1>1, <1>8, <2>3 DEF OInv, CardsAgree
      <3> QED
        BY <1>1, <1>7, <1>8, <3>1 DEF OInv, CardsAgree
    <2> QED
      BY <2>1, <2>2, <2>3 DEF CardsAgree
  <1> QED
    BY <1>10, <1>11, <1>12, <1>13, <1>14, <1>15 DEF OInv

----------------------------------------------------------------------------
(* The theorems. *)

LEMMA InitIsSafe == Init => OInv
  <1> SUFFICES ASSUME Init PROVE OInv
    OBVIOUS
  <1> USE DEF Init
  <1>1. TypeOK
    <2>1. /\ width \in 1 .. MaxParallel /\ added \in 0 .. MaxAdded
          /\ replans \in 0 .. MaxReplans /\ restarts \in 0 .. MaxRestarts
      BY LimitsAssumption
    <2>2. /\ step \in [Steps -> {"none", "queued", "running", "skipped"} \cup Ended]
          /\ column \in [Steps -> Columns \cup {"none"}]
          /\ own \in [Steps -> {"none", "live", "ended"}]
          /\ turn \in [Members -> {"idle", "opening", "streaming", "fired"}]
      OBVIOUS
    <2> QED
      BY <2>1, <2>2 DEF TypeOK
  <1>2. BatchIsSafe /\ RowsHaveTurns /\ PlacesAgree /\ FailuresStay /\ CardsAgree
    BY PairsAreSteps DEF BatchIsSafe, RowsHaveTurns, PlacesAgree, FailuresStay, CardsAgree, Active,
                         Present, Pending, Members
  <1> QED
    BY <1>1, <1>2 DEF OInv

LEMMA NextIsSafe == OInv /\ [Next]_vars => OInv'
  <1> SUFFICES ASSUME OInv, [Next]_vars PROVE OInv'
    OBVIOUS
  <1>1. CASE TeamStep \/ CancelStep \/ PersonStep \/ Restart
    BY <1>1, QuietSteps, RowSteps, EndingSteps, BatchSteps, AdjustSteps
       DEF TeamStep, CancelStep, PersonStep, PlanStep, WorkStep, EndStep
  <1>2. CASE UNCHANGED vars
    BY <1>2 DEF vars, OInv, TypeOK, BatchIsSafe, RowsHaveTurns, PlacesAgree, FailuresStay,
                CardsAgree, Active, Apart, Declared, Touches, DependsOn, Present, Pending
  <1> QED
    BY <1>1, <1>2 DEF Next

LEMMA AlwaysSafe == Spec => []OInv
  BY InitIsSafe, NextIsSafe, PTL DEF Spec

\* Every variable of a team's run keeps its type.
THEOREM TypeCorrect == Spec => []TypeOK
  <1>1. OInv => TypeOK
    BY DEF OInv
  <1> QED
    BY <1>1, AlwaysSafe, PTL

\* Whatever the plan, the additions and the second attempts, assignments that
\* are at work together have said which files they touch, and touch different
\* ones (schedule.rs, parallel_batch).
THEOREM TeamsWorkApart == Spec => []WorkIsDisjoint
  <1>1. OInv => WorkIsDisjoint
    BY DEF OInv, BatchIsSafe, WorkIsDisjoint
  <1> QED
    BY <1>1, AlwaysSafe, PTL

\* However a card's run ends, and whatever its executor and the cancel route
\* write after that, no assignment is left queued or at work (settle_steps).
THEOREM TeamsSettle == Spec => []StepsSettle
  <1>1. OInv => StepsSettle
    BY DEF OInv, BatchIsSafe, RowsHaveTurns, PlacesAgree, Active, Pending, StepsSettle, AtRest
  <1> QED
    BY <1>1, AlwaysSafe, PTL

\* The cards the team moves stand where their assignments say once the run is
\* at rest (epic.rs, mirror_run).
THEOREM BoardsFollow == Spec => []BoardFollows
  <1>1. OInv => BoardFollows
    BY DEF OInv, CardsAgree, BoardFollows, AtRest
  <1> QED
    BY <1>1, AlwaysSafe, PTL

\* Only StartAssignment puts an assignment to work.
LEMMA OnlyStartsRun ==
    ASSUME OInv, [Next]_vars, NEW s \in Steps, step[s] # "running", step'[s] = "running"
    PROVE  s \in batch
  <1> USE DEF OInv, TypeOK
  <1>0. ASSUME NEW ending \in Ended PROVE Settled(ending)[s] # "running"
    BY <1>0 DEF Settled
  <1>1. CASE PlanStep
    BY <1>1 DEF PlanStep, Dispatch, CannotStart, PlanEnds, RepairEnds, WritePlan
  <1>2. CASE WorkStep
    <2>1. ASSUME NEW t \in Steps, StartAssignment(t) PROVE s \in batch
      BY <2>1 DEF StartAssignment
    <2>2. ASSUME NEW t \in Steps, EndAssignment(t) PROVE FALSE
      BY <2>2 DEF EndAssignment, Outcomes
    <2>3. CASE Adjust
      BY <2>3 DEF Adjust
    <2>4. CASE Triage
      BY <2>4 DEF Triage
    <2>5. CASE Reconcile \/ NothingPending \/ StopsBetween \/ OutOfBudget \/ ChooseBatch
      BY <2>5 DEF Reconcile, NothingPending, StopsBetween, OutOfBudget, ChooseBatch
    <2>6. CASE BatchEnds \/ ReplanEnds \/ NoMoreFailures \/ AskAboutFailure \/ FailedTwice \/ Abort
      BY <2>6 DEF BatchEnds, ReplanEnds, NoMoreFailures, AskAboutFailure, FailedTwice, Abort
    <2> QED
      BY <1>2, <2>1, <2>2, <2>3, <2>4, <2>5, <2>6 DEF WorkStep
  <1>3. CASE EndStep
    <2>1. CASE Finishes
      BY <1>0, <2>1 DEF Finishes, Finish, PlacesAgree
    <2>2. CASE ReviewEnds \/ FinishMirrors \/ SettleCard
      BY <2>2 DEF ReviewEnds, FinishMirrors, SettleCard
    <2> QED
      BY <1>3, <2>1, <2>2 DEF EndStep
  <1>4. CASE \E m \in Members : PassGate(m)
    BY <1>4 DEF PassGate
  <1>5. CASE CancelStep
    <2>1. CASE CancelCloses
      BY <1>0, <2>1 DEF CancelCloses, Finish
    <2>2. CASE CancelSignals \/ CancelMirrors
      BY <2>2 DEF CancelSignals, CancelMirrors
    <2> QED
      BY <1>5, <2>1, <2>2 DEF CancelStep
  <1>6. CASE PersonStep
    BY <1>6 DEF PersonStep, CancelAsked, ApprovePlan, RejectPlan, DropAssignment, OwnRunStarts,
                OwnRunEnds
  <1>7. CASE Restart
    BY <1>0, <1>7 DEF Restart
  <1>8. CASE UNCHANGED vars
    BY <1>8 DEF vars
  <1> QED
    BY <1>1, <1>2, <1>3, <1>4, <1>5, <1>6, <1>7, <1>8 DEF Next, TeamStep

\* An assignment starts only when none of those it depends on is queued or at
\* work, whatever was dropped, added or tried again (schedule.rs, ready_now).
THEOREM TeamsWait == Spec => DependentsWait
  <1>1. OInv /\ [Next]_vars =>
            [\A s \in Steps :
                step[s] # "running" /\ step'[s] = "running"
                    => \A d \in DependsOn(s) : step[d] \notin {"queued", "running"}]_vars
    BY OnlyStartsRun DEF OInv, BatchIsSafe
  <1> QED
    BY <1>1, AlwaysSafe, PTL DEF Spec, DependentsWait

\* Only the executor's own finish completes a run, and only with nothing left.
LEMMA OnlyFinishCompletes ==
    ASSUME OInv, [Next]_vars, run # "completed", run' = "completed"
    PROVE  \A s \in Steps : step[s] \notin {"queued", "running"}
  <1>1. pc = "finishing" /\ verdict = "completed" /\ run \notin Ended
    <2>1. CASE PlanStep
      BY <2>1 DEF PlanStep, Dispatch, CannotStart, PlanEnds, RepairEnds, WritePlan
    <2>2. CASE WorkStep
      BY <2>2 DEF WorkStep, StartAssignment, EndAssignment, Adjust, Triage, Reconcile,
                  NothingPending, StopsBetween, OutOfBudget, ChooseBatch, BatchEnds, ReplanEnds,
                  NoMoreFailures, AskAboutFailure, FailedTwice, Abort
    <2>3. CASE EndStep
      BY <2>3 DEF EndStep, ReviewEnds, Finishes, Finish, FinishMirrors, SettleCard
    <2>4. CASE CancelStep \/ \E m \in Members : PassGate(m)
      BY <2>4 DEF CancelStep, CancelSignals, CancelCloses, Finish, CancelMirrors, PassGate
    <2>5. CASE PersonStep \/ Restart
      BY <2>5 DEF PersonStep, CancelAsked, ApprovePlan, RejectPlan, DropAssignment, OwnRunStarts,
                  OwnRunEnds, Restart
    <2>6. CASE UNCHANGED vars
      BY <2>6 DEF vars
    <2> QED
      BY <2>1, <2>2, <2>3, <2>4, <2>5, <2>6 DEF Next, TeamStep
  <1> QED
    BY <1>1 DEF OInv, BatchIsSafe, RowsHaveTurns, PlacesAgree, Active, Pending

\* A run completes only when nothing of its plan is left to sweep away
\* (work_phase).
THEOREM TeamsFinishTheirWork == Spec => NothingSweptAway
  <1>1. OInv /\ [Next]_vars =>
            [run # "completed" /\ run' = "completed" =>
                \A s \in Steps : step[s] \notin {"queued", "running"}]_vars
    BY OnlyFinishCompletes
  <1> QED
    BY <1>1, AlwaysSafe, PTL DEF Spec, NothingSweptAway

----------------------------------------------------------------------------
(* Claims. *)

\* Nothing that executes has a row; what is handed out is stamped or back from
\* a rate limit; and nothing is handed out unasked while there are limits.
Handed ==
    /\ \A r \in Runs : status[r] = "starting" => row[r] = "none"
    /\ \A r \in taken : /\ status[r] = "queued" => r \in stamped
                        /\ status[r] = "rate_limited" => r \in back
    /\ loop.at = "heading" => ~limits

\* What has begun in a window is among what it counts, and the run that the
\* loop is about to hand out has room in every budget it has asked.
BudgetRoom ==
    \A p \in Policies :
        /\ begun[p] <= Cardinality(recent[p])
        /\ cap[p] > 0 =>
              /\ begun[p] <= most[p] /\ cap[p] + credit[p] <= most[p]
              /\ loop.at = "heading" => begun[p] < most[p]
              /\ /\ loop.at = "asking"
                 /\ p \in loop.fresh \cap Covers[loop.run] /\ loop.run \notin stamped
                 => begun[p] < most[p] \/ loop.read[p] = cap[p]

\* A policy's release is still to come, or has come since the loop read it.
Releasing(p) == hand.at = "releasing" /\ hand.policy = p
Excused(p) == p \in gone \/ loop.run \in lost \/ Releasing(p)

\* A run that waits for a window is the policy's, or the policy has let it go;
\* and what the loop has read of a policy still stands, or is excused.
Waits ==
    /\ \A r \in Runs : row[r] \in Policies => held[r] = row[r] \/ r \in lost
    /\ loop.at = "limiting" => loop.until \notin Policies
    /\ loop.at = "asking" =>
          \A p \in Policies : loop.read[p] > 0 => loop.read[p] = cap[p] \/ Excused(p)
    /\ loop.at = "holding" =>
          /\ loop.over \in Policies /\ loop.until \in {"ready", loop.over}
          /\ loop.until = loop.over => Spent(loop.over, loop.run) \/ Excused(loop.over)

\* A run that has passed its agent's limits still fits in them.
Fits ==
    limits /\ loop.at \in {"reading", "asking"} /\ loop.run \in Limited =>
        /\ Cardinality(today \ {loop.run}) < MaxDaily
        /\ Cardinality(ActiveRuns \ {loop.run}) < AtOnce

CInv == ClaimsTypeOK /\ Handed /\ BudgetRoom /\ Waits /\ HeldIsSpent /\ Fits /\ LimitsKept

USE DEF runRows, counts, budgets, process, history, Clocks, Times, Nothing
USE RunsAssumption, PoliciesAssumption, CoversAssumption, AgentLimitsAssumption, BoundsAssumption

----------------------------------------------------------------------------
(* Types. *)

LEMMA UsedIsNat ==
    ASSUME ClaimsTypeOK, NEW p \in Policies
    PROVE  /\ IsFiniteSet(recent[p]) /\ Cardinality(recent[p]) \in Nat
           /\ Used(p) \in Nat /\ \A r \in Runs : Standing(p, r) \in Nat
  <1>1. recent[p] \subseteq Runs
    BY DEF ClaimsTypeOK
  <1>2. IsFiniteSet(recent[p]) /\ Cardinality(recent[p]) \in Nat
    BY <1>1, FS_Subset, FS_CardinalityType
  <1> QED
    BY <1>2 DEF ClaimsTypeOK, Used, Least, Standing

LEMMA WaitForIsTime == ASSUME NEW r \in Runs PROVE WaitFor(r) \in {"ready", "later", Today}
  BY DEF WaitFor

LEMMA NoneIs == None \in [Policies -> 0 .. MaxCap] /\ \A p \in Policies : None[p] = 0
  BY DEF None

LEMMA IdleIs ==
    /\ Idle \in Loops /\ Idle.at = "idle" /\ Idle.run = NoRun
  BY NoneIs DEF Loops, Idle

LEMMA TypeInit == ClaimsInit => ClaimsTypeOK
  <1> SUFFICES ASSUME ClaimsInit PROVE ClaimsTypeOK
    OBVIOUS
  <1>1. loop \in Loops /\ loop.at = "idle"
    BY IdleIs DEF ClaimsInit
  <1> QED
    BY <1>1, NoneIs DEF ClaimsInit, ClaimsTypeOK

\* A step of the claim that only asks.
Asks ==
    \/ \E r \in Runs : Pick(r)
    \/ AskLimits \/ ReadPolicies \/ \E p \in Policies : AskPolicy(p)

LEMMA PickMoves ==
    ASSUME ClaimsTypeOK, NEW r \in Runs, Pick(r)
    PROVE  loop' \in Loops /\ loop'.at = "picked" /\ loop'.run = r /\ row[r] = "ready"
  <1>1. ASSUME NEW l \in Loops
        PROVE  [l EXCEPT !.at = "picked", !.run = r, !.fresh = Clocks] \in Loops
    BY DEF Loops
  <1>2. loop'.at = "picked" /\ loop'.run = r /\ row[r] = "ready"
    BY IdleIs DEF Pick, Loops
  <1> QED
    BY <1>1, <1>2, IdleIs DEF Pick

LEMMA AskLimitsMoves ==
    ASSUME ClaimsTypeOK, AskLimits
    PROVE  /\ loop' \in Loops /\ loop.run \in Runs /\ loop'.run = loop.run
           /\ loop'.until = WaitFor(loop.run)
           /\ loop'.at = IF WaitFor(loop.run) = "ready" THEN "reading" ELSE "limiting"
  <1>1. WaitFor(loop.run) \in Times /\ loop.run \in Runs
    BY WaitForIsTime DEF AskLimits, ClaimsTypeOK
  <1>2. DEFINE u == WaitFor(loop.run)
               a == IF WaitFor(loop.run) = "ready" THEN "reading" ELSE "limiting"
  <1>3. loop' = [loop EXCEPT !.at = a, !.until = u]
    BY DEF AskLimits
  <1>4. a \in {"limiting", "reading"} /\ u \in Times
    BY <1>1
  <1> HIDE DEF a, u
  <1>5. LET l == [loop EXCEPT !.at = a, !.until = u]
        IN  l \in Loops /\ l.run = loop.run /\ l.until = u /\ l.at = a
    BY <1>4 DEF Loops, ClaimsTypeOK
  <1> QED
    BY <1>1, <1>3, <1>5 DEF a, u

LEMMA ReadPoliciesMoves ==
    ASSUME ClaimsTypeOK, ReadPolicies
    PROVE  /\ loop' \in Loops /\ loop.run \in Runs /\ loop'.run = loop.run
           /\ loop'.at = "asking" /\ loop'.fresh = loop.fresh
           /\ \A p \in Policies :
                 loop'.read[p] = IF p \in Covers[loop.run] THEN cap[p] ELSE 0
  <1>1. DEFINE f == [p \in Policies |-> IF p \in Covers[loop.run] THEN cap[p] ELSE 0]
  <1>2. f \in [Policies -> 0 .. MaxCap] /\ loop.run \in Runs
    BY DEF ReadPolicies, ClaimsTypeOK
  <1>3. ASSUME NEW g \in [Policies -> 0 .. MaxCap]
        PROVE  LET l == [loop EXCEPT !.at = "asking", !.read = g]
               IN  /\ l \in Loops /\ l.run = loop.run
                   /\ l.at = "asking" /\ l.fresh = loop.fresh /\ l.read = g
    BY DEF Loops, ClaimsTypeOK
  <1>4. loop' = [loop EXCEPT !.at = "asking", !.read = f]
    BY DEF ReadPolicies
  <1>5. \A p \in Policies : f[p] = IF p \in Covers[loop.run] THEN cap[p] ELSE 0
    OBVIOUS
  <1> HIDE DEF f
  <1>6. LET l == [loop EXCEPT !.at = "asking", !.read = f]
        IN  /\ l \in Loops /\ l.run = loop.run
            /\ l.at = "asking" /\ l.fresh = loop.fresh /\ l.read = f
    BY <1>2, <1>3
  <1> QED
    BY <1>2, <1>4, <1>5, <1>6

\* A policy with room is not asked again; one that is spent ends the asking.
LEMMA AskPolicyMoves ==
    ASSUME ClaimsTypeOK, NEW p \in Policies, AskPolicy(p)
    PROVE  /\ loop' \in Loops /\ loop.run \in Runs /\ loop'.run = loop.run
           /\ loop'.fresh = loop.fresh
           /\ IF Standing(p, loop.run) >= loop.read[p]
              THEN loop'.at = "holding" /\ loop'.over = p /\ loop'.until = p
              ELSE loop'.at = "asking" /\ loop'.read = [loop.read EXCEPT ![p] = 0]
  <1>1. loop \in Loops
    BY DEF ClaimsTypeOK
  <1>2. [loop EXCEPT !.read[p] = 0] = [loop EXCEPT !.read = [loop.read EXCEPT ![p] = 0]]
    OBVIOUS
  <1>3. [loop.read EXCEPT ![p] = 0] \in [Policies -> 0 .. MaxCap]
    BY <1>1 DEF Loops
  <1>4. ASSUME NEW f \in [Policies -> 0 .. MaxCap]
        PROVE  LET l == [loop EXCEPT !.read = f]
               IN  /\ l \in Loops /\ l.run = loop.run /\ l.fresh = loop.fresh
                   /\ l.at = loop.at /\ l.read = f
    BY <1>1 DEF Loops
  <1>5. DEFINE h == [loop EXCEPT !.at = "holding", !.over = p, !.until = p, !.read = None]
  <1>6. /\ h \in Loops /\ h.run = loop.run /\ h.fresh = loop.fresh
        /\ h.at = "holding" /\ h.over = p /\ h.until = p
    BY <1>1, NoneIs DEF Loops
  <1>7. loop.run \in Runs /\ loop.at = "asking"
    BY DEF AskPolicy, ClaimsTypeOK
  <1>8. CASE Standing(p, loop.run) >= loop.read[p]
    <2>1. loop' = h
      BY <1>8 DEF AskPolicy
    <2> QED
      BY <2>1, <1>6, <1>7, <1>8
  <1>9. CASE ~(Standing(p, loop.run) >= loop.read[p])
    <2>1. loop' = [loop EXCEPT !.read = [loop.read EXCEPT ![p] = 0]]
      BY <1>9, <1>2 DEF AskPolicy
    <2> QED
      BY <2>1, <1>3, <1>4, <1>7, <1>9
  <1> QED
    BY <1>8, <1>9

LEMMA TurnMoves ==
    ASSUME ClaimsTypeOK, NEW k \in Clocks, Turn(k)
    PROVE  /\ loop' \in Loops
           /\ loop'.at = loop.at /\ loop'.run = loop.run /\ loop'.read = loop.read
           /\ loop'.over = loop.over /\ loop'.fresh = loop.fresh \ {k}
           /\ loop'.until = IF loop.until = k THEN "ready" ELSE loop.until
  <1>1. loop \in Loops
    BY DEF ClaimsTypeOK
  <1> QED
    BY <1>1 DEF Turn, Loops

LEMMA AsksMoves ==
    ASSUME ClaimsTypeOK, Asks
    PROVE  /\ UNCHANGED <<runRows, counts, budgets, taken, closing, hand, begun, most, back, acts>>
           /\ lost' \subseteq lost
           /\ loop' \in Loops /\ loop'.run \in Runs /\ row[loop'.run] = "ready"
           /\ loop'.at \in {"picked", "limiting", "reading", "asking", "holding"}
  <1>1. /\ UNCHANGED <<runRows, counts, budgets, taken, closing, hand, begun, most, back, acts>>
        /\ lost' \subseteq lost
    BY DEF Asks, Pick, AskLimits, ReadPolicies, AskPolicy
  <1>2. CASE \E r \in Runs : Pick(r)
    BY <1>1, <1>2, PickMoves
  <1>3. CASE AskLimits
    <2>1. row[loop.run] = "ready"
      BY <1>3 DEF AskLimits, ClaimsTypeOK
    <2> QED
      BY <1>1, <1>3, <2>1, AskLimitsMoves
  <1>4. CASE ReadPolicies
    <2>1. row[loop.run] = "ready"
      BY <1>4 DEF ReadPolicies, ClaimsTypeOK
    <2> QED
      BY <1>1, <1>4, <2>1, ReadPoliciesMoves
  <1>5. ASSUME NEW p \in Policies, AskPolicy(p)
        PROVE  /\ loop' \in Loops /\ loop'.run \in Runs /\ row[loop'.run] = "ready"
               /\ loop'.at \in {"asking", "holding"}
    <2>1. row[loop.run] = "ready"
      BY <1>5 DEF AskPolicy, ClaimsTypeOK
    <2> QED
      BY <1>5, <2>1, AskPolicyMoves
  <1> QED
    BY <1>1, <1>2, <1>3, <1>4, <1>5 DEF Asks

LEMMA ClaimTypes ==
    ASSUME ClaimsTypeOK, Handed, ClaimStep \/ \E r \in Runs : Pick(r)
    PROVE  ClaimsTypeOK'
  <1> USE DEF ClaimsTypeOK
  <1>1. CASE Asks
    BY <1>1, AsksMoves
  <1>2. CASE Gate
    <2>1. ASSUME NEW l \in Loops
          PROVE  [l EXCEPT !.at = "heading"] \in Loops /\ [l EXCEPT !.at = "heading"].at = "heading"
      BY DEF Loops
    <2> QED
      BY <1>2, <2>1, IdleIs DEF Gate
  <1>3. CASE HoldForLimits
    <2>1. loop.until \in Times
      BY DEF Loops
    <2> QED
      BY <1>3, <2>1, IdleIs DEF HoldForLimits, Rested
  <1>4. CASE Hold
    <2>1. loop.until \in Times /\ loop.over \in Policies \cup {NoPolicy}
      BY DEF Loops
    <2> QED
      BY <1>4, <2>1, IdleIs DEF Hold, Rested
  <1>5. ASSUME NEW r \in Runs, NEW at \in SUBSET Clocks, row[r] = "ready",
               TakeRow(r), Stamp(r, at),
               UNCHANGED <<status, rested, budgets, closing, hand, most, acts>>
        PROVE  ClaimsTypeOK'
    <2>1. status[r] # "starting"
      BY <1>5 DEF Handed
    <2>2. CASE status[r] = "queued" /\ r \notin stamped
      BY <1>5, <2>1, <2>2, IdleIs DEF TakeRow, Stamp, Rested
    <2>3. CASE ~(status[r] = "queued" /\ r \notin stamped)
      BY <1>5, <2>1, <2>3, IdleIs DEF TakeRow, Stamp, Rested
    <2> QED
      BY <2>2, <2>3
  <1>6. CASE Claim
    <2>1. loop.fresh \in SUBSET Clocks
      BY DEF Loops
    <2> QED
      BY <1>5, <1>6, <2>1 DEF Claim
  <1>7. ASSUME NEW r \in Runs, ClaimHead(r)
        PROVE  ClaimsTypeOK'
    BY <1>5, <1>7 DEF ClaimHead
  <1>8. CASE HeadEmpty
    BY <1>8, IdleIs DEF HeadEmpty, Rested
  <1>9. ASSUME NEW r \in Runs, NEW cancelFails \in BOOLEAN, Deadlock(r, cancelFails)
        PROVE  ClaimsTypeOK'
    BY <1>9, IdleIs DEF Deadlock, Rested
  <1> QED
    BY <1>1, <1>2, <1>3, <1>4, <1>6, <1>7, <1>8, <1>9 DEF ClaimStep, Asks

LEMMA RunTypes ==
    ASSUME ClaimsTypeOK, Handed, NEW r \in Runs,
           RunStep(r) \/ RateLimited(r) \/ Cancel(r) \/ CancelEnds(r)
    PROVE  ClaimsTypeOK'
  <1> USE DEF ClaimsTypeOK
  <1>1. CASE Execute(r)
    BY <1>1 DEF Execute
  <1>2. ASSUME Ends(r), ~(loop.at \notin {"idle", "heading"} /\ Locked(r)),
               UNCHANGED <<budgets, loop, taken, hand, begun, most, acts>>,
               closing' \subseteq closing
        PROVE  ClaimsTypeOK'
    <2>1. \A p \in Policies : recent'[p] \subseteq stamped
      BY <1>2 DEF Ends
    <2> QED
      BY <1>2, <2>1 DEF Ends, Locked
  <1>3. CASE FinishRun(r)
    BY <1>2, <1>3 DEF FinishRun, Handed, Locked
  <1>4. CASE Ripen(r)
    BY <1>4 DEF Ripen
  <1>5. CASE RateLimited(r)
    BY <1>5 DEF RateLimited, Acts, Handed
  <1>6. CASE Cancel(r)
    BY <1>6 DEF Cancel, Acts
  <1>7. CASE CancelEnds(r)
    BY <1>2, <1>7 DEF CancelEnds
  <1> QED
    BY <1>1, <1>3, <1>4, <1>5, <1>6, <1>7 DEF RunStep

LEMMA TurnTypes ==
    ASSUME ClaimsTypeOK, NEW k \in Clocks, Turn(k)
    PROVE  ClaimsTypeOK'
  <1>1. loop' \in Loops /\ loop'.at = loop.at /\ loop'.run = loop.run
    BY TurnMoves
  <1>2. row' = [r \in Runs |-> IF row[r] = k THEN "ready" ELSE row[r]]
    BY DEF Turn
  <1>3. \A r \in Runs : row[r] \in {"none", "ready"} => row'[r] = row[r]
    BY <1>2 DEF ClaimsTypeOK
  <1>4. \A r \in Runs : row[r] # "none" => row'[r] # "none"
    BY <1>2 DEF ClaimsTypeOK
  <1> QED
    BY <1>1, <1>2, <1>3, <1>4 DEF ClaimsTypeOK, Turn

LEMMA BudgetTypes ==
    ASSUME ClaimsTypeOK, Handed,
           \/ \E p \in Policies : (\E c \in 0 .. MaxCap : Edit(p, c)) \/ Override(p) \/ Remove(p)
           \/ Release \/ Delete \/ Lift \/ ClaimsRestart \/ Recovers
    PROVE  ClaimsTypeOK'
  <1> USE DEF ClaimsTypeOK
  <1>1. ASSUME NEW p \in Policies, NEW c \in 0 .. MaxCap, Edit(p, c)
        PROVE  ClaimsTypeOK'
    BY <1>1 DEF Edit, Acts, Underway, Greater
  <1>2. ASSUME NEW p \in Policies, Override(p)
        PROVE  ClaimsTypeOK'
    BY <1>2 DEF Override, Acts, Greater
  <1>3. ASSUME NEW p \in Policies, Remove(p)
        PROVE  ClaimsTypeOK'
    BY <1>3 DEF Remove, Released, Acts, Overtakes, Locked
  <1>4. CASE Release
    BY <1>4 DEF Release, Released, Overtakes, Locked
  <1>5. CASE Delete
    BY <1>5 DEF Delete
  <1>6. CASE Lift
    <2>1. acts' \in 0 .. MaxActs
      BY <1>6 DEF Lift, Acts
    <2>2. limits' \in BOOLEAN
      BY <1>6 DEF Lift
    <2> QED
      BY <1>6, <2>1, <2>2 DEF Lift
  <1>7. CASE ClaimsRestart
    BY <1>7, IdleIs DEF ClaimsRestart, Acts
  <1>8. CASE Recovers
    BY <1>8 DEF Recovers
  <1> QED
    BY <1>1, <1>2, <1>3, <1>4, <1>5, <1>6, <1>7, <1>8

----------------------------------------------------------------------------
(* What is handed out. *)

\* The two ways out of the queue.
HandsOut(r, at) ==
    /\ row[r] = "ready"
    /\ TakeRow(r) /\ Stamp(r, at)
    /\ UNCHANGED <<status, rested, budgets, closing, hand, most, acts>>

LEMMA Outs ==
    ASSUME ClaimsTypeOK, Claim \/ \E r \in Runs : ClaimHead(r)
    PROVE  \E r \in Runs, at \in SUBSET Clocks :
              /\ HandsOut(r, at)
              /\ \/ loop.at = "asking" /\ loop.read = None /\ r = loop.run /\ at = loop.fresh
                 \/ loop.at = "heading"
  <1>1. CASE Claim
    <2>1. loop.fresh \in SUBSET Clocks /\ loop.run \in Runs /\ row[loop.run] = "ready"
      BY <1>1 DEF ClaimsTypeOK, Loops, Claim
    <2> QED
      BY <1>1, <2>1 DEF Claim, HandsOut
  <1>2. ASSUME NEW r \in Runs, ClaimHead(r)
        PROVE  HandsOut(r, Clocks) /\ loop.at = "heading"
    BY <1>2 DEF ClaimHead, HandsOut
  <1> QED
    BY <1>1, <1>2

\* The loop lets its run go, and counts nothing.
LetsGo == HoldForLimits \/ Hold \/ HeadEmpty

LEMMA ClaimSteps ==
    ClaimStep \/ (\E r \in Runs : Pick(r)) <=>
        \/ Asks \/ Gate \/ LetsGo
        \/ Claim \/ (\E r \in Runs : ClaimHead(r))
        \/ \E r \in Runs, cancelFails \in BOOLEAN : Deadlock(r, cancelFails)
  BY DEF ClaimStep, Asks, LetsGo

LEMMA HandedByClaim ==
    ASSUME ClaimsTypeOK, Handed, ClaimStep \/ \E r \in Runs : Pick(r)
    PROVE  Handed'
  <1> USE DEF Handed
  <1>1. CASE Asks
    BY <1>1, AsksMoves
  <1>2. CASE Gate
    BY <1>2 DEF Gate
  <1>3. CASE LetsGo
    BY <1>3, IdleIs DEF LetsGo, HoldForLimits, Hold, HeadEmpty, Rested, ClaimsTypeOK
  <1>4. ASSUME NEW r \in Runs, NEW at \in SUBSET Clocks, HandsOut(r, at)
        PROVE  Handed'
    <2>1. status[r] # "starting" /\ row'[r] = "none"
      BY <1>4 DEF HandsOut, TakeRow, ClaimsTypeOK
    <2>2. stamped \subseteq stamped' /\ (status[r] = "queued" => r \in stamped')
      BY <1>4 DEF HandsOut, Stamp
    <2>3. back \subseteq back' /\ (status[r] = "rate_limited" => r \in back')
      BY <1>4 DEF HandsOut, TakeRow
    <2> QED
      BY <1>4, <2>1, <2>2, <2>3, IdleIs DEF HandsOut, TakeRow, Rested, ClaimsTypeOK
  <1>5. ASSUME NEW r \in Runs, NEW cancelFails \in BOOLEAN, Deadlock(r, cancelFails)
        PROVE  Handed'
    BY <1>5, IdleIs DEF Deadlock, Rested
  <1> QED
    BY <1>1, <1>2, <1>3, <1>4, <1>5, Outs, ClaimSteps

LEMMA HandedByOthers ==
    ASSUME ClaimsTypeOK, Handed, ClaimsNext
    PROVE  Handed' \/ ClaimStep \/ \E r \in Runs : Pick(r)
  <1> USE DEF ClaimsTypeOK, Handed
  <1>1. ASSUME NEW r \in Runs, Execute(r) \/ Ripen(r)
        PROVE  Handed'
    BY <1>1 DEF Execute, Ripen
  <1>2. ASSUME NEW r \in Runs, FinishRun(r) \/ CancelEnds(r)
        PROVE  Handed'
    BY <1>2 DEF FinishRun, CancelEnds, Ends
  <1>3. ASSUME NEW r \in Runs, RateLimited(r) \/ Cancel(r)
        PROVE  Handed'
    BY <1>3 DEF RateLimited, Cancel
  <1>4. ASSUME NEW k \in Clocks, Turn(k)
        PROVE  Handed'
    BY <1>4, TurnMoves DEF Turn
  <1>5. ASSUME NEW p \in Policies, (\E c \in 0 .. MaxCap : Edit(p, c)) \/ Override(p)
        PROVE  Handed'
    BY <1>5 DEF Edit, Override
  <1>6. ASSUME NEW p \in Policies, Released(p),
               UNCHANGED <<status, stamped, limits, loop, taken, back>>
        PROVE  Handed'
    BY <1>6 DEF Released
  <1>7. ASSUME NEW p \in Policies, Remove(p)
        PROVE  Handed'
    BY <1>6, <1>7 DEF Remove
  <1>8. CASE Release
    BY <1>6, <1>8 DEF Release
  <1>9. CASE Delete \/ Lift \/ Recovers
    BY <1>9 DEF Delete, Lift, Recovers
  <1>10. CASE ClaimsRestart
    <2>1. loop'.at = "idle" /\ taken' = {}
      BY <1>10, IdleIs DEF ClaimsRestart
    <2>2. \A r \in Runs : status'[r] # "starting"
      BY <1>10 DEF ClaimsRestart
    <2> QED
      BY <2>1, <2>2
  <1> QED
    BY <1>1, <1>2, <1>3, <1>4, <1>5, <1>7, <1>8, <1>9, <1>10 DEF ClaimsNext, RunStep

----------------------------------------------------------------------------
(* What begins in a window. *)

LEMMA Grows ==
    ASSUME ClaimsTypeOK, NEW p \in Policies, NEW S \in SUBSET Runs, recent[p] \subseteq S
    PROVE  Cardinality(S) \in Nat /\ Cardinality(recent[p]) <= Cardinality(S)
  <1>1. IsFiniteSet(S)
    BY FS_Subset
  <1> QED
    BY <1>1, FS_Subset, FS_CardinalityType

\* Room of one policy, and the part of it that is about the loop.
RoomFor(p) ==
    cap[p] > 0 =>
        /\ loop.at = "heading" => begun[p] < most[p]
        /\ /\ loop.at = "asking"
           /\ p \in loop.fresh \cap Covers[loop.run] /\ loop.run \notin stamped
           => begun[p] < most[p] \/ loop.read[p] = cap[p]
Counted(p) ==
    /\ begun[p] <= Cardinality(recent[p])
    /\ cap[p] > 0 => begun[p] <= most[p] /\ cap[p] + credit[p] <= most[p]

LEMMA RoomIs == BudgetRoom <=> \A p \in Policies : Counted(p) /\ RoomFor(p)
  BY DEF BudgetRoom, RoomFor, Counted

\* A step that counts nothing, and changes no budget and nothing the loop has
\* asked.
LEMMA RoomStands ==
    ASSUME BudgetRoom, UNCHANGED <<begun, recent, cap, credit, most, stamped>>,
           loop' = loop \/ loop'.at \notin {"heading", "asking"}
    PROVE  BudgetRoom'
  BY DEF BudgetRoom

LEMMA RoomByClaim ==
    ASSUME ClaimsTypeOK, BudgetRoom, ClaimStep \/ \E r \in Runs : Pick(r)
    PROVE  BudgetRoom'
  <1>1. CASE Gate
    <2>1. \A p \in Policies : cap'[p] = 0
      BY <1>1 DEF Gate
    <2> QED
      BY <1>1, <2>1 DEF Gate, BudgetRoom, ClaimsTypeOK
  <1>2. CASE (\E r \in Runs : Pick(r)) \/ AskLimits
    BY <1>2, RoomStands, AsksMoves, PickMoves, AskLimitsMoves DEF Asks
  <1>3. CASE ReadPolicies
    BY <1>3, AsksMoves, ReadPoliciesMoves DEF Asks, BudgetRoom, ClaimsTypeOK
  <1>4. ASSUME NEW p \in Policies, AskPolicy(p)
        PROVE  BudgetRoom'
    <2>1. /\ UNCHANGED <<begun, recent, cap, credit, most, stamped>>
          /\ loop'.run = loop.run /\ loop'.fresh = loop.fresh
      BY <1>4, AskPolicyMoves DEF AskPolicy
    <2>2. CASE Standing(p, loop.run) >= loop.read[p]
      BY <1>4, <2>1, <2>2, AskPolicyMoves, RoomStands
    <2>3. CASE ~(Standing(p, loop.run) >= loop.read[p])
      <3>1. /\ loop'.at = "asking" /\ loop.at = "asking"
            /\ loop'.read = [loop.read EXCEPT ![p] = 0]
            /\ loop.read \in [Policies -> 0 .. MaxCap] /\ loop.run \in Runs
        BY <1>4, <2>3, AskPolicyMoves DEF AskPolicy, ClaimsTypeOK, Loops
      <3>2. ASSUME loop.run \notin stamped, loop.read[p] = cap[p], cap[p] > 0
            PROVE  begun[p] < most[p]
        <4>1. Used(p) < cap[p]
          BY <2>3, <3>1, <3>2, UsedIsNat DEF Standing, ClaimsTypeOK
        <4>2. Cardinality(recent[p]) < cap[p] + credit[p]
          BY <4>1, UsedIsNat DEF Used, Least, ClaimsTypeOK
        <4> QED
          BY <4>2, <3>2, UsedIsNat DEF BudgetRoom, ClaimsTypeOK
      <3> QED
        BY <2>1, <3>1, <3>2 DEF BudgetRoom
    <2> QED
      BY <2>2, <2>3
  <1>5. CASE LetsGo
    BY <1>5, IdleIs, RoomStands DEF LetsGo, HoldForLimits, Hold, HeadEmpty, Rested
  <1>6. ASSUME NEW r \in Runs, NEW at \in SUBSET Clocks, HandsOut(r, at),
               \/ loop.at = "asking" /\ loop.read = None /\ r = loop.run /\ at = loop.fresh
               \/ loop.at = "heading"
        PROVE  BudgetRoom'
    <2>1. loop'.at = "idle" /\ UNCHANGED <<cap, credit, most>>
      BY <1>6, IdleIs DEF HandsOut, TakeRow, Rested
    <2>2. CASE ~(status[r] = "queued" /\ r \notin stamped)
      BY <1>6, <2>1, <2>2 DEF HandsOut, Stamp, BudgetRoom
    <2>3. CASE status[r] = "queued" /\ r \notin stamped
      <3>1. ASSUME NEW p \in Policies
            PROVE  Counted(p)'
        <4>1. CASE p \notin at \cap Covers[r]
          <5>1. begun'[p] = begun[p] /\ recent'[p] = recent[p]
            BY <1>6, <2>3, <4>1 DEF HandsOut, Stamp, ClaimsTypeOK
          <5> QED
            BY <2>1, <5>1 DEF BudgetRoom, Counted
        <4>2. CASE p \in at \cap Covers[r]
          <5>1. begun'[p] = begun[p] + 1 /\ recent'[p] = recent[p] \cup {r}
            BY <1>6, <2>3, <4>2 DEF HandsOut, Stamp, ClaimsTypeOK
          <5>2. r \notin recent[p]
            BY <2>3 DEF ClaimsTypeOK
          <5>3. Cardinality(recent'[p]) = Cardinality(recent[p]) + 1
            BY <5>1, <5>2, UsedIsNat, FS_AddElement
          <5>4. cap[p] > 0 => begun[p] < most[p]
            BY <1>6, <2>3, <4>2, NoneIs DEF BudgetRoom
          <5> QED
            BY <2>1, <5>1, <5>3, <5>4, UsedIsNat DEF BudgetRoom, Counted, ClaimsTypeOK
        <4> QED
          BY <4>1, <4>2
      <3> QED
        BY <2>1, <3>1 DEF BudgetRoom, Counted
    <2> QED
      BY <2>2, <2>3
  <1>7. ASSUME NEW r \in Runs, NEW cancelFails \in BOOLEAN, Deadlock(r, cancelFails)
        PROVE  BudgetRoom'
    BY <1>7, IdleIs, RoomStands DEF Deadlock, Rested
  <1> QED
    BY <1>1, <1>2, <1>3, <1>4, <1>5, <1>6, <1>7, Outs, ClaimSteps DEF Asks

\* Runs that have ended are counted in the window they end in.
LEMMA RoomGrows ==
    ASSUME ClaimsTypeOK, BudgetRoom,
           \A p \in Policies : recent[p] \subseteq recent'[p] /\ recent'[p] \subseteq Runs,
           UNCHANGED <<begun, cap, credit, most, stamped>>,
           loop' = loop \/ loop'.at = "idle"
    PROVE  BudgetRoom'
  <1>1. \A p \in Policies : begun'[p] <= Cardinality(recent'[p])
    BY Grows, UsedIsNat DEF BudgetRoom, ClaimsTypeOK
  <1> QED
    BY <1>1 DEF BudgetRoom

LEMMA RoomByOthers ==
    ASSUME ClaimsTypeOK, BudgetRoom, ClaimsNext
    PROVE  BudgetRoom' \/ ClaimStep \/ \E r \in Runs : Pick(r)
  <1>1. ASSUME NEW r \in Runs, Execute(r) \/ Ripen(r) \/ RateLimited(r) \/ Cancel(r)
        PROVE  BudgetRoom'
    BY <1>1, RoomStands DEF Execute, Ripen, RateLimited, Cancel
  <1>2. ASSUME NEW r \in Runs, FinishRun(r) \/ CancelEnds(r)
        PROVE  BudgetRoom'
    <2>1. Ends(r) /\ UNCHANGED <<begun, cap, credit, most, loop>>
      BY <1>2 DEF FinishRun, CancelEnds
    <2>2. \A p \in Policies : recent[p] \subseteq recent'[p] /\ recent'[p] \subseteq Runs
      BY <2>1 DEF Ends, ClaimsTypeOK
    <2> QED
      BY <2>1, <2>2, RoomGrows DEF Ends
  <1>3. ASSUME NEW k \in Clocks, Turn(k)
        PROVE  BudgetRoom'
    <2>1. ASSUME NEW p \in Policies
          PROVE  Counted(p)' /\ RoomFor(p)'
      <3>1. CASE p = k
        <4>1. /\ begun'[p] = 0 /\ recent'[p] = {} /\ credit'[p] = 0
              /\ most'[p] = cap[p] /\ cap' = cap
          BY <1>3, <3>1 DEF Turn
        <4>2. p \notin loop'.fresh
          BY <1>3, <3>1, TurnMoves
        <4>3. Cardinality(recent'[p]) = 0 /\ cap[p] \in Nat
          BY <4>1, FS_EmptySet DEF ClaimsTypeOK
        <4> QED
          BY <4>1, <4>2, <4>3 DEF Counted, RoomFor
      <3>2. CASE p # k
        <4>1. /\ begun'[p] = begun[p] /\ recent'[p] = recent[p] /\ credit'[p] = credit[p]
              /\ most'[p] = most[p] /\ cap' = cap /\ stamped' = stamped
          BY <1>3, <3>2 DEF Turn, ClaimsTypeOK
        <4>2. /\ loop'.at = loop.at /\ loop'.run = loop.run /\ loop'.read = loop.read
              /\ loop'.fresh \subseteq loop.fresh
          BY <1>3, TurnMoves
        <4> QED
          BY <4>1, <4>2, RoomIs DEF Counted, RoomFor
      <3> QED
        BY <3>1, <3>2
    <2> QED
      BY <2>1 DEF BudgetRoom, RoomFor, Counted
  <1>4. ASSUME NEW p \in Policies, NEW c \in 0 .. MaxCap, Edit(p, c)
        PROVE  BudgetRoom'
    <2>1. ASSUME NEW q \in Policies
          PROVE  Counted(q)' /\ RoomFor(q)'
      <3>1. UNCHANGED <<begun, recent, credit, stamped, loop>>
        BY <1>4 DEF Edit
      <3>2. CASE q # p
        BY <1>4, <3>1, <3>2, RoomIs DEF Edit, Counted, RoomFor, ClaimsTypeOK
      <3>3. CASE q = p
        <4>1. /\ cap'[q] = c
              /\ c > 0 => /\ begun[q] + Underway <= most'[q]
                          /\ c + credit[q] <= most'[q]
          BY <1>4, <3>3 DEF Edit, Greater, Underway, ClaimsTypeOK
        <4>2. Underway \in {0, 1} /\ (loop.at \in {"heading", "asking"} => Underway = 1)
          BY DEF Underway
        <4>3. begun[q] \in Nat /\ most'[q] \in Nat /\ begun[q] <= Cardinality(recent[q])
          BY <1>4, BudgetTypes, <4>1 DEF BudgetRoom, Edit, Greater, Underway, ClaimsTypeOK
        <4> QED
          BY <3>1, <4>1, <4>2, <4>3 DEF Counted, RoomFor
      <3> QED
        BY <3>2, <3>3
    <2> QED
      BY <2>1 DEF BudgetRoom, RoomFor, Counted
  <1>5. ASSUME NEW p \in Policies, Override(p)
        PROVE  BudgetRoom'
    <2>1. /\ UNCHANGED <<begun, recent, cap, stamped, loop>>
          /\ \A q \in Policies : cap[q] > 0 =>
                most[q] <= most'[q] /\ cap[q] + credit'[q] <= most'[q]
      BY <1>5 DEF Override, Greater, ClaimsTypeOK, BudgetRoom
    <2> QED
      BY <2>1, <1>5 DEF BudgetRoom, ClaimsTypeOK, Override, Greater
  <1>6. CASE Delete
    BY <1>6 DEF Delete, BudgetRoom, ClaimsTypeOK
  <1>7. ASSUME NEW p \in Policies, Remove(p)
        PROVE  BudgetRoom'
    BY <1>7, RoomStands DEF Remove
  <1>8. CASE Release \/ Lift \/ Recovers
    BY <1>8, RoomStands DEF Release, Lift, Recovers
  <1>9. CASE ClaimsRestart
    <2>1. \A p \in Policies : recent[p] \subseteq recent'[p] /\ recent'[p] \subseteq Runs
      BY <1>9 DEF ClaimsRestart, ClaimsTypeOK
    <2> QED
      BY <1>9, <2>1, RoomGrows, IdleIs DEF ClaimsRestart
  <1> QED
    BY <1>1, <1>2, <1>3, <1>4, <1>5, <1>6, <1>7, <1>8, <1>9 DEF ClaimsNext, RunStep

----------------------------------------------------------------------------
(* What waits for a window. *)

\* A budget that is spent stays so while its cap and its overrides do.
LEMMA SpentStands ==
    ASSUME ClaimsTypeOK, NEW p \in Policies, NEW r \in Runs, Spent(p, r),
           cap'[p] = cap[p], credit'[p] = credit[p],
           recent[p] \subseteq recent'[p], recent'[p] \subseteq Runs,
           r \in stamped' <=> r \in stamped
    PROVE  Spent(p, r)'
  <1>1. Cardinality(recent'[p]) \in Nat /\ Cardinality(recent[p]) <= Cardinality(recent'[p])
    BY Grows
  <1>2. Cardinality(recent[p]) \in Nat /\ credit[p] \in Nat /\ cap[p] \in Nat
    BY UsedIsNat DEF ClaimsTypeOK
  <1> QED
    BY <1>1, <1>2 DEF Spent, Standing, Used, Least

\* Of one run: who made it wait, and for what.
Waiting(r) ==
    row[r] \in Policies =>
        /\ held[r] = row[r] \/ r \in lost
        /\ Spent(row[r], r) \/ r \in lost \/ Releasing(row[r])

\* Of the loop: what it has read still stands.
ReadsStand ==
    /\ loop.at = "limiting" => loop.until \notin Policies
    /\ loop.at = "asking" =>
          \A p \in Policies : loop.read[p] > 0 => loop.read[p] = cap[p] \/ Excused(p)
    /\ loop.at = "holding" =>
          /\ loop.over \in Policies /\ loop.until \in {"ready", loop.over}
          /\ loop.until = loop.over => Spent(loop.over, loop.run) \/ Excused(loop.over)

LEMMA WaitsAre == Waits /\ HeldIsSpent <=> (\A r \in Runs : Waiting(r)) /\ ReadsStand
  BY DEF Waits, HeldIsSpent, Waiting, ReadsStand, Releasing

\* A step that makes no run wait, lets none go and changes no budget.
NobodyWaits ==
    /\ UNCHANGED <<cap, credit, gone, hand>>
    /\ \A p \in Policies : recent[p] \subseteq recent'[p] /\ recent'[p] \subseteq Runs
    /\ \A r \in Runs : row'[r] \in Policies =>
          /\ row'[r] = row[r] /\ held'[r] = held[r]
          /\ r \in lost => r \in lost'
          /\ r \in stamped' <=> r \in stamped

LEMMA WaitingStands ==
    ASSUME ClaimsTypeOK, NobodyWaits, NEW r \in Runs, Waiting(r)
    PROVE  Waiting(r)'
  <1>1. Spent(row[r], r) /\ row'[r] \in Policies => Spent(row[r], r)'
    BY SpentStands DEF NobodyWaits
  <1> QED
    BY <1>1 DEF Waiting, NobodyWaits, Releasing

LEMMA NobodyWaitsStands ==
    ASSUME ClaimsTypeOK, Waits, HeldIsSpent, NobodyWaits,
           \/ loop'.at \notin {"limiting", "asking", "holding"}
           \/ /\ UNCHANGED <<loop, stamped>>
              /\ loop.at \in {"asking", "holding"} /\ loop.run \in lost => loop.run \in lost'
    PROVE  Waits' /\ HeldIsSpent'
  <1>1. \A r \in Runs : Waiting(r)'
    BY WaitsAre, WaitingStands
  <1>2. CASE loop'.at \notin {"limiting", "asking", "holding"}
    BY <1>1, <1>2 DEF Waits, HeldIsSpent, Waiting, Releasing
  <1>3. CASE /\ UNCHANGED <<loop, stamped>>
             /\ loop.at \in {"asking", "holding"} /\ loop.run \in lost => loop.run \in lost'
    <2>1. ASSUME loop.at = "holding", Spent(loop.over, loop.run)
          PROVE  Spent(loop.over, loop.run)'
      <3>1. loop.over \in Policies /\ loop.run \in Runs
        BY <2>1 DEF Waits, ClaimsTypeOK
      <3> QED
        BY <1>3, <2>1, <3>1, SpentStands DEF NobodyWaits
    <2>2. ReadsStand'
      BY <1>3, <2>1, WaitsAre DEF ReadsStand, NobodyWaits, Excused, Releasing
    <2> QED
      BY <1>1, <2>2 DEF Waits, HeldIsSpent, Waiting, ReadsStand, Releasing
  <1> QED
    BY <1>2, <1>3

LEMMA WaitsByClaim ==
    ASSUME ClaimsTypeOK, Waits, HeldIsSpent, ClaimStep \/ \E r \in Runs : Pick(r)
    PROVE  Waits' /\ HeldIsSpent'
  <1>a. \A p \in Policies : recent[p] \subseteq Runs
    BY DEF ClaimsTypeOK
  <1>1. CASE Gate
    BY <1>1, <1>a, IdleIs, NobodyWaitsStands DEF Gate, NobodyWaits, ClaimsTypeOK, Idle
  <1>2. ASSUME NEW r \in Runs, Pick(r)
        PROVE  Waits' /\ HeldIsSpent'
    BY <1>2, <1>a, PickMoves, NobodyWaitsStands DEF Pick, NobodyWaits
  <1>3. ASSUME AskLimits \/ ReadPolicies \/ \E p \in Policies : AskPolicy(p)
        PROVE  UNCHANGED lost /\ \A r \in Runs : Waiting(r)'
    <2>1. NobodyWaits /\ UNCHANGED lost
      BY <1>3, <1>a DEF AskLimits, ReadPolicies, AskPolicy, NobodyWaits
    <2> QED
      BY <2>1, WaitsAre, WaitingStands
  <1>4. CASE AskLimits
    <2>1. ReadsStand'
      BY <1>4, AskLimitsMoves, WaitForIsTime DEF ReadsStand, ClaimsTypeOK
    <2> QED
      BY <1>3, <1>4, <2>1 DEF Waits, HeldIsSpent, Waiting, ReadsStand, Releasing
  <1>5. CASE ReadPolicies
    <2>1. ReadsStand'
      BY <1>5, ReadPoliciesMoves DEF ReadsStand, ReadPolicies
    <2> QED
      BY <1>3, <1>5, <2>1 DEF Waits, HeldIsSpent, Waiting, ReadsStand, Releasing
  <1>6. ASSUME NEW p \in Policies, AskPolicy(p)
        PROVE  Waits' /\ HeldIsSpent'
    <2>1. /\ loop.at = "asking" /\ loop.run \in Runs /\ loop'.run = loop.run
          /\ loop.read[p] > 0 /\ loop.read \in [Policies -> 0 .. MaxCap]
          /\ UNCHANGED <<counts, budgets, hand, lost>>
      BY <1>6, AskPolicyMoves DEF AskPolicy, ClaimsTypeOK, Loops
    <2>2. CASE Standing(p, loop.run) >= loop.read[p]
      <3>1. loop'.at = "holding" /\ loop'.over = p /\ loop'.until = p
        BY <1>6, <2>2, AskPolicyMoves
      <3>2. Spent(p, loop.run) \/ Excused(p)
        BY <2>1, <2>2 DEF Waits, Spent
      <3>3. Spent(p, loop.run)' \/ Excused(p)'
        BY <2>1, <3>2 DEF Spent, Standing, Used, Least, Excused, Releasing
      <3>4. ReadsStand'
        BY <2>1, <3>1, <3>3 DEF ReadsStand
      <3> QED
        BY <1>3, <1>6, <3>4 DEF Waits, HeldIsSpent, Waiting, ReadsStand, Releasing
    <2>3. CASE ~(Standing(p, loop.run) >= loop.read[p])
      <3>1. loop'.at = "asking" /\ loop'.read = [loop.read EXCEPT ![p] = 0]
        BY <1>6, <2>3, AskPolicyMoves
      <3>2. ReadsStand'
        BY <2>1, <3>1 DEF Waits, ReadsStand, Excused, Releasing
      <3> QED
        BY <1>3, <1>6, <3>2 DEF Waits, HeldIsSpent, Waiting, ReadsStand, Releasing
    <2> QED
      BY <2>2, <2>3
  <1>7. CASE HoldForLimits
    <2>1. loop.until \notin Policies /\ loop.run \in Runs
      BY <1>7 DEF HoldForLimits, Waits, ClaimsTypeOK
    <2>2. NobodyWaits
      BY <1>7, <1>a, <2>1 DEF HoldForLimits, NobodyWaits, ClaimsTypeOK
    <2> QED
      BY <1>7, <2>2, IdleIs, NobodyWaitsStands DEF HoldForLimits, Rested
  <1>8. CASE Hold
    <2>1. /\ loop.over \in Policies /\ loop.until \in {"ready", loop.over} /\ loop.run \in Runs
          /\ loop.until = loop.over => Spent(loop.over, loop.run) \/ Excused(loop.over)
      BY <1>8 DEF Hold, Waits, ClaimsTypeOK
    <2>2. loop'.at = "idle" /\ UNCHANGED <<status, counts, budgets, hand, lost>>
      BY <1>8, IdleIs DEF Hold, Rested
    <2>3. \A p \in Policies, r \in Runs : Spent(p, r) => Spent(p, r)'
      BY <2>2 DEF Spent, Standing, Used, Least
    <2>4. ASSUME NEW r \in Runs
          PROVE  Waiting(r)'
      <3>1. CASE row'[r] = row[r] /\ held'[r] = held[r]
        BY <2>2, <2>3, <3>1, WaitsAre DEF Waiting, Releasing
      <3>2. CASE /\ r = loop.run /\ loop.over \notin gone
                 /\ row'[r] = loop.until /\ held'[r] = loop.over
        BY <2>1, <2>2, <2>3, <3>2 DEF Waiting, Excused, Releasing
      <3> QED
        BY <1>8, <3>1, <3>2 DEF Hold, ClaimsTypeOK
    <2> QED
      BY <2>2, <2>4 DEF Waits, HeldIsSpent, Waiting, Releasing
  <1>9. CASE HeadEmpty
    BY <1>9, <1>a, IdleIs, NobodyWaitsStands DEF HeadEmpty, Rested, NobodyWaits
  <1>10. ASSUME NEW r \in Runs, NEW at \in SUBSET Clocks, HandsOut(r, at)
         PROVE  Waits' /\ HeldIsSpent'
    <2>1. NobodyWaits
      <3>1. \A p \in Policies : recent[p] \subseteq recent'[p] /\ recent'[p] \subseteq Runs
        BY <1>10, <1>a DEF HandsOut, Stamp, ClaimsTypeOK
      <3>2. \A s \in Runs \ {r} : /\ row'[s] = row[s] /\ held'[s] = held[s]
                                  /\ s \in lost => s \in lost'
                                  /\ s \in stamped' <=> s \in stamped
        BY <1>10 DEF HandsOut, TakeRow, Stamp, ClaimsTypeOK
      <3>3. row'[r] \notin Policies
        BY <1>10 DEF HandsOut, TakeRow, ClaimsTypeOK
      <3> QED
        BY <1>10, <3>1, <3>2, <3>3 DEF NobodyWaits, HandsOut
    <2> QED
      BY <1>10, <2>1, IdleIs, NobodyWaitsStands DEF HandsOut, TakeRow, Rested
  <1>11. ASSUME NEW r \in Runs, NEW cancelFails \in BOOLEAN, Deadlock(r, cancelFails)
         PROVE  Waits' /\ HeldIsSpent'
    <2>1. NobodyWaits /\ UNCHANGED <<stamped, lost>>
      BY <1>11, <1>a DEF Deadlock, NobodyWaits
    <2> QED
      BY <1>11, <2>1, IdleIs, NobodyWaitsStands DEF Deadlock, Rested
  <1> QED
    BY <1>1, <1>2, <1>4, <1>5, <1>6, <1>7, <1>8, <1>9, <1>10, <1>11, Outs, ClaimSteps
       DEF Asks, LetsGo

LEMMA WaitsByRuns ==
    ASSUME ClaimsTypeOK, Handed, Waits, HeldIsSpent, NEW r \in Runs,
           RunStep(r) \/ RateLimited(r) \/ Cancel(r) \/ CancelEnds(r)
    PROVE  Waits' /\ HeldIsSpent'
  <1>a. \A p \in Policies : recent[p] \subseteq Runs
    BY DEF ClaimsTypeOK
  <1>1. CASE Execute(r) \/ Cancel(r)
    BY <1>1, <1>a, NobodyWaitsStands DEF Execute, Cancel, NobodyWaits
  <1>2. CASE Ripen(r) \/ RateLimited(r)
    BY <1>2, <1>a, NobodyWaitsStands DEF Ripen, RateLimited, NobodyWaits, ClaimsTypeOK
  <1>3. ASSUME Ends(r), ~(loop.at \in {"asking", "holding"} /\ Locked(r)),
               UNCHANGED <<budgets, loop, hand>>
        PROVE  Waits' /\ HeldIsSpent'
    <2>1. NobodyWaits
      <3>1. \A p \in Policies : recent[p] \subseteq recent'[p] /\ recent'[p] \subseteq Runs
        BY <1>3, <1>a DEF Ends
      <3>2. row'[r] \notin Policies
        BY <1>3 DEF Ends, ClaimsTypeOK
      <3> QED
        BY <1>3, <3>1, <3>2 DEF Ends, NobodyWaits, ClaimsTypeOK
    <2> QED
      BY <1>3, <2>1, NobodyWaitsStands DEF Ends, Locked
  <1>4. CASE FinishRun(r)
    <2>1. ~(loop.at \in {"asking", "holding"} /\ Locked(r))
      BY <1>4 DEF FinishRun, Locked, ClaimsTypeOK, Handed
    <2> QED
      BY <1>3, <1>4, <2>1 DEF FinishRun
  <1>5. CASE CancelEnds(r)
    BY <1>3, <1>5 DEF CancelEnds
  <1> QED
    BY <1>1, <1>2, <1>4, <1>5 DEF RunStep

LEMMA WaitsByTurn ==
    ASSUME ClaimsTypeOK, Waits, HeldIsSpent, NEW k \in Clocks, Turn(k)
    PROVE  Waits' /\ HeldIsSpent'
  <1>1. UNCHANGED <<held, stamped, cap, gone, hand, lost>>
    BY DEF Turn
  <1>2. ASSUME NEW p \in Policies, p # k
        PROVE  recent'[p] = recent[p] /\ credit'[p] = credit[p]
    BY <1>2 DEF Turn
  <1>3. ASSUME NEW p \in Policies, p # k, NEW r \in Runs, Spent(p, r)
        PROVE  Spent(p, r)'
    BY <1>1, <1>2, <1>3 DEF Spent, Standing, Used, Least
  <1>4. ASSUME NEW r \in Runs
        PROVE  Waiting(r)'
    <2>1. row'[r] = IF row[r] = k THEN "ready" ELSE row[r]
      BY DEF Turn
    <2> QED
      BY <1>1, <1>3, <2>1, WaitsAre DEF Waiting, Releasing
  <1>5. ReadsStand'
    <2>1. /\ loop'.at = loop.at /\ loop'.run = loop.run /\ loop'.read = loop.read
          /\ loop'.over = loop.over
          /\ loop'.until = IF loop.until = k THEN "ready" ELSE loop.until
      BY TurnMoves
    <2>2. CASE loop.at = "holding"
      <3>1. loop.over \in Policies /\ loop.run \in Runs
        BY <2>2 DEF Waits, ClaimsTypeOK
      <3> QED
        BY <1>1, <1>3, <2>1, <2>2, <3>1 DEF Waits, ReadsStand, Excused, Releasing
    <2>3. CASE loop.at # "holding"
      BY <1>1, <2>1, <2>3 DEF Waits, ReadsStand, Excused, Releasing
    <2> QED
      BY <2>2, <2>3
  <1> QED
    BY <1>4, <1>5 DEF Waits, HeldIsSpent, Waiting, ReadsStand, Releasing

\* Another budget, or more of it: what it holds, it is about to release.
LEMMA WaitsByChange ==
    ASSUME ClaimsTypeOK, Waits, HeldIsSpent, NEW p \in Policies,
           (\E c \in 0 .. MaxCap : Edit(p, c)) \/ Override(p)
    PROVE  Waits' /\ HeldIsSpent'
  <1>1. /\ UNCHANGED <<runRows, counts, gone, loop, lost>>
        /\ hand.at = "idle" /\ hand' = [at |-> "releasing", policy |-> p]
    BY DEF Edit, Override
  <1>2. \A q \in Policies \ {p} : cap'[q] = cap[q] /\ credit'[q] = credit[q]
    BY DEF Edit, Override, ClaimsTypeOK
  <1>3. ASSUME NEW q \in Policies \ {p}, NEW r \in Runs, Spent(q, r)
        PROVE  Spent(q, r)'
    BY <1>1, <1>2, <1>3 DEF Spent, Standing, Used, Least
  <1>4. Releasing(p)' /\ \A q \in Policies : ~Releasing(q)
    BY <1>1 DEF Releasing
  <1>5. ASSUME NEW r \in Runs
        PROVE  Waiting(r)'
    BY <1>1, <1>3, <1>4, WaitsAre DEF Waiting
  <1>6. ReadsStand'
    <2>1. loop.at = "holding" => loop.over \in Policies /\ loop.run \in Runs
      BY DEF Waits, ClaimsTypeOK
    <2> QED
      BY <1>1, <1>2, <1>3, <1>4, <2>1 DEF Waits, ReadsStand, Excused
  <1> QED
    BY <1>5, <1>6 DEF Waits, HeldIsSpent, Waiting, ReadsStand, Releasing

\* A release lets go of all it holds, and the loop knows no better.
LEMMA WaitsByRelease ==
    ASSUME ClaimsTypeOK, Waits, HeldIsSpent, NEW p \in Policies, Released(p),
           hand.at = "idle" \/ Releasing(p), hand'.at # "releasing",
           UNCHANGED <<counts, budgets, loop>>
    PROVE  Waits' /\ HeldIsSpent'
  <1>1. \A q \in Policies : ~Releasing(q)' /\ (Releasing(q) => q = p)
    BY DEF Releasing
  <1>2. /\ lost \subseteq lost'
        /\ Overtakes(p) => loop.run \in lost'
    BY DEF Released
  <1>3. \A q \in Policies, r \in Runs : Spent(q, r) => Spent(q, r)'
    BY DEF Spent, Standing, Used, Least
  <1>4. ASSUME NEW r \in Runs
        PROVE  Waiting(r)'
    <2>1. /\ row'[r] = IF held[r] = p THEN "ready" ELSE row[r]
          /\ held[r] # p => held'[r] = held[r]
      BY DEF Released
    <2> QED
      BY <1>1, <1>2, <1>3, <2>1, WaitsAre DEF Waiting
  <1>5. ReadsStand'
    <2>1. loop.at = "holding" => loop.over \in Policies /\ loop.run \in Runs
      BY DEF Waits, ClaimsTypeOK
    <2> QED
      BY <1>1, <1>2, <1>3, <2>1 DEF Waits, ReadsStand, Excused, Overtakes
  <1> QED
    BY <1>4, <1>5 DEF Waits, HeldIsSpent, Waiting, ReadsStand, Releasing

LEMMA WaitsByDelete ==
    ASSUME ClaimsTypeOK, Waits, HeldIsSpent, Delete
    PROVE  Waits' /\ HeldIsSpent'
  <1>1. PICK p \in Policies : p = hand.policy
    BY DEF Delete, ClaimsTypeOK
  <1>2. /\ UNCHANGED <<row, counts, loop>>
        /\ gone' = gone \cup {p} /\ lost' = lost \cup {r \in Runs : held[r] = p}
        /\ \A q \in Policies : ~Releasing(q)
        /\ \A q \in Policies : ~Releasing(q)'
    BY <1>1 DEF Delete, Releasing
  <1>3. \A q \in Policies \ {p} : cap'[q] = cap[q] /\ credit'[q] = credit[q]
    BY <1>1 DEF Delete, ClaimsTypeOK
  <1>4. ASSUME NEW q \in Policies \ {p}, NEW r \in Runs, Spent(q, r)
        PROVE  Spent(q, r)'
    BY <1>2, <1>3, <1>4 DEF Spent, Standing, Used, Least
  <1>5. ASSUME NEW r \in Runs
        PROVE  Waiting(r)'
    <2>1. held[r] # p => held'[r] = held[r]
      BY <1>1 DEF Delete
    <2> QED
      BY <1>2, <1>4, <2>1, WaitsAre DEF Waiting
  <1>6. ReadsStand'
    <2>1. loop.at = "holding" => loop.over \in Policies /\ loop.run \in Runs
      BY DEF Waits, ClaimsTypeOK
    <2> QED
      BY <1>2, <1>3, <1>4, <2>1 DEF Waits, ReadsStand, Excused
  <1> QED
    BY <1>5, <1>6 DEF Waits, HeldIsSpent, Waiting, ReadsStand, Releasing

\* A release that a restart forgets has let its runs go.
LEMMA WaitsByRestart ==
    ASSUME ClaimsTypeOK, Waits, HeldIsSpent, ClaimsRestart
    PROVE  Waits' /\ HeldIsSpent'
  <1>1. loop'.at = "idle" /\ UNCHANGED <<held, stamped, budgets>>
    BY IdleIs DEF ClaimsRestart
  <1>2. /\ lost \subseteq lost' /\ \A p \in Policies : ~Releasing(p)'
        /\ \A p \in Policies, r \in Runs : Releasing(p) /\ held[r] = p => r \in lost'
    BY DEF ClaimsRestart, Releasing
  <1>3. \A p \in Policies : recent[p] \subseteq recent'[p] /\ recent'[p] \subseteq Runs
    BY DEF ClaimsRestart, ClaimsTypeOK
  <1>4. ASSUME NEW r \in Runs
        PROVE  Waiting(r)'
    <2>1. row'[r] \in Policies => row'[r] = row[r]
      BY DEF ClaimsRestart
    <2>2. \A p \in Policies : Spent(p, r) => Spent(p, r)'
      BY <1>1, <1>3, SpentStands
    <2> QED
      BY <1>1, <1>2, <2>1, <2>2, WaitsAre DEF Waiting
  <1> QED
    BY <1>1, <1>4 DEF Waits, HeldIsSpent, Waiting, Releasing

LEMMA WaitsByOthers ==
    ASSUME ClaimsTypeOK, Handed, Waits, HeldIsSpent, ClaimsNext
    PROVE  (Waits' /\ HeldIsSpent') \/ ClaimStep \/ \E r \in Runs : Pick(r)
  <1>1. ASSUME NEW p \in Policies, Remove(p)
        PROVE  Waits' /\ HeldIsSpent'
    BY <1>1, WaitsByRelease DEF Remove
  <1>2. CASE Release
    <2>1. hand.policy \in Policies /\ Releasing(hand.policy)
      BY <1>2 DEF Release, Releasing, ClaimsTypeOK
    <2> QED
      BY <1>2, <2>1, WaitsByRelease DEF Release
  <1>3. CASE Lift \/ Recovers
    <2>1. NobodyWaits /\ UNCHANGED <<loop, stamped, lost>>
      BY <1>3 DEF Lift, Recovers, NobodyWaits, ClaimsTypeOK
    <2> QED
      BY <2>1, <1>3, NobodyWaitsStands
  <1> QED
    BY <1>1, <1>2, <1>3, WaitsByRuns, WaitsByTurn, WaitsByChange, WaitsByDelete, WaitsByRestart
       DEF ClaimsNext

----------------------------------------------------------------------------
(* The agent's limits. *)

LEMMA Fewer ==
    ASSUME NEW S \in SUBSET Runs, NEW T \in SUBSET S
    PROVE  /\ IsFiniteSet(S) /\ Cardinality(S) \in Nat
           /\ Cardinality(T) \in Nat /\ Cardinality(T) <= Cardinality(S)
  <1>1. IsFiniteSet(S)
    BY FS_Subset
  <1> QED
    BY <1>1, FS_Subset, FS_CardinalityType

\* One more at most.
LEMMA OneMore ==
    ASSUME NEW S \in SUBSET Runs, NEW T \in SUBSET Runs, NEW r, S \subseteq T \cup {r}
    PROVE  Cardinality(S) <= Cardinality(T \ {r}) + 1
  <1>1. (T \ {r}) \cup {r} = T \cup {r} /\ r \notin T \ {r} /\ T \ {r} \in SUBSET Runs
    OBVIOUS
  <1>2. IsFiniteSet(T \ {r}) /\ Cardinality(T \ {r}) \in Nat
    BY <1>1, Fewer
  <1>3. /\ IsFiniteSet((T \ {r}) \cup {r})
        /\ Cardinality((T \ {r}) \cup {r}) = Cardinality(T \ {r}) + 1
    BY <1>1, <1>2, FS_AddElement
  <1>4. Cardinality(S) <= Cardinality((T \ {r}) \cup {r})
    BY <1>1, <1>3, FS_Subset
  <1> QED
    BY <1>3, <1>4

LEMMA ActiveIs == ClaimsTypeOK => ActiveRuns \in SUBSET Runs /\ today \in SUBSET Runs
  BY DEF ActiveRuns, ClaimsTypeOK

\* A step that puts no run of the agent to work, and none to the day's count.
LEMMA FitsStands ==
    ASSUME ClaimsTypeOK, Fits, LimitsKept, ActiveRuns' \subseteq ActiveRuns, today' \subseteq today,
           limits' => limits,
           loop'.at \in {"reading", "asking"} =>
              loop.at \in {"reading", "asking"} /\ loop'.run = loop.run
    PROVE  Fits' /\ LimitsKept'
  <1>1. ActiveRuns \in SUBSET Runs /\ today \in SUBSET Runs
    BY ActiveIs
  <1>2. /\ Cardinality(ActiveRuns') <= Cardinality(ActiveRuns) /\ Cardinality(ActiveRuns') \in Nat
        /\ Cardinality(today') <= Cardinality(today) /\ Cardinality(today') \in Nat
        /\ Cardinality(ActiveRuns) \in Nat /\ Cardinality(today) \in Nat
    BY <1>1, Fewer
  <1>3. ASSUME NEW r
        PROVE  /\ Cardinality(ActiveRuns' \ {r}) <= Cardinality(ActiveRuns \ {r})
               /\ Cardinality(ActiveRuns' \ {r}) \in Nat /\ Cardinality(ActiveRuns \ {r}) \in Nat
               /\ Cardinality(today' \ {r}) <= Cardinality(today \ {r})
               /\ Cardinality(today' \ {r}) \in Nat /\ Cardinality(today \ {r}) \in Nat
    <2>1. /\ ActiveRuns \ {r} \in SUBSET Runs /\ ActiveRuns' \ {r} \in SUBSET (ActiveRuns \ {r})
          /\ today \ {r} \in SUBSET Runs /\ today' \ {r} \in SUBSET (today \ {r})
      BY <1>1
    <2> QED
      BY <2>1, Fewer
  <1>4. LimitsKept'
    BY <1>2 DEF LimitsKept
  <1>5. Fits'
    <2>1. DEFINE q == loop'.run
    <2>2. loop'.at \in {"reading", "asking"} => q = loop.run
      OBVIOUS
    <2>3. /\ Cardinality(ActiveRuns' \ {q}) <= Cardinality(ActiveRuns \ {q})
          /\ Cardinality(ActiveRuns' \ {q}) \in Nat /\ Cardinality(ActiveRuns \ {q}) \in Nat
          /\ Cardinality(today' \ {q}) <= Cardinality(today \ {q})
          /\ Cardinality(today' \ {q}) \in Nat /\ Cardinality(today \ {q}) \in Nat
      BY <1>3
    <2> HIDE DEF q
    <2>4. ASSUME limits', loop'.at \in {"reading", "asking"}, q \in Limited
          PROVE  /\ Cardinality(today' \ {q}) < MaxDaily
                 /\ Cardinality(ActiveRuns' \ {q}) < AtOnce
      <3>1. Cardinality(today \ {q}) < MaxDaily /\ Cardinality(ActiveRuns \ {q}) < AtOnce
        BY <2>2, <2>4 DEF Fits
      <3> QED
        BY <2>3, <3>1
    <2> QED
      BY <2>4 DEF Fits, q
  <1> QED
    BY <1>4, <1>5

LEMMA FitsByClaim ==
    ASSUME ClaimsTypeOK, Handed, Fits, LimitsKept, ClaimStep \/ \E r \in Runs : Pick(r)
    PROVE  Fits' /\ LimitsKept'
  <1>1. ASSUME Asks
        PROVE  UNCHANGED <<ActiveRuns, today, limits>>
    BY <1>1, AsksMoves DEF ActiveRuns
  <1>2. ASSUME NEW r \in Runs, Pick(r)
        PROVE  Fits' /\ LimitsKept'
    BY <1>1, <1>2, PickMoves, FitsStands DEF Asks
  <1>3. CASE AskLimits
    <2>1. CASE WaitFor(loop.run) # "ready"
      BY <1>1, <1>3, <2>1, AskLimitsMoves, FitsStands DEF Asks
    <2>2. CASE WaitFor(loop.run) = "ready"
      <3>1. loop'.at = "reading" /\ loop'.run = loop.run
        BY <1>3, <2>2, AskLimitsMoves
      <3>2. ASSUME limits, loop.run \in Limited
            PROVE  /\ Cardinality(today \ {loop.run}) < MaxDaily
                   /\ Cardinality(Working(loop.run)) < AtOnce
        <4>1. /\ ~(Cardinality(today \ {loop.run}) >= MaxDaily)
              /\ ~(Cardinality(Working(loop.run)) >= AtOnce)
          BY <2>2, <3>2 DEF WaitFor
        <4>2. today \ {loop.run} \in SUBSET Runs /\ Working(loop.run) \in SUBSET Runs
          BY DEF ClaimsTypeOK, Working
        <4>3. Cardinality(today \ {loop.run}) \in Nat /\ Cardinality(Working(loop.run)) \in Nat
          BY <4>2, Fewer
        <4> QED
          BY <4>1, <4>3
      <3>3. ActiveRuns \ {loop.run} \subseteq Working(loop.run) /\ Working(loop.run) \in SUBSET Runs
        BY DEF ActiveRuns, Working, Handed, ClaimsTypeOK
      <3>4. /\ Cardinality(ActiveRuns \ {loop.run}) <= Cardinality(Working(loop.run))
            /\ Cardinality(ActiveRuns \ {loop.run}) \in Nat
            /\ Cardinality(Working(loop.run)) \in Nat
        BY <3>3, Fewer
      <3>5. limits /\ loop.run \in Limited =>
               /\ Cardinality(today \ {loop.run}) < MaxDaily
               /\ Cardinality(ActiveRuns \ {loop.run}) < AtOnce
        BY <3>2, <3>4
      <3> QED
        BY <1>1, <1>3, <3>1, <3>5 DEF Asks, Fits, LimitsKept
    <2> QED
      BY <2>1, <2>2
  <1>4. CASE ReadPolicies
    BY <1>1, <1>4, ReadPoliciesMoves, FitsStands DEF Asks, ReadPolicies
  <1>5. ASSUME NEW p \in Policies, AskPolicy(p)
        PROVE  Fits' /\ LimitsKept'
    BY <1>1, <1>5, AskPolicyMoves, FitsStands DEF Asks, AskPolicy
  <1>6. CASE LetsGo \/ Gate
    <2>1. UNCHANGED <<ActiveRuns, today, limits>> /\ loop'.at \notin {"reading", "asking"}
      BY <1>6, IdleIs DEF LetsGo, HoldForLimits, Hold, HeadEmpty, Rested, Gate, ActiveRuns, Idle
    <2> QED
      BY <2>1, FitsStands
  <1>7. ASSUME NEW r \in Runs, NEW at \in SUBSET Clocks, HandsOut(r, at),
               \/ loop.at = "asking" /\ loop.read = None /\ r = loop.run /\ at = loop.fresh
               \/ loop.at = "heading"
        PROVE  Fits' /\ LimitsKept'
    <2>1. loop'.at = "idle" /\ UNCHANGED <<status, limits>>
      BY <1>7, IdleIs DEF HandsOut, TakeRow, Rested
    <2>2. CASE ~limits
      BY <2>1, <2>2 DEF Fits, LimitsKept
    <2>3. CASE limits
      <3>1. loop.at = "asking" /\ r = loop.run
        BY <1>7, <2>3 DEF Handed
      <3>2. ActiveRuns' \subseteq ActiveRuns \cup ({r} \cap Limited)
        BY <1>7, <2>1 DEF HandsOut, TakeRow, ActiveRuns
      <3>3. today' \subseteq today \cup ({r} \cap Limited)
        BY <1>7 DEF HandsOut, Stamp
      <3>4. CASE r \notin Limited
        BY <2>1, <3>2, <3>3, <3>4, FitsStands
      <3>5. CASE r \in Limited
        <4>1. ActiveRuns \in SUBSET Runs /\ today \in SUBSET Runs
          BY ActiveIs
        <4>2. /\ Cardinality(ActiveRuns') <= Cardinality(ActiveRuns \ {r}) + 1
              /\ Cardinality(today') <= Cardinality(today \ {r}) + 1
          BY <3>2, <3>3, <4>1, OneMore
        <4>3. /\ Cardinality(ActiveRuns \ {r}) < AtOnce /\ Cardinality(today \ {r}) < MaxDaily
          BY <2>3, <3>1, <3>5 DEF Fits
        <4>4. /\ ActiveRuns' \in SUBSET Runs /\ today' \in SUBSET Runs
              /\ ActiveRuns \ {r} \in SUBSET Runs /\ today \ {r} \in SUBSET Runs
          BY <3>2, <3>3, <4>1
        <4>5. /\ Cardinality(ActiveRuns') \in Nat /\ Cardinality(today') \in Nat
              /\ Cardinality(ActiveRuns \ {r}) \in Nat /\ Cardinality(today \ {r}) \in Nat
          BY <4>4, Fewer
        <4>6. Cardinality(ActiveRuns') <= AtOnce /\ Cardinality(today') <= MaxDaily
          BY <4>2, <4>3, <4>5
        <4> QED
          BY <2>1, <4>6 DEF Fits, LimitsKept
      <3> QED
        BY <3>4, <3>5
    <2> QED
      BY <2>2, <2>3
  <1>8. ASSUME NEW r \in Runs, NEW cancelFails \in BOOLEAN, Deadlock(r, cancelFails)
        PROVE  Fits' /\ LimitsKept'
    <2>1. UNCHANGED <<ActiveRuns, today, limits>>
          /\ (loop'.at \in {"reading", "asking"} => loop' = loop)
      BY <1>8, IdleIs DEF Deadlock, Rested, ActiveRuns
    <2> QED
      BY <2>1, FitsStands
  <1> QED
    BY <1>2, <1>3, <1>4, <1>5, <1>6, <1>7, <1>8, Outs, ClaimSteps DEF Asks

LEMMA FitsByOthers ==
    ASSUME ClaimsTypeOK, Handed, Fits, LimitsKept, ClaimsNext
    PROVE  (Fits' /\ LimitsKept') \/ ClaimStep \/ \E r \in Runs : Pick(r)
  <1>1. ASSUME NEW r \in Runs, RunStep(r) \/ RateLimited(r) \/ Cancel(r) \/ CancelEnds(r)
        PROVE  Fits' /\ LimitsKept'
    <2>1. UNCHANGED <<today, limits, loop>>
      BY <1>1 DEF RunStep, Execute, FinishRun, Ends, Ripen, RateLimited, Cancel, CancelEnds
    <2>2. ActiveRuns' \subseteq ActiveRuns
      <3>1. CASE Execute(r)
        BY <3>1 DEF Execute, ActiveRuns, Handed, ClaimsTypeOK
      <3>2. CASE FinishRun(r) \/ CancelEnds(r)
        BY <3>2 DEF FinishRun, CancelEnds, Ends, ActiveRuns, ClaimsTypeOK
      <3>3. CASE Ripen(r) \/ RateLimited(r) \/ Cancel(r)
        BY <3>3 DEF Ripen, RateLimited, Cancel, ActiveRuns, ClaimsTypeOK
      <3> QED
        BY <1>1, <3>1, <3>2, <3>3 DEF RunStep
    <2> QED
      BY <2>1, <2>2, FitsStands
  <1>2. ASSUME NEW k \in Clocks, Turn(k)
        PROVE  Fits' /\ LimitsKept'
    <2>1. ActiveRuns' = ActiveRuns /\ today' \subseteq today /\ limits' = limits
      BY <1>2 DEF Turn, ActiveRuns
    <2> QED
      BY <1>2, <2>1, TurnMoves, FitsStands
  <1>3. ASSUME NEW p \in Policies, (\E c \in 0 .. MaxCap : Edit(p, c)) \/ Override(p) \/ Remove(p)
        PROVE  Fits' /\ LimitsKept'
    <2>1. UNCHANGED <<ActiveRuns, today, limits, loop>>
      BY <1>3 DEF Edit, Override, Remove, ActiveRuns
    <2> QED
      BY <2>1, FitsStands
  <1>4. CASE Release \/ Delete \/ Recovers
    <2>1. UNCHANGED <<ActiveRuns, today, limits, loop>>
      BY <1>4 DEF Release, Delete, Recovers, ActiveRuns
    <2> QED
      BY <2>1, FitsStands
  <1>5. CASE Lift
    BY <1>5 DEF Lift, Fits, LimitsKept
  <1>6. CASE ClaimsRestart
    <2>1. ActiveRuns' \subseteq ActiveRuns /\ UNCHANGED <<today, limits>> /\ loop'.at = "idle"
      BY <1>6, IdleIs DEF ClaimsRestart, ActiveRuns
    <2> QED
      BY <2>1, FitsStands
  <1> QED
    BY <1>1, <1>2, <1>3, <1>4, <1>5, <1>6 DEF ClaimsNext

----------------------------------------------------------------------------
(* The theorems. *)

LEMMA CInit == ClaimsInit => CInv
  <1> SUFFICES ASSUME ClaimsInit PROVE CInv
    OBVIOUS
  <1>1. loop.at = "idle"
    BY IdleIs DEF ClaimsInit
  <1>2. ClaimsTypeOK
    BY TypeInit
  <1>3. Handed
    BY <1>1 DEF ClaimsInit, Handed
  <1>4. BudgetRoom
    <2>1. ASSUME NEW p \in Policies
          PROVE  begun[p] = 0 /\ recent[p] = {} /\ credit[p] = 0 /\ most[p] = cap[p]
                 /\ cap[p] \in Nat
      BY NoneIs, <1>2 DEF ClaimsInit, ClaimsTypeOK
    <2>2. \A p \in Policies : Cardinality(recent[p]) = 0
      BY <2>1, FS_EmptySet
    <2> QED
      BY <1>1, <2>1, <2>2 DEF BudgetRoom
  <1>5. Waits /\ HeldIsSpent
    BY <1>1 DEF ClaimsInit, Waits, HeldIsSpent
  <1>6. Fits /\ LimitsKept
    <2>1. today = {} /\ ActiveRuns = {}
      BY DEF ClaimsInit, ActiveRuns
    <2> QED
      BY <1>1, <2>1, FS_EmptySet DEF Fits, LimitsKept
  <1> QED
    BY <1>2, <1>3, <1>4, <1>5, <1>6 DEF CInv

LEMMA CNext == CInv /\ ClaimsNext => CInv'
  <1> SUFFICES ASSUME CInv, ClaimsNext PROVE CInv'
    OBVIOUS
  <1> USE DEF CInv
  <1>1. CASE ClaimStep \/ \E r \in Runs : Pick(r)
    BY <1>1, ClaimTypes, HandedByClaim, RoomByClaim, WaitsByClaim, FitsByClaim
  <1>2. CASE ~(ClaimStep \/ \E r \in Runs : Pick(r))
    <2>1. ClaimsTypeOK'
      BY <1>2, RunTypes, TurnTypes, BudgetTypes DEF ClaimsNext
    <2> QED
      BY <1>2, <2>1, HandedByOthers, RoomByOthers, WaitsByOthers, FitsByOthers
  <1> QED
    BY <1>1, <1>2

LEMMA CStutters == CInv /\ UNCHANGED claimsVars => CInv'
  <1> SUFFICES ASSUME CInv, UNCHANGED claimsVars PROVE CInv'
    OBVIOUS
  <1> USE DEF claimsVars, CInv
  <1>1. ClaimsTypeOK'
    BY DEF ClaimsTypeOK
  <1>2. Handed' /\ BudgetRoom'
    BY DEF Handed, BudgetRoom
  <1>3. Waits' /\ HeldIsSpent'
    BY DEF Waits, HeldIsSpent, Spent, Standing, Used, Excused, Releasing
  <1>4. Fits' /\ LimitsKept'
    BY DEF Fits, LimitsKept, ActiveRuns
  <1> QED
    BY <1>1, <1>2, <1>3, <1>4

THEOREM CInvHolds == ClaimsSpec => []CInv
  BY CInit, CNext, CStutters, PTL DEF ClaimsSpec

\* The queue's rows and their holds, the counts, and where a claim, a cancel
\* and a budget's request stand (claim_next, budgets.rs).
THEOREM ClaimsTypeCorrect == ClaimsSpec => []ClaimsTypeOK
  BY CInvHolds, PTL DEF CInv

\* However many runs, budgets and requests there are: no more runs begin in a
\* budget's window than it has had room for (claim_next, usage).
THEOREM CapsAreKept == ClaimsSpec => []CapKept
  <1>1. BudgetRoom => CapKept
    BY DEF BudgetRoom, CapKept
  <1> QED
    BY <1>1, CInvHolds, PTL DEF CInv

\* A run waits for a window only while its budget is spent, or its release has
\* overtaken the claim (hold_until, release_held).
THEOREM HoldsAreSpent == ClaimsSpec => []HeldIsSpent
  BY CInvHolds, PTL DEF CInv

\* An agent's limits, but for runs back from a rate limit (load_of, wait_for).
THEOREM LimitsAreKept == ClaimsSpec => []LimitsKept
  BY CInvHolds, PTL DEF CInv
=============================================================================
