-------------------------- MODULE ReviewLoopProofs --------------------------
(***************************************************************************)
(* What ReviewLoop keeps for any number of runs, tasks, rounds, fixes and  *)
(* restarts: its types, what an approval is worth, and what Merge lands.   *)
(***************************************************************************)
EXTENDS ReviewLoop, TLAPS

\* While nobody works on the card, content no verdict has seen comes from work
\* that ended without completing.
VerdictsCover == covered /\ unjudged /\ ~cutShort => Live /\ trigger \in Work

\* Since Merge looked, either a run has started or nobody works and, when the
\* gate was open, the content has been judged.
DoorsLooked ==
    /\ gated <= n
    /\ merge = "merging" /\ n = gated => ~Live
    /\ merge = "merging" /\ n = gated /\ ~forced => ~unjudged \/ cutShort

RInv == TypeOK /\ VerdictsCover /\ DoorsLooked

\* The conjuncts of TypeOK about the card's runs, and the others.
RunTypes ==
    /\ n \in 0 .. MaxRuns
    /\ trigger \in Work \cup Passive \cup {"none"}
    /\ state \in {"queued", "planning", "parked", "working", "ended"}
    /\ round \in Nat
    /\ verdict \in Verdicts
    /\ verdict # "none" => trigger = "peer_review"
    /\ rounds \in Nat
    /\ attempts \in Nat
CardTypes ==
    /\ column \in {"running", "review", "done"}
    /\ worktree \in BOOLEAN
    /\ covered \in BOOLEAN
    /\ latest \in Verdicts
    /\ check \in {"void", "pending", "passed", "failed"}
    /\ fresh \in BOOLEAN
DoorTypes ==
    /\ merge \in {"idle", "merging", "filing", "dropping"}
    /\ forced \in BOOLEAN
    /\ gated \in 0 .. MaxRuns
    /\ unjudged \in BOOLEAN
    /\ cutShort \in BOOLEAN
    /\ owed \in {"no", "yes", "lost"}
    /\ restarts \in 0 .. MaxRestarts
TaskTypes == task \in [Tasks -> TaskStates]

LEMMA TypesAre == TypeOK <=> RunTypes /\ CardTypes /\ DoorTypes /\ TaskTypes
  BY DEF TypeOK, RunTypes, CardTypes, DoorTypes, TaskTypes

----------------------------------------------------------------------------
(* The helpers. *)

LEMMA TasksAre ==
    /\ \A p \in Places : At(p) \in TaskStates
    /\ \A t \in TaskStates :
          /\ t.at \in Places /\ t.quiet \in BOOLEAN /\ t.num \in Nat /\ t.given \in Verdicts
          /\ After(t) \in TaskStates
          /\ \A p \in Places : [t EXCEPT !.at = p] \in TaskStates
    /\ \A quiet \in BOOLEAN : [At("reporting") EXCEPT !.quiet = quiet] \in TaskStates
    /\ \A r \in Nat : [At("queueing") EXCEPT !.num = r] \in TaskStates
    /\ round \in Nat /\ verdict \in Verdicts => Judged \in TaskStates
  BY DEF TaskStates, At, After, Places, Verdicts, Judged

LEMMA Puts ==
    ASSUME TaskTypes, NEW k \in Tasks, NEW t \in TaskStates, Go(k, t)
    PROVE  TaskTypes'
  BY DEF TaskTypes, Go

LEMMA LeavesOne ==
    ASSUME TaskTypes, NEW t \in TaskStates, Leaves(t)
    PROVE  TaskTypes'
  BY Puts DEF Leaves, Free

LEMMA CanceledAre ==
    ASSUME TaskTypes
    PROVE  Canceled \in [Tasks -> TaskStates]
  BY TasksAre DEF TaskTypes, Canceled, Places

LEMMA Started ==
    ASSUME RunTypes, n < MaxRuns, NEW t \in Work \cup Passive, NEW r \in Nat, NewRun(t, r)
    PROVE  RunTypes' /\ n' = n + 1 /\ state' = "queued" /\ trigger' = t
  BY BoundsAssumption DEF RunTypes, NewRun, Verdicts, Passive

LEMMA GivesWay ==
    ASSUME RunTypes, Supersede
    PROVE  /\ RunTypes' /\ n' = n /\ trigger' = trigger
           /\ Live' => Live
           /\ Live /\ trigger \in Work => Live'
           /\ ~Busy => ~Live'
  BY DEF RunTypes, Supersede, Superseded, Busy, Live, Work

LEMMA NothingStarts ==
    ASSUME RunTypes, NoRun
    PROVE  RunTypes' /\ n' = n /\ trigger' = trigger /\ state' = state
  BY DEF RunTypes, NoRun, run

LEMMA ClosedIs ==
    ASSUME Closed
    PROVE  merge' = "idle" /\ forced' = FALSE /\ gated' \in 0 .. MaxRuns
  BY BoundsAssumption DEF Closed

LEMMA OwedIs ==
    ASSUME owed \in {"no", "yes", "lost"}, Told \/ Lost \/ Cut \/ UNCHANGED owed
    PROVE  owed' \in {"no", "yes", "lost"}
  BY DEF Told, Lost, Cut

LEMMA Asked ==
    ASSUME CanFollow
    PROVE  ~Busy /\ n < MaxRuns /\ worktree
  BY DEF CanFollow

\* Nobody who works on the card is disturbed by a run that may start.
LEMMA NobodyWorks ==
    ASSUME RunTypes, ~Busy
    PROVE  ~(Live /\ trigger \in Work)
  BY DEF Busy, Superseded, Work, Live
----------------------------------------------------------------------------
(* Types. *)

USE DEF run, card, verdicts, checks, door, content

LEMMA RunStepTypes ==
    ASSUME TypeOK, RunStep \/ Edit \/ AnswerPlan \/ \E v \in {"approve", "changes"} : Submit(v)
    PROVE  TypeOK'
<1>t. RunTypes /\ CardTypes /\ DoorTypes /\ TaskTypes
  BY TypesAre
<1>n. "none" \in Verdicts /\ "approve" \in Verdicts /\ "changes" \in Verdicts
  BY DEF Verdicts
<1>1. CASE Claim
  BY <1>1, <1>t DEF Claim, RunTypes, CardTypes, DoorTypes, TaskTypes, TypeOK
<1>2. CASE \E quiet \in BOOLEAN : WorkCompletes(quiet)
  <2>1. PICK quiet \in BOOLEAN : WorkCompletes(quiet)
    BY <1>2
  <2>2. TaskTypes'
    BY <2>1, <1>t, LeavesOne, TasksAre DEF WorkCompletes
  <2>3. QED
    BY <2>1, <2>2, <1>t DEF WorkCompletes, RunTypes, CardTypes, DoorTypes, TypeOK, TaskTypes
<1>3. CASE PassCompletes
  <2>1. TaskTypes'
    BY <1>3, <1>t, LeavesOne, TasksAre DEF PassCompletes, RunTypes, Places
  <2>2. QED
    BY <1>3, <2>1, <1>t DEF PassCompletes, RunTypes, CardTypes, DoorTypes, TypeOK, TaskTypes
<1>4. CASE \E canceled \in BOOLEAN : Stops(canceled)
  <2>1. PICK canceled \in BOOLEAN : Stops(canceled)
    BY <1>4
  <2>2. TaskTypes'
    BY <2>1, <1>t, LeavesOne, TasksAre DEF Stops, RunTypes, TaskTypes
  <2>3. owed' \in {"no", "yes", "lost"}
    BY <2>1, <1>t, OwedIs DEF Stops, DoorTypes
  <2>4. QED
    BY <2>1, <2>2, <2>3, <1>t DEF Stops, RunTypes, CardTypes, DoorTypes, TypeOK, TaskTypes
<1>5. CASE Edit
  BY <1>5, <1>t DEF Edit, RunTypes, CardTypes, DoorTypes, TaskTypes, TypeOK
<1>6. CASE \E v \in {"approve", "changes"} : Submit(v)
  <2>1. PICK v \in Verdicts : v \in {"approve", "changes"} /\ Submit(v)
    BY <1>6, <1>n
  <2>2. RunTypes'
    BY <2>1, <1>t DEF Submit, RunTypes
  <2>3. CardTypes' /\ DoorTypes' /\ TaskTypes'
    BY <2>1, <1>t DEF Submit, Told, CardTypes, DoorTypes, TaskTypes
  <2>4. QED
    BY <2>2, <2>3 DEF RunTypes, CardTypes, DoorTypes, TaskTypes, TypeOK
<1>7. CASE Park \/ AnswerPlan
  BY <1>7, <1>t DEF Park, AnswerPlan, RunTypes, CardTypes, DoorTypes, TaskTypes, TypeOK
<1>8. QED
  BY <1>1, <1>2, <1>3, <1>4, <1>5, <1>6, <1>7 DEF RunStep

LEMMA TaskStepTypes ==
    ASSUME TypeOK, ChecksStep \/ \E k \in Tasks : TaskStep(k)
    PROVE  TypeOK'
<1>t. RunTypes /\ CardTypes /\ DoorTypes /\ TaskTypes
  BY TypesAre
<1>k. \A k \in Tasks : task[k] \in TaskStates
  BY <1>t DEF TaskTypes
<1>p. \A p \in {"idle", "wanting", "answering"} : At(p) \in TaskStates
  BY TasksAre DEF Places
<1>1. CASE ChecksStep
  <2>1. PICK s \in {"passed", "failed", "void"} : ChecksEnd(s)
    BY <1>1 DEF ChecksStep
  <2>2. TaskTypes'
    BY <2>1, <1>k, TasksAre DEF ChecksEnd, TaskTypes, Places
  <2>3. QED
    BY <2>1, <2>2, <1>t DEF ChecksEnd, Told, RunTypes, CardTypes, DoorTypes, TaskTypes, TypeOK
<1>2. ASSUME NEW k \in Tasks, TaskStep(k)
      PROVE  TypeOK'
  <2>1. CASE File(k)
    <3>1. TaskTypes'
      BY <2>1, <1>t, <1>k, Puts, TasksAre DEF File, Places
    <3>2. QED
      BY <2>1, <3>1, <1>t DEF File, RunTypes, CardTypes, DoorTypes, TaskTypes, TypeOK
  <2>2. CASE Begin(k)
    <3>1. TaskTypes'
      <4>1. CASE Consented
        BY <2>2, <4>1, <1>k, CanceledAre, <1>t, TasksAre DEF Begin, TaskTypes, Places
      <4>2. CASE ~Consented
        BY <2>2, <4>2, <1>t, <1>k, Puts, TasksAre DEF Begin
      <4>3. QED
        BY <4>1, <4>2
    <3>2. CardTypes'
      <4>1. CASE Consented
        BY <2>2, <4>1, <1>t DEF Begin, CardTypes
      <4>2. CASE ~Consented
        BY <2>2, <4>2, <1>t DEF Begin, CardTypes
      <4>3. QED
        BY <4>1, <4>2
    <3>3. RunTypes' /\ DoorTypes'
      BY <2>2, <1>t DEF Begin, RunTypes, DoorTypes
    <3>4. QED
      BY <3>1, <3>2, <3>3 DEF RunTypes, CardTypes, DoorTypes, TaskTypes, TypeOK
  <2>3. CASE Fix(k)
    <3>1. TaskTypes'
      BY <2>3, <1>t, <1>k, <1>p, Puts, TasksAre DEF Fix
    <3>2. RunTypes'
      BY <2>3, <1>t, Started, GivesWay, NothingStarts, Asked DEF Fix, Work
    <3>3. owed' \in {"no", "yes", "lost"}
      BY <2>3, <1>t, OwedIs DEF Fix, DoorTypes
    <3>4. QED
      BY <2>3, <3>1, <3>2, <3>3, <1>t DEF Fix, RunTypes, CardTypes, DoorTypes, TaskTypes, TypeOK
  <2>4. CASE Ask(k)
    <3>1. TaskTypes'
      BY <2>4, <1>t, <1>p, Puts DEF Ask
    <3>2. RunTypes'
      BY <2>4, <1>t, Started, NothingStarts, Asked DEF Ask, Passive
    <3>3. QED
      BY <2>4, <3>1, <3>2, <1>t DEF Ask, RunTypes, CardTypes, DoorTypes, TaskTypes, TypeOK
  <2>5. CASE Want(k)
    <3>1. TaskTypes'
      BY <2>5, <1>t, <1>p, Puts, TasksAre DEF Want, RunTypes
    <3>2. QED
      BY <2>5, <3>1, <1>t DEF Want, RunTypes, CardTypes, DoorTypes, TaskTypes, TypeOK
  <2>6. CASE QueueReview(k)
    <3>1. TaskTypes'
      BY <2>6, <1>t, <1>p, Puts DEF QueueReview
    <3>2. task[k].num + 1 \in Nat
      BY <1>k, TasksAre
    <3>3. RunTypes'
      BY <2>6, <1>t, <3>2, Started, GivesWay, Asked DEF QueueReview, Passive
    <3>4. owed' \in {"no", "yes", "lost"}
      BY <2>6, <1>t, OwedIs DEF QueueReview, DoorTypes
    <3>5. QED
      BY <2>6, <3>1, <3>3, <3>4, <1>t
         DEF QueueReview, RunTypes, CardTypes, DoorTypes, TaskTypes, TypeOK
  <2>7. CASE Act(k)
    <3>1. TaskTypes'
      BY <2>7, <1>t, <1>p, Puts DEF Act
    <3>2. RunTypes' /\ CardTypes' /\ DoorTypes'
      <4>1. CASE task[k].given = "none"
        <5>1. "changes" \in Verdicts
          BY DEF Verdicts
        <5>2. RunTypes'
          BY <2>7, <4>1, <1>t DEF Act, RunTypes
        <5>3. CardTypes' /\ DoorTypes'
          BY <2>7, <4>1, <5>1, <1>t DEF Act, Told, CardTypes, DoorTypes
        <5>4. QED
          BY <5>2, <5>3
      <4>2. CASE task[k].given # "none"
        BY <2>7, <4>2, <1>t DEF Act, RunTypes, CardTypes, DoorTypes
      <4>3. QED
        BY <4>1, <4>2
    <3>3. QED
      BY <3>1, <3>2 DEF RunTypes, CardTypes, DoorTypes, TaskTypes, TypeOK
  <2>8. CASE Answer(k)
    <3>1. TaskTypes'
      BY <2>8, <1>t, <1>p, Puts DEF Answer
    <3>2. RunTypes'
      BY <2>8, <1>t, Started, GivesWay, Asked DEF Answer, Work
    <3>3. owed' \in {"no", "yes", "lost"}
      BY <2>8, <1>t, OwedIs DEF Answer, DoorTypes
    <3>4. QED
      BY <2>8, <3>1, <3>2, <3>3, <1>t DEF Answer, RunTypes, CardTypes, DoorTypes, TaskTypes, TypeOK
  <2>9. QED
    BY <1>2, <2>1, <2>2, <2>3, <2>4, <2>5, <2>6, <2>7, <2>8 DEF TaskStep
<1>3. QED
  BY <1>1, <1>2
LEMMA PersonTypes ==
    ASSUME TypeOK,
           \/ StartWork
           \/ RetryAsk
           \/ \E t \in {"review", "checks"} : AskForFix(t)
           \/ AskForReview
           \/ RunChecks
    PROVE  TypeOK'
<1>t. RunTypes /\ CardTypes /\ DoorTypes /\ TaskTypes
  BY TypesAre
<1>1. CASE StartWork
  <2>1. RunTypes'
    BY <1>1, <1>t, Started DEF StartWork, Work
  <2>2. owed' \in {"no", "yes", "lost"}
    BY <1>1, <1>t, OwedIs DEF StartWork, DoorTypes
  <2>3. QED
    BY <1>1, <2>1, <2>2, <1>t DEF StartWork, RunTypes, CardTypes, DoorTypes, TaskTypes, TypeOK
<1>2. CASE RetryAsk
  <2>1. RunTypes'
    BY <1>2, <1>t, GivesWay DEF RetryAsk
  <2>2. owed' \in {"no", "yes", "lost"}
    BY <1>2, <1>t, OwedIs DEF RetryAsk, DoorTypes
  <2>3. QED
    BY <1>2, <2>1, <2>2, <1>t DEF RetryAsk, RunTypes, CardTypes, DoorTypes, TaskTypes, TypeOK
<1>3. CASE \E t \in {"review", "checks"} : AskForFix(t)
  <2>1. PICK t \in {"review", "checks"} : AskForFix(t)
    BY <1>3
  <2>2. RunTypes'
    BY <2>1, <1>t, Started, Asked DEF AskForFix, Work
  <2>3. owed' \in {"no", "yes", "lost"}
    BY <2>1, <1>t, OwedIs DEF AskForFix, DoorTypes
  <2>4. QED
    BY <2>1, <2>2, <2>3, <1>t DEF AskForFix, RunTypes, CardTypes, DoorTypes, TaskTypes, TypeOK
<1>4. CASE AskForReview
  <2>1. rounds + 1 \in Nat
    BY <1>t DEF RunTypes
  <2>2. RunTypes'
    BY <1>4, <1>t, <2>1, Started, Asked DEF AskForReview, Passive
  <2>3. owed' \in {"no", "yes", "lost"}
    BY <1>4, <1>t, OwedIs DEF AskForReview, DoorTypes
  <2>4. QED
    BY <1>4, <2>2, <2>3, <1>t DEF AskForReview, RunTypes, CardTypes, DoorTypes, TaskTypes, TypeOK
<1>5. CASE RunChecks
  <2>1. TaskTypes'
    BY <1>5, <1>t, CanceledAre DEF RunChecks, TaskTypes
  <2>2. owed' \in {"no", "yes", "lost"}
    BY <1>5, <1>t, OwedIs DEF RunChecks, DoorTypes
  <2>3. QED
    BY <1>5, <2>1, <2>2, <1>t DEF RunChecks, RunTypes, CardTypes, DoorTypes, TaskTypes, TypeOK
<1>6. QED
  BY <1>1, <1>2, <1>3, <1>4, <1>5

LEMMA DoorTypesKept ==
    ASSUME TypeOK, (\E force \in BOOLEAN : MergeAsk(force)) \/ DoorStep \/ Restart
    PROVE  TypeOK'
<1>t. RunTypes /\ CardTypes /\ DoorTypes /\ TaskTypes
  BY TypesAre
<1>1. CASE \E force \in BOOLEAN : MergeAsk(force)
  <2>1. PICK force \in BOOLEAN : MergeAsk(force)
    BY <1>1
  <2>2. RunTypes'
    BY <2>1, <1>t, GivesWay DEF MergeAsk
  <2>3. owed' \in {"no", "yes", "lost"}
    BY <2>1, <1>t, OwedIs DEF MergeAsk, DoorTypes
  <2>4. merge' \in {"idle", "merging", "filing", "dropping"} /\ forced' \in BOOLEAN
        /\ gated' \in 0 .. MaxRuns
    BY <2>1, <1>t DEF MergeAsk, DoorTypes, RunTypes
  <2>5. QED
    BY <2>1, <2>2, <2>3, <2>4, <1>t DEF MergeAsk, RunTypes, CardTypes, DoorTypes, TaskTypes, TypeOK
<1>2. CASE MergeLand
  BY <1>2, <1>t DEF MergeLand, RunTypes, CardTypes, DoorTypes, TaskTypes, TypeOK
<1>c. Closed => merge' = "idle" /\ forced' = FALSE /\ gated' \in 0 .. MaxRuns
  BY ClosedIs
<1>3. CASE MergeRefused
  <2>1. RunTypes' /\ CardTypes' /\ TaskTypes'
    BY <1>3, <1>t DEF MergeRefused, RunTypes, CardTypes, TaskTypes
  <2>2. DoorTypes'
    BY <1>3, <1>t, <1>c DEF MergeRefused, DoorTypes
  <2>3. QED
    BY <2>1, <2>2 DEF RunTypes, CardTypes, DoorTypes, TaskTypes, TypeOK
<1>4. CASE MergeFile
  <2>1. TaskTypes'
    BY <1>4, <1>t, CanceledAre DEF MergeFile, TaskTypes
  <2>2. QED
    BY <1>4, <2>1, <1>t, <1>c
       DEF MergeFile, Emptied, Told, RunTypes, CardTypes, DoorTypes, TaskTypes, TypeOK
<1>5. CASE RetryDrop
  <2>1. RunTypes' /\ CardTypes' /\ TaskTypes'
    BY <1>5, <1>t DEF RetryDrop, Emptied, RunTypes, CardTypes, TaskTypes
  <2>2. DoorTypes'
    BY <1>5, <1>t, <1>c DEF RetryDrop, Emptied, DoorTypes
  <2>3. QED
    BY <2>1, <2>2 DEF RunTypes, CardTypes, DoorTypes, TaskTypes, TypeOK
<1>6. CASE Restart
  <2>1. TaskTypes'
    BY <1>6, TasksAre DEF Restart, TaskTypes, Places
  <2>2. owed' \in {"no", "yes", "lost"}
    BY <1>6, <1>t, OwedIs DEF Restart, DoorTypes
  <2>3. RunTypes' /\ CardTypes'
    BY <1>6, <1>t DEF Restart, RunTypes, CardTypes
  <2>4. restarts' \in 0 .. MaxRestarts /\ cutShort' \in BOOLEAN
    BY <1>6, <1>t, BoundsAssumption DEF Restart, DoorTypes
  <2>5. DoorTypes'
    BY <1>6, <2>2, <2>4, <1>t, <1>c DEF Restart, DoorTypes
  <2>6. QED
    BY <2>1, <2>3, <2>5 DEF RunTypes, CardTypes, DoorTypes, TaskTypes, TypeOK
<1>7. QED
  BY <1>1, <1>2, <1>3, <1>4, <1>5, <1>6 DEF DoorStep

LEMMA TypesStay ==
    ASSUME TypeOK, [Next]_vars
    PROVE  TypeOK'
<1>1. CASE Next
  BY <1>1, RunStepTypes, TaskStepTypes, PersonTypes, DoorTypesKept DEF Next
<1>2. CASE UNCHANGED vars
  BY <1>2 DEF vars, TypeOK
<1>3. QED
  BY <1>1, <1>2

----------------------------------------------------------------------------
(* What an approval is worth. *)

\* A step that leaves the verdict and the content alone, and whoever works.
LEMMA Undisturbed ==
    ASSUME VerdictsCover, UNCHANGED <<covered, unjudged, cutShort>>,
           Live /\ trigger \in Work => (Live /\ trigger \in Work)'
    PROVE  VerdictsCover'
  BY DEF VerdictsCover

LEMMA VerdictsStillCover ==
    ASSUME TypeOK, VerdictsCover, [Next]_vars
    PROVE  VerdictsCover'
<1>t. RunTypes /\ CardTypes /\ DoorTypes /\ TaskTypes
  BY TypesAre
<1>a. ASSUME ~(Live /\ trigger \in Work), UNCHANGED <<covered, unjudged, cutShort>>
      PROVE  VerdictsCover'
  BY <1>a, Undisturbed
<1>b. ASSUME Supersede, UNCHANGED <<covered, unjudged, cutShort>>
      PROVE  VerdictsCover'
  BY <1>b, <1>t, GivesWay, Undisturbed
<1>1. CASE Claim
  BY <1>1, Undisturbed DEF Claim, Live
<1>2. CASE Edit
  BY <1>2 DEF Edit, VerdictsCover, Live
<1>3. CASE \E v \in {"approve", "changes"} : Submit(v)
  BY <1>3 DEF Submit, VerdictsCover
<1>4. CASE \E quiet \in BOOLEAN : WorkCompletes(quiet)
  BY <1>4 DEF WorkCompletes, VerdictsCover
<1>5. CASE PassCompletes
  BY <1>5, <1>a DEF PassCompletes, Passive, Work
<1>6. CASE \E canceled \in BOOLEAN : Stops(canceled)
  <2>1. covered' = covered /\ unjudged' = unjudged
    BY <1>6 DEF Stops
  <2>2. CASE trigger \in Work
    BY <1>6, <2>2 DEF Stops, VerdictsCover
  <2>3. CASE trigger \notin Work
    BY <1>6, <1>t, <2>1, <2>3 DEF Stops, VerdictsCover, DoorTypes
  <2>4. QED
    BY <2>2, <2>3
<1>7. CASE ChecksStep
  BY <1>7, Undisturbed DEF ChecksStep, ChecksEnd, Live
<1>8. ASSUME NEW k \in Tasks, TaskStep(k)
      PROVE  VerdictsCover'
  <2>1. CASE File(k) \/ Begin(k) \/ Want(k)
    BY <2>1, Undisturbed DEF File, Begin, Want, Live
  <2>2. CASE Fix(k)
    BY <2>2, <1>t, <1>a, <1>b, Asked, NobodyWorks, Undisturbed DEF Fix, NoRun, Live
  <2>3. CASE Ask(k)
    BY <2>3, <1>a, Undisturbed DEF Ask, NoRun, Live
  <2>4. CASE QueueReview(k)
    BY <2>4, <1>t, <1>a, <1>b, Asked, NobodyWorks DEF QueueReview
  <2>5. CASE Act(k)
    BY <2>5, Undisturbed DEF Act, VerdictsCover, Live
  <2>6. CASE Answer(k)
    BY <2>6, <1>t, <1>a, <1>b, Asked, NobodyWorks DEF Answer
  <2>7. QED
    BY <1>8, <2>1, <2>2, <2>3, <2>4, <2>5, <2>6 DEF TaskStep
<1>9. CASE StartWork
  BY <1>9, <1>t, <1>a, NobodyWorks DEF StartWork
<1>10. CASE RetryAsk
  BY <1>10, <1>b DEF RetryAsk
<1>11. CASE \E t \in {"review", "checks"} : AskForFix(t)
  BY <1>11, <1>t, <1>a, Asked, NobodyWorks DEF AskForFix
<1>12. CASE AskForReview
  BY <1>12, <1>t, <1>a, Asked, NobodyWorks DEF AskForReview
<1>13. CASE RunChecks
  BY <1>13, <1>a DEF RunChecks
<1>14. CASE \E force \in BOOLEAN : MergeAsk(force)
  BY <1>14, <1>b DEF MergeAsk
<1>15. CASE MergeLand \/ MergeRefused
  BY <1>15, Undisturbed DEF MergeLand, MergeRefused, Live
<1>16. CASE MergeFile \/ RetryDrop
  BY <1>16 DEF MergeFile, RetryDrop, Emptied, VerdictsCover
<1>17. CASE Restart
  BY <1>17, <1>t DEF Restart, VerdictsCover, Live, RunTypes
<1>18. CASE Park \/ AnswerPlan
  BY <1>18, Undisturbed DEF Park, AnswerPlan, Live
<1>19. CASE UNCHANGED vars
  BY <1>19 DEF vars, VerdictsCover, Live
<1>20. QED
  BY <1>1, <1>2, <1>3, <1>4, <1>5, <1>6, <1>7, <1>8, <1>9, <1>10, <1>11, <1>12, <1>13, <1>14,
     <1>15, <1>16, <1>17, <1>18, <1>19 DEF Next, RunStep, DoorStep
----------------------------------------------------------------------------
(* What Merge still knows. *)

\* A step that leaves the doors where they are, and starts or ends a run.
LEMMA DoorsWait ==
    ASSUME RunTypes, DoorTypes, DoorsLooked, UNCHANGED door,
           n' \in Nat,
           \/ n' = n + 1
           \/ n' = n /\ (Live' => Live) /\ (unjudged' => unjudged)
              /\ (unjudged' /\ cutShort => cutShort')
    PROVE  DoorsLooked'
  BY DEF DoorsLooked, RunTypes, DoorTypes

LEMMA DoorsStillLooked ==
    ASSUME RInv, [Next]_vars
    PROVE  DoorsLooked'
<1>t. RunTypes /\ CardTypes /\ DoorTypes /\ TaskTypes /\ DoorsLooked /\ VerdictsCover
  BY TypesAre DEF RInv
<1>i. n \in Nat /\ n + 1 \in Nat
  BY <1>t, BoundsAssumption DEF RunTypes
<1>a. ASSUME UNCHANGED door, UNCHANGED content, n' = n + 1
      PROVE  DoorsLooked'
  BY <1>a, <1>t, <1>i, DoorsWait
<1>b. ASSUME UNCHANGED door, UNCHANGED content, n' = n, Live' => Live
      PROVE  DoorsLooked'
  BY <1>b, <1>t, <1>i, DoorsWait
<1>c. ASSUME UNCHANGED door, UNCHANGED content, Supersede
      PROVE  DoorsLooked'
  BY <1>c, <1>t, <1>b, GivesWay
<1>1. CASE Claim
  BY <1>1, <1>b DEF Claim, Live
<1>2. CASE Edit
  BY <1>2, <1>t DEF Edit, DoorsLooked, Live
<1>3. CASE \E v \in {"approve", "changes"} : Submit(v)
  BY <1>3, <1>t, <1>i, DoorsWait DEF Submit, Live
<1>4. CASE \E quiet \in BOOLEAN : WorkCompletes(quiet)
  BY <1>4, <1>b DEF WorkCompletes, Live
<1>5. CASE PassCompletes
  BY <1>5, <1>b DEF PassCompletes, Live
<1>6. CASE \E canceled \in BOOLEAN : Stops(canceled)
  <2>1. UNCHANGED door /\ n' = n /\ ~Live' /\ unjudged' = unjudged
    BY <1>6 DEF Stops, Live
  <2>2. cutShort => cutShort'
    BY <1>6 DEF Stops
  <2>3. QED
    BY <2>1, <2>2, <1>t, <1>i, DoorsWait
<1>7. CASE ChecksStep
  BY <1>7, <1>b DEF ChecksStep, ChecksEnd, Live
<1>8. ASSUME NEW k \in Tasks, TaskStep(k)
      PROVE  DoorsLooked'
  <2>1. CASE File(k) \/ Begin(k) \/ Want(k)
    BY <2>1, <1>b DEF File, Begin, Want, Live
  <2>2. CASE Fix(k)
    BY <2>2, <1>a, <1>b, <1>c DEF Fix, NewRun, NoRun, Live
  <2>3. CASE Ask(k)
    BY <2>3, <1>a, <1>b DEF Ask, NewRun, NoRun, Live
  <2>4. CASE QueueReview(k)
    BY <2>4, <1>a, <1>c DEF QueueReview, NewRun
  <2>5. CASE Act(k)
    BY <2>5, <1>t, <1>i, DoorsWait DEF Act, Live
  <2>6. CASE Answer(k)
    BY <2>6, <1>a, <1>c DEF Answer, NewRun
  <2>7. QED
    BY <1>8, <2>1, <2>2, <2>3, <2>4, <2>5, <2>6 DEF TaskStep
<1>9. CASE StartWork \/ AskForReview \/ \E t \in {"review", "checks"} : AskForFix(t)
  BY <1>9, <1>a DEF StartWork, AskForReview, AskForFix, NewRun
<1>10. CASE RetryAsk
  BY <1>10, <1>t, <1>i, GivesWay DEF RetryAsk, DoorsLooked
<1>11. CASE RunChecks
  BY <1>11, <1>b DEF RunChecks, Live
<1>12. CASE \E force \in BOOLEAN : MergeAsk(force)
  <2>1. PICK force \in BOOLEAN : MergeAsk(force)
    BY <1>12
  <2>2. n' = n /\ (Live' => Live) /\ UNCHANGED content
    BY <2>1, <1>t, GivesWay DEF MergeAsk
  <2>3. CASE UNCHANGED door
    BY <2>2, <2>3, <1>b
  <2>4. CASE ~Busy /\ merge' = "merging" /\ forced' = ~GateOpen /\ gated' = n
    <3>1. ~Live'
      BY <2>1, <2>4, <1>t, GivesWay DEF MergeAsk
    <3>2. GateOpen => ~unjudged \/ cutShort
      BY <2>4, <1>t, NobodyWorks DEF GateOpen, VerdictsCover
    <3>3. ~forced' => ~unjudged' \/ cutShort'
      BY <2>2, <2>4, <3>2
    <3>4. QED
      BY <2>2, <2>4, <3>1, <3>3, <1>i DEF DoorsLooked
  <2>5. QED
    BY <2>1, <2>3, <2>4 DEF MergeAsk
<1>13. CASE MergeLand
  BY <1>13, <1>t DEF MergeLand, DoorsLooked, Live
<1>14. CASE MergeRefused \/ MergeFile \/ RetryDrop
  BY <1>14, <1>i DEF MergeRefused, MergeFile, RetryDrop, Closed, DoorsLooked
<1>15. CASE Restart
  BY <1>15, <1>i DEF Restart, Closed, DoorsLooked
<1>16. CASE Park \/ AnswerPlan
  BY <1>16, <1>b DEF Park, AnswerPlan, Live
<1>17. CASE UNCHANGED vars
  BY <1>17, <1>b DEF vars, Live
<1>18. QED
  BY <1>1, <1>2, <1>3, <1>4, <1>5, <1>6, <1>7, <1>8, <1>9, <1>10, <1>11, <1>12, <1>13, <1>14,
     <1>15, <1>16, <1>17 DEF Next, RunStep, DoorStep

----------------------------------------------------------------------------
(* The theorems. *)

LEMMA Starts == Init => RInv
<1>1. SUFFICES ASSUME Init PROVE RInv
  OBVIOUS
<1>2. TaskTypes
  BY <1>1, TasksAre DEF Init, TaskTypes, Places
<1>3. DoorTypes
  <2>1. 0 \in 0 .. MaxRuns /\ 0 \in 0 .. MaxRestarts
    BY BoundsAssumption
  <2>2. QED
    BY <1>1, <2>1 DEF Init, DoorTypes
<1>4. RunTypes
  BY <1>1, BoundsAssumption DEF Init, RunTypes, Verdicts
<1>5. CardTypes
  BY <1>1 DEF Init, CardTypes, Verdicts
<1>6. VerdictsCover /\ DoorsLooked
  BY <1>1 DEF Init, VerdictsCover, DoorsLooked
<1>7. QED
  BY <1>2, <1>3, <1>4, <1>5, <1>6, TypesAre DEF RInv

LEMMA RInvHolds == Spec => []RInv
<1>1. Init => RInv
  BY Starts
<1>2. RInv /\ [Next]_vars => RInv'
  BY TypesStay, VerdictsStillCover, DoorsStillLooked DEF RInv
<1>3. QED
  BY <1>1, <1>2, PTL DEF Spec

\* Every variable keeps its type, and only a review carries a verdict.
THEOREM TypeCorrect == Spec => []TypeOK
<1>1. RInv => TypeOK
  BY DEF RInv
<1>2. QED
  BY <1>1, RInvHolds, PTL

\* An approval the gate would honour is of what the worktree holds, but for
\* work that ended without completing, however many runs, tasks and restarts.
THEOREM ApprovalsStand == Spec => []ApprovalStands
<1>1. RInv => ApprovalStands
  BY DEF RInv, VerdictsCover, ApprovalStands
<1>2. QED
  BY <1>1, RInvHolds, PTL

\* Unjudged content lands without an override only through such work, or
\* through a run that started after Merge asked the gate.
THEOREM MergesLandJudgedWork == Spec => MergeLandsJudgedWork
<1>1. RInv /\ [Next]_vars => [Landing /\ ~forced => ~unjudged \/ cutShort \/ n > gated]_vars
  BY BoundsAssumption DEF RInv, DoorsLooked, Landing, TypeOK
<1>2. QED
  BY <1>1, RInvHolds, PTL DEF Spec, MergeLandsJudgedWork
=============================================================================
