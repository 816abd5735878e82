----------------------------- MODULE SlotBudget -----------------------------
(***************************************************************************)
(* What the queue's concurrency budget promises, with no semaphore, no     *)
(* broker and no runs: slots are held, some of them lent while a person is *)
(* asked, some of the lent ones owed back, and never more are held than    *)
(* the budget, the loans and the debt allow.                               *)
(***************************************************************************)
EXTENDS Naturals

CONSTANT MaxConcurrent

VARIABLES
    held,       \* slots in somebody's hand
    lentOut,    \* loans: runs that wait on a person
    owed        \* loans taken back and not yet paid

vars == <<held, lentOut, owed>>

Budget == MaxConcurrent + lentOut + owed

Init ==
    /\ held = 0
    /\ lentOut = 0
    /\ owed = 0

Take ==
    /\ held < Budget
    /\ held' = held + 1
    /\ UNCHANGED <<lentOut, owed>>

Drop ==
    /\ held > 0
    /\ held' = held - 1
    /\ UNCHANGED <<lentOut, owed>>

LendOne ==
    /\ lentOut' = lentOut + 1
    /\ UNCHANGED <<held, owed>>

\* Taking a slot back moves the loan to the debt: the budget does not move.
TakeBack ==
    /\ lentOut > 0
    /\ lentOut' = lentOut - 1
    /\ owed' = owed + 1
    /\ UNCHANGED held

\* A debt is paid with a slot in hand, so the budget never falls under what
\* is held.
Pay ==
    /\ owed > 0
    /\ held > 0
    /\ held' = held - 1
    /\ owed' = owed - 1
    /\ UNCHANGED lentOut

Next == Take \/ Drop \/ LendOne \/ TakeBack \/ Pay

Spec == Init /\ [][Next]_vars

=============================================================================
