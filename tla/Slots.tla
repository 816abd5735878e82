------------------------------- MODULE Slots -------------------------------
(***************************************************************************)
(* The queue's concurrency budget (runs/slots.rs): a semaphore of          *)
(* MaxConcurrent permits, and the debt of the permits a parked run lent to *)
(* the queue and has since taken back.                                     *)
(*                                                                         *)
(* Only the two shared counters live here.  Who holds a permit is the      *)
(* business of the module that uses these steps.                           *)
(***************************************************************************)
EXTENDS Naturals

CONSTANT MaxConcurrent      \* Slots::new's argument, the setting's value

ASSUME MaxConcurrentAssumption == MaxConcurrent \in Nat \ {0}

VARIABLES
    available,              \* permits the semaphore can hand out
    debt                    \* permits owed to it

slotVars == <<available, debt>>

SlotsInit ==
    /\ available = MaxConcurrent
    /\ debt = 0

\* acquire_owned (the queue loop) and a successful try_acquire_owned (a fan-out).
Acquire ==
    /\ available > 0
    /\ available' = available - 1
    /\ UNCHANGED debt

\* A permit is dropped.
Release ==
    /\ available' = available + 1
    /\ UNCHANGED debt

\* A run has parked: its slot goes to the queue, whoever holds its permit.
Lend ==
    /\ available' = available + 1
    /\ UNCHANGED debt

\* The parked run resumes.  Never blocks: the slot is owed, not taken.
Reclaim ==
    /\ debt' = debt + 1
    /\ UNCHANGED available

\* Mutant of TakeDebt: fetch_sub, with nothing owed.
TakeDebtUnchecked ==
    /\ debt' = debt - 1
    /\ UNCHANGED available

\* take_debt, true: the permit in the caller's hand is forgotten, not released.
TakeDebt ==
    /\ debt > 0
    /\ debt' = debt - 1
    /\ UNCHANGED available

=============================================================================
