----------------------------- MODULE RunPromise -----------------------------
(***************************************************************************)
(* A run as the board shows it, with no queue, no workers and no cancel    *)
(* map: it waits for a slot, works, may put a plan to a person, and ends   *)
(* once.  A rate limit makes it wait again, whatever else its engine does  *)
(* meanwhile, and may do so once it has ended.  Only a run that was held   *)
(* may be taken up while it is still worked on, and what two workers do to *)
(* such a run is in no order, but that ended is ended.                     *)
(***************************************************************************)
CONSTANT Runs

VARIABLES
    phase,      \* of each run: waiting, working, asking or ended
    held,       \* runs a rate limit has held
    doubled     \* runs taken up a second time while they were worked on

vars == <<phase, held, doubled>>

Init ==
    /\ phase = [r \in Runs |-> "waiting"]
    /\ held = {}
    /\ doubled = {}

Enters(r, to) == phase' = [phase EXCEPT ![r] = to]

Start(r) ==
    /\ phase[r] = "waiting"
    /\ Enters(r, "working")
    /\ \/ UNCHANGED doubled
       \/ r \in held /\ doubled' = doubled \cup {r}
    /\ UNCHANGED held

\* The engine met a limit: it works, or its last ending is just written, or it
\* was held before.
Hold(r) ==
    /\ phase[r] \in {"working", "ended"} \/ r \in doubled \/ (phase[r] = "waiting" /\ r \in held)
    /\ Enters(r, "waiting")
    /\ held' = held \cup {r}
    /\ UNCHANGED doubled

\* A plan waits for its yes.  A held engine may still have completed one.
Ask(r) ==
    /\ phase[r] = "working" \/ (phase[r] = "waiting" /\ r \in held)
    /\ Enters(r, "asking")
    /\ UNCHANGED <<held, doubled>>

\* Approved or sent back: either way it waits for a slot again.
Answer(r) ==
    /\ phase[r] = "asking"
    /\ Enters(r, "waiting")
    /\ UNCHANGED <<held, doubled>>

\* Two workers write what one of them has come to.
Wander(r) ==
    /\ r \in doubled
    /\ phase[r] # "ended"
    /\ \E to \in {"working", "asking"} : Enters(r, to)
    /\ UNCHANGED <<held, doubled>>

\* Completed, failed or canceled.  A crash ends every run that works.
End ==
    /\ \E S \in SUBSET {r \in Runs : phase[r] # "ended"} :
          phase' = [r \in Runs |-> IF r \in S THEN "ended" ELSE phase[r]]
    /\ UNCHANGED <<held, doubled>>

\* A crash leaves nobody at work.
Down ==
    /\ doubled' = {}
    /\ UNCHANGED <<phase, held>>

Next ==
    \/ End \/ Down
    \/ \E r \in Runs : Start(r) \/ Hold(r) \/ Ask(r) \/ Answer(r) \/ Wander(r)

Spec == Init /\ [][Next]_vars

=============================================================================
