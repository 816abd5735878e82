----------------------------- MODULE MCOrgRuns -----------------------------
(* Plans for small instances of OrgRuns. *)
EXTENDS OrgRuns

CONSTANTS F, G

\* Two that are apart and may be joined by a third; a chain; one that says
\* nothing of its files beside one that does, with a third that waits.
Apart2 == [tasks |-> 2, deps |-> [k \in Keys |-> {}],
           touches |-> [k \in Keys |-> IF k = 1 THEN {F} ELSE {G}]]
Chain == [tasks |-> 2, deps |-> [k \in Keys |-> IF k = 1 THEN {2} ELSE {}],
          touches |-> [k \in Keys |-> IF k = 1 THEN {F} ELSE {G}]]
Loose == [tasks |-> 2, deps |-> [k \in Keys |-> {}],
          touches |-> [k \in Keys |-> IF k = 1 THEN {F} ELSE {}]]
SmallPlans == {Apart2, Chain, Loose}
TwoScopes == {F, G}
FirstOnly == {<<1, 1>>}
=============================================================================
