----------------------------- MODULE MCAdmission -----------------------------
(* Small instances of Admission for TLC. *)
EXTENDS Admission, TLC

CONSTANTS r1, r2, r3, n1, n2, a, b

SameTiers == [r \in Requests |-> Models]
\* The ordinary requests have both tiers, the managed turn one.
TiersOfThree == [r \in Requests |-> IF r \in Managed THEN {b} ELSE Models]
Ordinary == Permutations(Requests \ Managed)
AnyModels == SUBSET Models
AllOrB == {Models, {b}}
OneClass == [r \in Requests |-> 1]
Caps == [n \in Nodes |-> 2]
CapOne == [n \in Nodes |-> 1]
OnlyOneOfA == [m \in Models |-> IF m = a THEN 1 ELSE 0]
NoParallelLimit == [m \in Models |-> 0]
ShortWaits == [c \in 0..2 |-> 1]
=============================================================================
