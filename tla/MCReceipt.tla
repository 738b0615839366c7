------------------------------ MODULE MCReceipt ------------------------------
(***************************************************************************)
(* Instances of Receipt.  Content 1 and 2 are whole archives, 11 and 12    *)
(* proper prefixes of them.                                                *)
(***************************************************************************)
EXTENDS Receipt

CONSTANTS p, q, s, t1, t2, o1, o2

AllDigests == {1, 2, 11, 12}
MCCutOf == [d \in AllDigests |-> IF d < 10 THEN d + 10 ELSE d]

OneTenant == [r \in Runs |-> t1]
SameBody == [r \in Runs |-> 1]

\* p and q are Platform uploads of the same archive, each with its operation.
TwoOps == [r \in Runs |-> IF r = p THEN o1 ELSE o2]
Declared == [r \in Runs |-> Body[r]]
=============================================================================
