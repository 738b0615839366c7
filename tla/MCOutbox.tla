------------------------------- MODULE MCOutbox -------------------------------
(***************************************************************************)
(* Instances of Outbox: two facts (rows 1 and 2) and up to two deletions   *)
(* with their tombstones (3, 4), their erasure commands (5, 6) and the     *)
(* commands the pump may add for a fact whose row is gone (7, 8).  The     *)
(* stream has room for one copy of each fact and one per failure, so its   *)
(* bound never stops a publication.                                        *)
(***************************************************************************)
EXTENDS Outbox

OneDeletion == {"d1"}
TwoDeletions == {"d1", "d2"}

TwoFacts == {1, 2}
OneTomb == {3}
TwoTombs == {3, 4}
AllCommands == {5, 6, 7, 8}
SomeCommands == {5, 7, 8}

\* Each deletion removes one export's facts.
OneEach == [d \in Deletions |-> IF d = "d1" THEN {1} ELSE {2}]
\* One deletion removes both.
Both == [d \in Deletions |-> {1, 2}]

DeletionTomb == [d \in Deletions |-> IF d = "d1" THEN 3 ELSE 4]
DeletionCommand == [d \in Deletions |-> IF d = "d1" THEN 5 ELSE 6]
FactRescue == [f \in Facts |-> f + 6]

SecondFact == {2}
=============================================================================
