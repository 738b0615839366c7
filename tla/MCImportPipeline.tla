--------------------------- MODULE MCImportPipeline ---------------------------
(***************************************************************************)
(* Instances of ImportPipeline: Platform uploads of one archive.  Content  *)
(* 1 and 2 are whole archives, 11 and 12 proper prefixes of them.          *)
(***************************************************************************)
EXTENDS ImportPipeline

CONSTANTS p, q, s, t1, t2, o1, o2

AllDigests == {1, 2, 11, 12}
MCCutOf == [d \in AllDigests |-> IF d < 10 THEN d + 10 ELSE d]

OneTenant == [r \in Runs |-> t1]
SameBody == [r \in Runs |-> 1]

\* p is one Platform upload, the others carry the second operation.
TwoOps == [r \in Runs |-> IF r = p THEN o1 ELSE o2]
Declared == [r \in Runs |-> Body[r]]

\* s is a tenant upload without a declared length.
PlatformDeclared == [r \in Runs |-> IF r = s THEN NoDigest ELSE Body[r]]
=============================================================================
