---------------------------- MODULE MCBlobProtocol ----------------------------
(***************************************************************************)
(* Instances of BlobProtocol.  Digests are numbers, references are pairs   *)
(* of a digest and a media type.                                           *)
(***************************************************************************)
EXTENDS BlobProtocol, TLC

CONSTANTS a, b, c, x1, x2, r1, r2, t1, t2

Ref(d, m) == [digest |-> d, media |-> m]

MCDigestOf == [f \in Refs |-> f.digest]

\* One tenant: a is uploaded again as b after a deletion; both contain one
\* entry with the same bytes.
OneTenantRefs == {Ref(1, "zip"), Ref(2, "bin")}
OneTenantOwner == [e \in Exports |-> t1]
OneTenantRequests == [r \in Requests |-> t1]
OneTenantRaw == [e \in Exports |-> Ref(1, "zip")]
OneTenantParts == [e \in Exports |-> {Ref(2, "bin")}]

\* Two tenants hold the same archive bytes.
TwoTenantOwner == [e \in Exports |-> IF e = b THEN t2 ELSE t1]
TwoTenantRequests == [r \in Requests |-> IF r = r2 THEN t2 ELSE t1]

TwoEntryRefs == {Ref(1, "zip"), Ref(2, "bin"), Ref(3, "bin")}
TwoEntryParts == [e \in Exports |-> {Ref(2, "bin"), Ref(3, "bin")}]

Symmetry == Permutations({x1, x2} \cap Executors)
=============================================================================
