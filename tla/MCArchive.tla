------------------------------ MODULE MCArchive ------------------------------
(***************************************************************************)
(* Instances of Archive: one conversation in one project, with a message   *)
(* whose role and one whose id the facts leave out, three uploads and two  *)
(* parsers.                                                                *)
(***************************************************************************)
EXTENDS ArchiveHistories

CONSTANTS c, p1, m1, m2, other, odd, none, x, y, big, empty, uA, uB, uC

At(parent, payload) == [parent |-> parent, payload |-> payload]

BodyTable ==
    [A |-> m1 :> At(none, x) @@ other :> At(m1, x) @@ m2 :> At(other, x), \* the whole conversation
     B |-> m1 :> At(none, y) @@ odd :> At(m1, x) @@ m2 :> At(odd, empty), \* m1 edited, m2 without parts
     C |-> m1 :> At(none, y),                                           \* m2 gone
     D |-> m2 :> At(m1, big),                                           \* m1 gone, m2 large
     P |-> <<>>, Q |-> <<>>, R |-> <<>>]                                \* projects, R large

Read(conversation, project, in) ==
    c :> [digest |-> conversation, project |-> in] @@
    p1 :> (IF project = none THEN none ELSE [digest |-> project, project |-> none])

Both(r, s) == 1 :> r @@ 2 :> s

ReadingTable ==
    uA :> Both(Read("A", "P", p1), Read("A", "P", p1)) @@
    uB :> Both(Read("B", "Q", p1), Read("A", "P", p1)) @@
    uC :> Both(Read("C", none, none), Read("D", "R", none))

\* TLC evaluates what a configuration names at every use, and the tables once.
MCBody == BodyTable
MCReading == ReadingTable

M(id, parent, text) == [id |-> id, parent |-> parent, text |-> text]
C(id, text, messages) == [id |-> id, text |-> text, messages |-> messages]
P(id, text, instructions) == [id |-> id, text |-> text, instructions |-> instructions]
I(id, text) == [id |-> id, text |-> text]
A(id, availability) == [id |-> id, availability |-> availability]

\* Conversations that are edited, omitted, listed twice, and whose messages
\* have no parent, themselves or another conversation's message as parent.
Talk == C(1, "a", <<M(1, <<>>, "x"), M(2, <<1>>, "x")>>)
Talks == <<
    <<Talk>>,
    <<C(1, "a", <<M(2, <<1>>, "x"), M(1, <<>>, "x")>>), C(2, "b", <<M(3, <<>>, "x")>>)>>,
    <<C(1, "a", <<M(1, <<>>, "x"), M(2, <<1>>, "y")>>)>>,
    <<C(1, "a", <<M(2, <<9>>, "x")>>), C(2, "b", <<M(3, <<2>>, "x"), M(4, <<4>>, "x")>>)>>,
    <<Talk, C(1, "b", <<M(1, <<5>>, "x")>>)>>,
    <<>>>>

\* Projects with named instructions and with instructions known by their place,
\* and one that is listed twice.
Plans == <<
    <<P(1, "t", <<I(<<"i">>, "x"), I(<<>>, "x")>>)>>,
    <<P(1, "t", <<I(<<>>, "x")>>)>>,
    <<P(1, "u", <<>>), P(2, "t", <<I(<<"i">>, "y")>>)>>,
    <<P(1, "t", <<I(<<"i">>, "x")>>), P(1, "u", <<I(<<"j">>, "x"), I(<<>>, "x")>>)>>,
    <<>>>>

Pictures == << <<A(1, "verified")>>, <<A(1, "quarantined"), A(2, "verified")>>, <<A(1, "missing")>>,
               <<A(1, "verified")>>, <<>> >>
Pages == << <<I(1, "x")>>, <<>> >>

\* The t-th conversations with the p-th other evidence.
Snapshot(t, p) ==
    [conversations |-> Talks[t], projects |-> Plans[p], assets |-> Pictures[p], documents |-> Pages[1 + (p % 2)]]
Shots == {Snapshot(t, 1 + (t % 5)) : t \in DOMAIN Talks} \cup {Snapshot(1, p) : p \in DOMAIN Plans}
MCSnapshots ==
    {[i \in DOMAIN s |-> s[i] @@ [archive |-> i]] : s \in UNION {[1..n -> Shots] : n \in 0..3}}

OwnerSymmetry == Permutations(Owners)
=============================================================================
