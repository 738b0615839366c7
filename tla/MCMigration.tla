------------------------------ MODULE MCMigration ------------------------------
(***************************************************************************)
(* An instance of Migration: two archives of two conversations and a       *)
(* project, a build with one parser and one with three releases of it.  In *)
(* the second archive release 1.9 changes the project alone.               *)
(***************************************************************************)
EXTENDS Migration, TLC

CONSTANTS none, x, y

Id(version, parts) == [name |-> 1, version |-> version, parts |-> parts]
V1 == Id("1.2", <<<<0, 1>>, <<0, 2>>>>)
V2 == Id("1.9", <<<<0, 1>>, <<0, 9>>>>)
V3 == Id("1.10", <<<<0, 1>>, <<0, 10>>>>)
V4 == Id("1.10-b", <<<<0, 1>>, <<0, 10>>, <<1, 1>>>>)
Other == [V1 EXCEPT !.name = 0]

Declare(id, signals, compiled) ==
    [id |-> id, modes |-> {"manual"}, signals |-> signals, compiled |-> compiled]

\* The second build declares a release twice, one without code, and a parser
\* for files of another shape.
BuildTable == <<
    <<Declare(V1, {"c.json"}, TRUE)>>,
    <<Declare(V3, {"c.json"}, TRUE), Declare(V1, {"c.json"}, TRUE), Declare(V4, {"c.json"}, FALSE),
      Declare(V2, {"c.json"}, TRUE), Declare(V2, {}, TRUE), Declare(Other, {"other"}, TRUE)>>>>

ReleaseTable == "1.2" :> 1 @@ "1.9" :> 2 @@ "1.10" :> 3 @@ "1.10-b" :> 4

Entry(name, compressed, decompressed) ==
    [name |-> name, directory |-> FALSE, special |-> FALSE,
     compressed |-> compressed, decompressed |-> decompressed, actual |-> decompressed]

UploadTable == <<
    <<Entry(<<"c.json">>, 1, 2)>>,
    <<Entry(<<"d", "c.json">>, 1, 2), Entry(<<".", "b">>, 0, 0)>>>>

Names == {<<"b">>, <<"d", "", "b">>, <<"d", ".", "b">>, <<"", "b">>, <<"d", "..", "b">>, <<".", "">>,
          <<"d", "C:">>}
Entries ==
    {Entry(n, 1, 1) : n \in Names}
    \cup {Entry(<<"s">>, c, d) : c \in 0..3, d \in {0, 2, 4, 5}}
    \cup {Entry(<<"t">>, c, d) : c \in {1, 2}, d \in {1, 3}}
    \cup {[Entry(<<"v">>, 2, 2) EXCEPT !.actual = n] : n \in {0, 3, 4, 6}}
    \cup {[Entry(<<"u">>, 0, 0) EXCEPT !.special = TRUE], [Entry(<<"d">>, 0, 0) EXCEPT !.directory = TRUE]}
MCFiles == UNION {[1..n -> Entries] : n \in 0..2} \cup [1..3 -> {Entry(<<"s">>, 0, 0), Entry(<<"t">>, 1, 1)}]

Seen(c, d, project) == 1 :> c @@ 2 :> d @@ 3 :> project
ReadingTable == <<
    "1.2" :> Seen(x, none, none) @@ "1.9" :> Seen(x, y, x) @@ "1.10" :> Seen(y, none, none)
        @@ "1.10-b" :> none,
    "1.2" :> Seen(x, y, x) @@ "1.9" :> Seen(x, none, y) @@ "1.10" :> none @@ "1.10-b" :> none>>

\* TLC evaluates what a configuration names at every use, and the tables once.
MCBuilds == BuildTable
MCRelease == ReleaseTable
MCUpload == UploadTable
MCReading == ReadingTable

MCTargets == {V2, V3}
OperatorSymmetry == Permutations(Operators)
=============================================================================
