---------------------------- MODULE ParserRegistry ----------------------------
(***************************************************************************)
(* The write-once registry of compiled parsers.  A registry is a sequence  *)
(* of declarations [id, modes, signals, compiled] in order of              *)
(* registration.  An id is a name, a version text and the parts the text   *)
(* splits into: <<0, n>> for a number, <<1, t>> for any other text.        *)
(***************************************************************************)
EXTENDS OrderedFold, FiniteSets

IdType == [name : Nat, version : STRING, parts : Seq({0, 1} \X Nat)]
DeclarationType ==
    [id : IdType, modes : SUBSET STRING, signals : SUBSET STRING, compiled : BOOLEAN]

\* register and register_compiled: an identity is taken once.
Register(registry, declaration) ==
    IF \E i \in DOMAIN registry : registry[i].id = declaration.id THEN registry
    ELSE Append(registry, declaration)

Registry(declarations) == InOrder(Register, <<>>, declarations)

\* compatible
Compatible(declaration, signals, mode) ==
    mode \in declaration.modes /\ declaration.signals \subseteq signals

\* Mutant: version parts are compared as text, by their first character.
PartLessText(p, q) ==
    LET first(n) == IF n < 10 THEN n ELSE n \div 10
    IN p[1] < q[1] \/ (p[1] = q[1] /\ first(p[2]) < first(q[2]))

\* The derived order of VersionPart: numbers come before text.
PartLess(p, q) == p[1] < q[1] \/ (p[1] = q[1] /\ p[2] < q[2])

\* compare_versions: part by part, a proper prefix first.
VersionLess(v, w) ==
    \E i \in 1..Len(w) :
        /\ i <= Len(v) + 1
        /\ \A j \in 1..(i - 1) : v[j] = w[j]
        /\ i <= Len(v) => PartLess(v[i], w[i])

IdLess(x, y) == x.name < y.name \/ (x.name = y.name /\ VersionLess(x.parts, y.parts))

\* compatible_versions.  The sort is stable: texts with equal parts stay in
\* order of registration.
CompatibleVersions(registry, signals, mode) ==
    LET id(i) == registry[i].id
        matches == {i \in DOMAIN registry : Compatible(registry[i], signals, mode)}
        before(i, j) == IdLess(id(i), id(j)) \/ (~IdLess(id(j), id(i)) /\ i < j)
        order == [k \in 1..Cardinality(matches) |->
                     CHOOSE i \in matches : Cardinality({j \in matches : before(j, i)}) = k - 1]
    IN [k \in DOMAIN order |-> id(order[k])]

\* select: nothing unless exactly one declaration matches.
Selected(registry, signals, mode) ==
    LET ids == CompatibleVersions(registry, signals, mode)
    IN IF Len(ids) = 1 THEN {ids[1]} ELSE {}

\* find_exact: a compatible identity with compiled behaviour.
Runnable(registry, id, signals, mode) ==
    \E i \in DOMAIN registry : /\ registry[i].id = id /\ registry[i].compiled
                               /\ Compatible(registry[i], signals, mode)
=============================================================================
