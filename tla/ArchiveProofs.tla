---------------------------- MODULE ArchiveProofs ----------------------------
(***************************************************************************)
(* Archive keeps its invariant, for any number of exports, entities,       *)
(* messages and owners: the lemmas about Facts, one lemma for each action, *)
(* and the safety properties that follow.                                  *)
(***************************************************************************)
EXTENDS VersionProofs

\* Few leaves need another prover; those name it.
USE Zenon

MessageIds == Messages \cup {None}
Parent(r, m) == IF m \in Present(r) THEN r.messages[m].parent ELSE None

\* message_rows: the ancestors of a message are the iteration of Parent.
LEMMA AncestorIterates ==
    ASSUME NEW r, NEW m \in Messages, RecordOK(r)
    PROVE LET up == Ancestor(r, m)
          IN /\ Cardinality(Messages) \in Nat
             /\ up \in [0..Cardinality(Messages) -> MessageIds]
             /\ up[0] = m
<1> DEFINE step == [k \in Nat |-> [a \in MessageIds |-> Parent(r, a)]]
           N == Cardinality(Messages)
           Recursion(f) == f = [k \in 0..N |->
                                   IF k = 0 THEN m
                                   ELSE IF f[k - 1] \in Present(r) THEN r.messages[f[k - 1]].parent ELSE None]
<1>1. ASSUME NEW a
      PROVE Parent(r, a) \in MessageIds
  <2>1. CASE a \in Present(r)
    <3>1. r.messages[a] \in MessageType
        BY <2>1 DEF Present, RecordOK
    <3>2. r.messages[a].parent \in Messages \cup {None}
        BY <3>1, SMT DEF MessageType
    <3> QED
        BY <2>1, <3>2 DEF Parent, MessageIds
  <2>2. CASE a \notin Present(r)
      BY <2>2 DEF Parent, MessageIds
  <2> QED
      BY <2>1, <2>2
<1>2. step \in [Nat -> [MessageIds -> MessageIds]]
    BY <1>1
<1>3. N \in Nat
    BY VersionConstants
<1>4. m \in MessageIds
    BY DEF MessageIds
<1>5. \A k \in Nat : \A a \in MessageIds : step[k][a] = Parent(r, a)
    OBVIOUS
<1> HIDE DEF step, N
<1>6. PICK f : Iteration(f, MessageIds, m, step, N)
  <2>1. Iterable(MessageIds, m, step, N)
      BY <1>2, <1>3, <1>4 DEF Iterable
  <2> QED
      BY <2>1, Iterates
<1> USE DEF Iteration
<1>7. ASSUME NEW k \in 0..N, k # 0
      PROVE k \in 1..N /\ k \in Nat /\ k - 1 \in 0..N
    BY <1>3, <1>7, SMT
<1>8. ASSUME NEW k \in 0..N, k # 0
      PROVE f[k] = IF f[k - 1] \in Present(r) THEN r.messages[f[k - 1]].parent ELSE None
  <2>1. f[k] = step[k][f[k - 1]] /\ f[k - 1] \in MessageIds /\ k \in Nat
      BY <1>6, <1>7, <1>8
  <2>2. f[k] = Parent(r, f[k - 1])
      BY <1>5, <2>1
  <2> QED
      BY <2>2 DEF Parent
<1>9. Recursion(f)
    BY <1>6, <1>8
<1>10. Ancestor(r, m) = CHOOSE g : Recursion(g)
    BY DEF Ancestor, N
<1>11. PICK g : g = Ancestor(r, m)
    OBVIOUS
<1>12. Recursion(g)
    BY <1>9, <1>10, <1>11
<1>13. 0 \in 0..N
    BY <1>3, SMT
<1>14. ASSUME NEW k \in 0..N
       PROVE g[k] \in MessageIds
  <2>1. CASE k = 0
      BY <1>4, <1>12, <2>1
  <2>2. CASE k # 0
    <3>1. g[k] = Parent(r, g[k - 1])
        BY <1>12, <2>2 DEF Parent
    <3> QED
        BY <1>1, <3>1
  <2> QED
      BY <2>1, <2>2
<1>15. g \in [0..N -> MessageIds] /\ g[0] = m
    BY <1>12, <1>13, <1>14
<1> QED
    BY <1>3, <1>11, <1>15 DEF N

\* nearest_represented_parent gives a represented message, and none only when
\* every represented ancestor of the message lies above one that has no name.
LEMMA ParentIsRepresented ==
    ASSUME NEW r, NEW m \in Represented(r), RecordOK(r)
    PROVE /\ RepresentedParent(r, m) \in Represented(r) \cup {None}
          /\ RepresentedParent(r, m) = None <=>
                \A k \in 1..Cardinality(Messages) : Ancestor(r, m)[k] \in Represented(r) \ {m} =>
                   \E j \in 1..(k - 1) : Ancestor(r, m)[j] \in Present(r) \cap Unnamed
<1> DEFINE up == Ancestor(r, m)
           N == Cardinality(Messages)
           stops == {k \in DOMAIN up \ {0} : /\ up[k] \in Present(r) \ Hidden
                                             /\ \A j \in 0..(k - 1) : up[j] # up[k]}
           first == CHOOSE k \in stops : \A j \in stops : k <= j
<1>1. m \in Messages /\ m \notin Unnamed
    BY DEF Represented, Present
<1>2. \A a : a \in Represented(r) <=> a \in Present(r) \ Hidden /\ a \notin Unnamed
    BY DEF Represented
<1>3. N \in Nat /\ up \in [0..N -> MessageIds] /\ up[0] = m /\ DOMAIN up = 0..N
    BY <1>1, AncestorIterates
<1>4. RepresentedParent(r, m) = IF stops = {} \/ up[first] \in Unnamed THEN None ELSE up[first]
    BY DEF RepresentedParent
<1> HIDE DEF up, N
<1>5. ASSUME stops # {}
      PROVE first \in stops /\ \A j \in stops : first <= j
  <2>1. stops \subseteq Nat
      BY <1>3, SMT
  <2>2. \E k \in stops : \A j \in stops : k <= j
      BY <1>5, <2>1, Least
  <2> QED
      BY <2>2
<1>6. None \notin Present(r)
    BY VersionConstants DEF Present
<1>7. ASSUME NEW k \in stops
      PROVE k \in 1..N /\ up[k] # m /\ up[k] \in Present(r) \ Hidden
  <2>1. k \in 1..N /\ 0 \in 0..(k - 1)
      BY <1>3, SMT
  <2> QED
      BY <1>3, <2>1
<1>8. ASSUME NEW k \in 1..N, up[k] # m, up[k] \in Present(r) \ Hidden
      PROVE \E j \in stops : j <= k /\ up[j] = up[k]
  <2> DEFINE T == {j \in 0..N : up[j] = up[k]}
  <2>1. T \subseteq Nat /\ k \in T
      BY <1>3, SMT
  <2>2. PICK j \in T : \A i \in T : j <= i
      BY <2>1, Least
  <2>3. j # 0 /\ j \in 0..N /\ up[j] = up[k]
      BY <1>3, <1>8, <2>2
  <2>4. ASSUME NEW i \in 0..(j - 1)
        PROVE up[i] # up[j]
    <3>1. i \in 0..N /\ ~(j <= i)
        BY <1>3, <2>3, SMT
    <3> QED
        BY <2>2, <2>3, <3>1
  <2>5. j \in stops
      BY <1>3, <1>8, <2>3, <2>4
  <2> QED
      BY <2>1, <2>2, <2>3, <2>5
<1> HIDE DEF stops, first
<1>9. RepresentedParent(r, m) \in Represented(r) \cup {None}
    BY <1>2, <1>4, <1>5, <1>7
<1>10. ASSUME RepresentedParent(r, m) = None, NEW k \in 1..N, up[k] \in Represented(r) \ {m}
       PROVE \E j \in 1..(k - 1) : up[j] \in Present(r) \cap Unnamed
  <2>1. PICK j \in stops : j <= k /\ up[j] = up[k]
      BY <1>2, <1>8, <1>10
  <2>2. first \in stops /\ first <= j
      BY <1>5, <2>1
  <2>3. first \in 1..N /\ j \in 1..N /\ up[first] \in Present(r)
      BY <1>7, <2>1, <2>2
  <2>4. up[first] \in Unnamed
      BY <1>4, <1>6, <1>10, <2>1, <2>3
  <2>5. first # k
      BY <1>2, <1>10, <2>4
  <2>6. first \in 1..(k - 1)
      BY <1>3, <2>1, <2>2, <2>3, <2>5, SMT
  <2> QED
      BY <2>3, <2>4, <2>6
<1>11. ASSUME RepresentedParent(r, m) # None,
              \A k \in 1..N : up[k] \in Represented(r) \ {m} =>
                 \E j \in 1..(k - 1) : up[j] \in Present(r) \cap Unnamed
       PROVE FALSE
  <2>1. stops # {} /\ up[first] \notin Unnamed
      BY <1>4, <1>11
  <2>2. first \in stops /\ \A j \in stops : first <= j
      BY <1>5, <2>1
  <2>3. first \in 1..N /\ up[first] \in Represented(r) \ {m}
      BY <1>2, <1>7, <2>1, <2>2
  <2>4. PICK j \in 1..(first - 1) : up[j] \in Present(r) \cap Unnamed
      BY <1>11, <2>3
  <2>5. j \in 1..N /\ j < first /\ j \in Nat
      BY <1>3, <2>3, <2>4, SMT
  <2>6. up[j] # m /\ up[j] \in Present(r) \ Hidden
      BY <1>1, <2>4, FactsConstants
  <2>7. PICK i \in stops : i <= j
      BY <1>8, <2>5, <2>6
  <2>8. first <= i /\ i \in 1..N
      BY <1>7, <2>2, <2>7
  <2> QED
      BY <1>3, <2>3, <2>5, <2>7, <2>8, SMT
<1>12. RepresentedParent(r, m) = None <=>
           \A k \in 1..N : up[k] \in Represented(r) \ {m} =>
              \E j \in 1..(k - 1) : up[j] \in Present(r) \cap Unnamed
    BY <1>10, <1>11
<1> QED
    BY <1>9, <1>12 DEF up, N

\* The parents of a fact are messages of the fact.
LEMMA FactsAreBuiltWhole ==
    ASSUME NEW x, NEW r, RecordOK(r)
    PROVE Whole(FactDigest(x, r).messages)
<1>1. Whole(View(r))
  <2>1. ASSUME NEW m \in DOMAIN View(r)
        PROVE View(r)[m].parent \in DOMAIN View(r) \cup {None}
    <3>1. DOMAIN View(r) = Represented(r)
        BY DEF View
    <3>2. m \in Represented(r)
        BY <3>1
    <3>3. View(r)[m].parent = RepresentedParent(r, m)
        BY <3>2 DEF View
    <3> QED
        BY <3>1, <3>2, <3>3, ParentIsRepresented
  <2> QED
      BY <2>1 DEF Whole
<1>2. Whole(<<>>)
    BY SMT DEF Whole
<1>3. ProjectFact(r).messages = <<>> /\ ConversationFact(r).messages = View(r)
    BY DEF ProjectFact, ConversationFact
<1> QED
    BY <1>1, <1>2, <1>3 DEF FactDigest

-----------------------------------------------------------------------------
\* announced_subjects::record adds the owner, after the others.
LEMMA RecordAdds ==
    ASSUME NEW owners \in Seq(Owners), NEW o \in Owners
    PROVE /\ Record(owners, o) \in Seq(Owners) /\ Record(owners, o) # <<>>
          /\ Range(Record(owners, o)) = Range(owners) \cup {o}
<1>1. CASE o \in Range(owners)
  <2>1. Record(owners, o) = owners
      BY <1>1 DEF Record
  <2>2. owners # <<>>
      BY <1>1, SMT DEF Range
  <2> QED
      BY <1>1, <2>1, <2>2
<1>2. CASE o \notin Range(owners)
  <2>1. Record(owners, o) = Append(owners, o)
      BY <1>2 DEF Record
  <2>2. Append(owners, o) \in Seq(Owners)
      BY SMT
  <2>3. ASSUME NEW i \in DOMAIN Append(owners, o)
        PROVE Append(owners, o)[i] \in Range(owners) \cup {o}
    <3>1. i = Len(owners) + 1 \/ i \in DOMAIN owners
        BY SMT
    <3>2. Append(owners, o)[Len(owners) + 1] = o
        BY SMT
    <3>3. i \in DOMAIN owners => Append(owners, o)[i] = owners[i]
        BY SMT
    <3> QED
        BY <3>1, <3>2, <3>3 DEF Range
  <2>4. o \in Range(Append(owners, o))
    <3>1. Append(owners, o)[Len(owners) + 1] = o /\ Len(owners) + 1 \in DOMAIN Append(owners, o)
        BY SMT
    <3> QED
        BY <3>1 DEF Range
  <2>5. Range(owners) \subseteq Range(Append(owners, o))
    <3>1. \A i \in DOMAIN owners : i \in DOMAIN Append(owners, o) /\ Append(owners, o)[i] = owners[i]
        BY SMT
    <3> QED
        BY <3>1 DEF Range
  <2>6. Append(owners, o) # <<>>
    <3>1. \A s : s = <<>> => Range(s) = {}
        BY SMT DEF Range
    <3> QED
        BY <2>4, <3>1
  <2> QED
    <3>1. Range(Append(owners, o)) \subseteq Range(owners) \cup {o}
        BY <2>3 DEF Range
    <3>2. Range(Append(owners, o)) = Range(owners) \cup {o}
        BY <2>4, <2>5, <3>1
    <3> QED
        BY <2>1, <2>2, <2>6, <3>2
<1> QED
    BY <1>1, <1>2

\* The last owner of a subject is one of its owners.
LEMMA FinalIsRecorded ==
    ASSUME NEW owners \in Seq(Owners), owners # <<>>
    PROVE Final(owners) \in Owners /\ Final(owners) \in Range(owners)
    BY SMT DEF Final, Range

FactFields == {"facts", "ledger", "known", "omitted"}

\* What a queue may hold: whole facts about rows, under an archive that was
\* announced to the same owner.
QueueOK(queue, s, rows, exports) ==
    /\ DOMAIN queue \subseteq Entities
    /\ \A x \in DOMAIN queue :
          /\ rows[x].row # None /\ Whole(queue[x].digest.messages)
          /\ queue[x].archive \in exports /\ queue[x].owner \in Owners
          /\ queue[x].owner \in Range(s.ledger[queue[x].archive])

\* What enqueue_normalized_event does to the ledger: entities gain owners.
LedgerGrows(s, t) ==
    /\ t.ledger \in [Subjects -> Seq(Owners)]
    /\ \A e \in ExportIds : t.ledger[e] = s.ledger[e]
    /\ \A x \in Subjects : Range(s.ledger[x]) \subseteq Range(t.ledger[x])

\* enqueue_normalized_event keeps the facts' invariant.
LEMMA EnqueueKeeps ==
    ASSUME NEW s, NEW rows, NEW exports \in SUBSET ExportIds, NEW queue,
           FactsInv(s, rows, exports), QueueOK(queue, s, rows, exports)
    PROVE FactsInv(Enqueue(s, queue), rows, exports)
<1> DEFINE new == {x \in DOMAIN queue : \A f \in s.facts[x] : f.key # queue[x].key}
           facts == [x \in Entities |-> IF x \in new THEN s.facts[x] \cup {Numbered(queue[x], s.facts[x])}
                                        ELSE s.facts[x]]
           ledger == [x \in Subjects |-> IF x \in new THEN Record(s.ledger[x], queue[x].owner) ELSE s.ledger[x]]
           known == [u \in Owners |-> [x \in Entities |->
              IF x \in new /\ queue[x].owner = u
              THEN [digest |-> queue[x].digest, archive |-> queue[x].archive] ELSE s.known[u][x]]]
<1>1. PICK t : t = Enqueue(s, queue)
    OBVIOUS
<1>2. t = [s EXCEPT !.facts = facts, !.ledger = ledger, !.known = known]
    BY <1>1 DEF Enqueue
<1>3. new \subseteq DOMAIN queue /\ new \subseteq Entities
    BY DEF QueueOK
<1> HIDE DEF new
<1>4. \A x \in Entities : facts[x] = IF x \in new THEN s.facts[x] \cup {Numbered(queue[x], s.facts[x])}
                                     ELSE s.facts[x]
    OBVIOUS
<1>5. \A x \in Subjects : ledger[x] = IF x \in new THEN Record(s.ledger[x], queue[x].owner) ELSE s.ledger[x]
    OBVIOUS
<1>6. \A u \in Owners, x \in Entities : known[u][x] =
          IF x \in new /\ queue[x].owner = u
          THEN [digest |-> queue[x].digest, archive |-> queue[x].archive] ELSE s.known[u][x]
    OBVIOUS
<1>7. facts = [x \in Entities |-> facts[x]] /\ DOMAIN ledger = Subjects
    OBVIOUS
<1>8. DOMAIN known = Owners /\ \A u \in Owners : DOMAIN known[u] = Entities
    OBVIOUS
<1>9. ledger = [x \in Subjects |-> ledger[x]]
    OBVIOUS
<1> HIDE DEF facts, ledger, known
<1>10. DOMAIN s = FactFields
    BY DEF FactsInv, FactFields
<1>11. DOMAIN t = FactFields /\ t.facts = facts /\ t.ledger = ledger /\ t.known = known
    BY <1>2, <1>10, SMT DEF FactFields
<1>12. ASSUME NEW x \in Entities, NEW f \in facts[x]
       PROVE f.archive \in exports /\ f.owner \in Owners /\ Whole(f.digest.messages)
  <2>1. CASE f \in s.facts[x]
      BY <2>1 DEF FactsInv
  <2>2. CASE x \in new /\ f = Numbered(queue[x], s.facts[x])
    <3>1. f.archive = queue[x].archive /\ f.owner = queue[x].owner /\ f.digest = queue[x].digest
        BY <2>2, SMT DEF Numbered
    <3> QED
        BY <1>3, <2>2, <3>1 DEF QueueOK
  <2> QED
      BY <1>4, <2>1, <2>2
<1>13. LedgerGrows(s, t)
  <2>1. ASSUME NEW x \in Subjects
        PROVE ledger[x] \in Seq(Owners) /\ Range(s.ledger[x]) \subseteq Range(ledger[x])
    <3>1. s.ledger[x] \in Seq(Owners)
        BY DEF FactsInv
    <3>2. CASE x \in new
      <4>1. queue[x].owner \in Owners /\ ledger[x] = Record(s.ledger[x], queue[x].owner)
          BY <1>3, <1>5, <3>2 DEF QueueOK
      <4> QED
          BY <3>1, <4>1, RecordAdds
    <3>3. CASE x \notin new
        BY <1>5, <3>1, <3>3
    <3> QED
        BY <3>2, <3>3
  <2>2. ledger \in [Subjects -> Seq(Owners)]
      BY <1>9, <2>1
  <2>3. \A e \in ExportIds : ledger[e] = s.ledger[e]
      BY <1>3, <1>5, VersionConstants DEF Subjects
  <2> QED
      BY <1>11, <2>1, <2>2, <2>3 DEF LedgerGrows
<1>14. ASSUME NEW u \in Owners, NEW x \in Entities, known[u][x] # None
       PROVE /\ rows[x].row # None /\ known[u][x].archive \in exports
             /\ u \in Range(ledger[x]) /\ u \in Range(ledger[known[u][x].archive])
  <2>1. CASE x \in new /\ queue[x].owner = u
    <3>1. known[u][x].archive = queue[x].archive
      <4>1. known[u][x] = [digest |-> queue[x].digest, archive |-> queue[x].archive]
          BY <1>6, <2>1
      <4> QED
          BY <4>1, SMT
    <3>2. x \in Subjects /\ s.ledger[x] \in Seq(Owners)
        BY DEF FactsInv, Subjects
    <3>3. u \in Range(ledger[x])
        BY <1>5, <2>1, <3>2, RecordAdds
    <3>4. rows[x].row # None /\ queue[x].archive \in exports /\ queue[x].archive \in ExportIds
          /\ u \in Range(s.ledger[queue[x].archive])
        BY <1>3, <2>1 DEF QueueOK
    <3> QED
        BY <1>11, <1>13, <3>1, <3>3, <3>4 DEF LedgerGrows
  <2>2. CASE ~(x \in new /\ queue[x].owner = u)
    <3>1. known[u][x] = s.known[u][x]
        BY <1>6, <2>2
    <3>2. /\ rows[x].row # None /\ s.known[u][x].archive \in exports
          /\ u \in Range(s.ledger[x]) /\ u \in Range(s.ledger[s.known[u][x].archive])
        BY <1>14, <3>1 DEF FactsInv
    <3> QED
        BY <1>11, <1>13, <3>1, <3>2 DEF LedgerGrows, Subjects
  <2> QED
      BY <2>1, <2>2
<1>15. \A e \in ExportIds : ledger[e] # <<>> => e \in exports
    BY <1>11, <1>13 DEF LedgerGrows, FactsInv
<1>16. ledger \in [Subjects -> Seq(Owners)]
    BY <1>11, <1>13 DEF LedgerGrows
<1>17. FactsInv(t, rows, exports)
    BY <1>7, <1>8, <1>11, <1>12, <1>14, <1>15, <1>16 DEF FactsInv, FactFields
<1> QED
    BY <1>1, <1>17

\* More exports and more rows contradict no fact.
LEMMA FactsInvGrows ==
    ASSUME NEW s, NEW rows, NEW more, NEW exports, NEW wider, FactsInv(s, rows, exports), exports \subseteq wider,
           \A x \in Entities : rows[x].row # None => more[x].row # None
    PROVE FactsInv(s, more, wider)
    BY DEF FactsInv

\* project_import_facts keeps the facts' invariant.
LEMMA ProjectImportFactsKeeps ==
    ASSUME NEW s, NEW rows, NEW exports \in SUBSET ExportIds, NEW e \in exports, NEW o \in Owners \cup {None},
           NEW always, FactsInv(s, rows, exports), \A x \in Entities : RecordOK(rows[x])
    PROVE FactsInv(ProjectImportFacts(s, rows, e, o, always), rows, exports)
<1> DEFINE changed == ProjectCandidates(s, rows, e) \cup ConversationCandidates(s, rows, e)
           headed == IF always \/ changed # {} THEN AnnounceHead(s, e, o) ELSE s
           queue == [x \in {y \in changed : ~TooLarge(y, rows[y])} |-> Candidate(s, x, rows[x], e, o)]
           omitted == {x \in changed : TooLarge(x, rows[x])}
<1>1. PICK t : t = ProjectImportFacts(s, rows, e, o, always)
    OBVIOUS
<1>2. CASE o = None
    BY <1>2 DEF ProjectImportFacts
<1>3. CASE o # None
  <2>1. t = [Enqueue(headed, queue) EXCEPT !.omitted[e] = omitted]
      BY <1>1, <1>3 DEF ProjectImportFacts
  <2>2. \A x \in changed : x \in Entities /\ rows[x].row # None
      BY DEF ProjectCandidates, ConversationCandidates, Entities
  <2>3. DOMAIN queue = {y \in changed : ~TooLarge(y, rows[y])}
      OBVIOUS
  <2>4. \A x \in DOMAIN queue : queue[x] = Candidate(s, x, rows[x], e, o)
      OBVIOUS
  <2>5. (headed = s /\ changed = {}) \/ headed = AnnounceHead(s, e, o)
      OBVIOUS
  <2> HIDE DEF changed, headed, queue, omitted
  <2>6. o \in Owners /\ e \in ExportIds /\ e \in Subjects
      BY <1>3 DEF Subjects
  <2>7. FactsInv(headed, rows, exports) /\ (changed # {} => o \in Range(headed.ledger[e]))
    <3>1. CASE headed = s /\ changed = {}
        BY <3>1
    <3>2. CASE headed = AnnounceHead(s, e, o)
      <4>1. PICK owners : owners = Record(s.ledger[e], o)
          OBVIOUS
      <4>2. PICK ledger : ledger = [s.ledger EXCEPT ![e] = owners]
          OBVIOUS
      <4>3. headed = [s EXCEPT !.ledger = ledger]
          BY <3>2, <4>1, <4>2 DEF AnnounceHead
      <4>4. DOMAIN s = FactFields /\ s.ledger \in [Subjects -> Seq(Owners)]
          BY DEF FactsInv, FactFields
      <4>5. DOMAIN headed = FactFields /\ headed.ledger = ledger /\ headed.facts = s.facts /\ headed.known = s.known
          BY <4>3, <4>4, SMT DEF FactFields
      <4>6. s.ledger[e] \in Seq(Owners)
          BY <2>6, <4>4
      <4>7. owners \in Seq(Owners) /\ Range(owners) = Range(s.ledger[e]) \cup {o}
          BY <2>6, <4>1, <4>6, RecordAdds
      <4>8. /\ ledger \in [Subjects -> Seq(Owners)] /\ ledger[e] = owners
            /\ \A x \in Subjects : x # e => ledger[x] = s.ledger[x]
          BY <2>6, <4>2, <4>4, <4>7
      <4>9. \A x \in Subjects : Range(s.ledger[x]) \subseteq Range(ledger[x])
          BY <4>7, <4>8
      <4>10. \A f \in ExportIds : ledger[f] # <<>> => f \in exports
          BY <4>8 DEF FactsInv, Subjects
      <4>11. ASSUME NEW u \in Owners, NEW x \in Entities, s.known[u][x] # None
             PROVE /\ rows[x].row # None /\ s.known[u][x].archive \in exports
                   /\ u \in Range(ledger[x]) /\ u \in Range(ledger[s.known[u][x].archive])
        <5>1. /\ rows[x].row # None /\ s.known[u][x].archive \in exports
              /\ u \in Range(s.ledger[x]) /\ u \in Range(s.ledger[s.known[u][x].archive])
            BY <4>11 DEF FactsInv
        <5> QED
            BY <4>9, <5>1 DEF Subjects
      <4>12. FactsInv(headed, rows, exports)
        <5>1. /\ headed.facts = [x \in Entities |-> headed.facts[x]]
              /\ \A x \in Entities : \A f \in headed.facts[x] :
                    f.archive \in exports /\ f.owner \in Owners /\ Whole(f.digest.messages)
            BY <4>5 DEF FactsInv
        <5>2. DOMAIN headed.known = Owners /\ \A u \in Owners : DOMAIN headed.known[u] = Entities
            BY <4>5 DEF FactsInv
        <5>3. \A u \in Owners, x \in Entities : headed.known[u][x] # None =>
                  /\ rows[x].row # None /\ headed.known[u][x].archive \in exports
                  /\ u \in Range(headed.ledger[x]) /\ u \in Range(headed.ledger[headed.known[u][x].archive])
            BY <4>5, <4>11
        <5>4. /\ DOMAIN headed = {"facts", "ledger", "known", "omitted"}
              /\ headed.ledger \in [Subjects -> Seq(Owners)]
              /\ \A f \in ExportIds : headed.ledger[f] # <<>> => f \in exports
            BY <4>5, <4>8, <4>10 DEF FactFields
        <5> QED
            BY <5>1, <5>2, <5>3, <5>4 DEF FactsInv
      <4> QED
          BY <4>5, <4>7, <4>8, <4>12
    <3> QED
        BY <2>5, <3>1, <3>2
  <2>8. QueueOK(queue, headed, rows, exports)
    <3>1. ASSUME NEW x \in DOMAIN queue
          PROVE /\ x \in Entities /\ rows[x].row # None /\ Whole(queue[x].digest.messages)
                /\ queue[x].archive = e /\ queue[x].owner = o /\ changed # {}
      <4>1. x \in Entities /\ rows[x].row # None /\ changed # {}
          BY <2>2, <2>3
      <4>2. queue[x].digest = FactDigest(x, rows[x]) /\ queue[x].archive = e /\ queue[x].owner = o
        <5>1. queue[x] = Candidate(s, x, rows[x], e, o)
            BY <2>4
        <5> QED
            BY <5>1, SMT DEF Candidate
      <4>3. Whole(FactDigest(x, rows[x]).messages)
          BY <4>1, FactsAreBuiltWhole
      <4> QED
          BY <4>1, <4>2, <4>3
    <3> QED
        BY <2>6, <2>7, <3>1 DEF QueueOK
  <2>9. PICK q : q = Enqueue(headed, queue)
      OBVIOUS
  <2>10. FactsInv(q, rows, exports)
      BY <2>7, <2>8, <2>9, EnqueueKeeps
  <2>11. PICK out : out = [q.omitted EXCEPT ![e] = omitted]
      OBVIOUS
  <2>12. t = [q EXCEPT !.omitted = out] /\ DOMAIN q = FactFields
      BY <2>1, <2>9, <2>10, <2>11 DEF FactsInv, FactFields
  <2>13. DOMAIN t = FactFields /\ t.ledger = q.ledger /\ t.facts = q.facts /\ t.known = q.known
      BY <2>12, SMT DEF FactFields
  <2>14. FactsInv(t, rows, exports)
      BY <2>10, <2>13 DEF FactsInv, FactFields
  <2> QED
      BY <1>1, <2>14
<1> QED
    BY <1>2, <1>3

\* reannounce keeps the facts' invariant: a repair fact goes to the owner of
\* the archive it names.
LEMMA ReannounceKeeps ==
    ASSUME NEW s, NEW rows, NEW exports \in SUBSET ExportIds, NEW survivors \in SUBSET Entities, NEW request,
           FactsInv(s, rows, exports), \A x \in Entities : RecordOK(rows[x])
    PROVE FactsInv(Reannounce(s, rows, survivors, request), rows, exports)
<1> DEFINE import(x) == RetainedImport(s, EarliestRetained(rows[x]))
           told == {y \in survivors : rows[y].row # None /\ import(y) # None}
           queue == [x \in told |-> Repair(x, rows[x], import(x), request)]
<1>1. Reannounce(s, rows, survivors, request) = Enqueue(s, queue)
    BY DEF Reannounce
<1>2. DOMAIN queue = told /\ \A x \in told : queue[x] = Repair(x, rows[x], import(x), request)
    OBVIOUS
<1>3. \A x \in told : x \in Entities /\ rows[x].row # None /\ import(x) # None
    OBVIOUS
<1> HIDE DEF told, queue, import
<1>4. ASSUME NEW x \in told
      PROVE /\ queue[x].archive \in exports /\ queue[x].owner \in Owners
            /\ queue[x].owner \in Range(s.ledger[queue[x].archive]) /\ Whole(queue[x].digest.messages)
  <2>1. PICK e : e = EarliestRetained(rows[x])
      OBVIOUS
  <2>2. e # None /\ OwnerOfArchive(s, e) # None /\ import(x) = [archive |-> e, owner |-> OwnerOfArchive(s, e)]
      BY <1>3, <2>1 DEF import, RetainedImport
  <2>3. e \in ExportIds
    <3> DEFINE current == {f \in Observers(rows[x]) : rows[x].seen[f] = rows[x].row.digest}
               candidates == IF current # {} THEN current ELSE Observers(rows[x])
    <3>1. candidates \subseteq ExportIds
        BY DEF Observers
    <3>2. e = IF candidates = {} THEN None ELSE CHOOSE g \in candidates : \A f \in candidates : g <= f
        BY <2>1 DEF EarliestRetained
    <3> HIDE DEF candidates
    <3>3. candidates # {}
        BY <2>2, <3>2
    <3>4. ExportIds \subseteq Nat
        BY SMT DEF ExportIds
    <3>5. \E g \in candidates : \A f \in candidates : g <= f
        BY <3>1, <3>3, <3>4, Least
    <3> QED
        BY <3>1, <3>2, <3>3, <3>5
  <2>4. s.ledger[e] # <<>> /\ OwnerOfArchive(s, e) = Final(s.ledger[e])
      BY <2>2 DEF OwnerOfArchive
  <2>5. s.ledger[e] \in Seq(Owners) /\ e \in exports
      BY <2>3, <2>4 DEF FactsInv, Subjects
  <2>6. Final(s.ledger[e]) \in Owners /\ Final(s.ledger[e]) \in Range(s.ledger[e])
      BY <2>4, <2>5, FinalIsRecorded
  <2>7. import(x).archive = e /\ import(x).owner = Final(s.ledger[e])
      BY <2>2, <2>4, SMT
  <2>8. /\ queue[x].archive = import(x).archive /\ queue[x].owner = import(x).owner
        /\ queue[x].digest = FactDigest(x, rows[x])
    <3>1. queue[x] = Repair(x, rows[x], import(x), request)
        BY <1>2
    <3> QED
        BY <3>1, SMT DEF Repair
  <2>9. Whole(FactDigest(x, rows[x]).messages)
      BY <1>3, FactsAreBuiltWhole
  <2> QED
      BY <2>5, <2>6, <2>7, <2>8, <2>9
<1>5. QueueOK(queue, s, rows, exports)
    BY <1>2, <1>3, <1>4 DEF QueueOK
<1> QED
    BY <1>1, <1>5, EnqueueKeeps

\* What remove_rows makes of the facts before it announces anything again.
RetractedFacts(s, removed, gone, tenant) ==
    LET subjects == removed \cup gone
        dropped == DropFacts(s, gone, removed)
        cleared == [dropped EXCEPT !.ledger = IF tenant THEN NoFacts.ledger ELSE @]
    IN InsertTombstones(cleared, subjects, ReadAnnouncements(s, subjects))

\* The tombstones reach everyone who was told: what stays known is about a
\* row that stays and under an archive that stays.
LEMMA RetractKeeps ==
    ASSUME NEW s, NEW rows, NEW left, NEW exports \in SUBSET ExportIds, NEW gone, NEW removed, NEW tenant,
           FactsInv(s, rows, exports), tenant => exports \subseteq gone,
           \A x \in Entities \ removed : rows[x].row # None => left[x].row # None
    PROVE FactsInv(RetractedFacts(s, removed, gone, tenant), left, exports \ gone)
<1> DEFINE subjects == removed \cup gone
           ledgers == ReadAnnouncements(s, subjects)
           facts == [x \in Entities |-> IF x \in removed THEN {} ELSE {f \in s.facts[x] : f.archive \notin gone}]
           omitted == [e \in ExportIds |-> IF e \in gone THEN {} ELSE s.omitted[e]]
           before == IF tenant THEN NoFacts.ledger ELSE s.ledger
           ledger == [x \in Subjects |-> IF x \in subjects THEN <<>> ELSE before[x]]
           Mine(u) == {y \in subjects : u \in ledgers[y]}
           known == [u \in Owners |-> [x \in Entities |->
                       IF Retracted(s.known[u][x], x, Mine(u)) THEN None ELSE s.known[u][x]]]
           dropped == DropFacts(s, gone, removed)
           cleared == [dropped EXCEPT !.ledger = IF tenant THEN NoFacts.ledger ELSE @]
<1>1. PICK t : t = RetractedFacts(s, removed, gone, tenant)
    OBVIOUS
<1>2. t = InsertTombstones(cleared, subjects, ledgers)
    BY <1>1 DEF RetractedFacts
<1>3. dropped = [s EXCEPT !.facts = facts, !.omitted = omitted]
    BY DEF DropFacts
<1>4. \A y \in subjects : ledgers[y] = Range(s.ledger[y])
    BY DEF ReadAnnouncements
<1> HIDE DEF facts, omitted, dropped, subjects, ledgers
<1>5. DOMAIN s = FactFields
    BY DEF FactsInv, FactFields
<1>6. DOMAIN dropped = FactFields /\ dropped.facts = facts /\ dropped.ledger = s.ledger /\ dropped.known = s.known
    BY <1>3, <1>5, SMT DEF FactFields
<1>7. cleared = [dropped EXCEPT !.ledger = before]
    BY <1>6
<1> HIDE DEF cleared, before
<1>8. DOMAIN cleared = FactFields /\ cleared.facts = facts /\ cleared.ledger = before /\ cleared.known = s.known
    BY <1>6, <1>7, SMT DEF FactFields
<1>9. t = [cleared EXCEPT !.known = known, !.ledger = ledger]
    BY <1>2, <1>8 DEF InsertTombstones
<1>10. \A x \in Subjects : ledger[x] = IF x \in subjects THEN <<>> ELSE before[x]
    OBVIOUS
<1>11. \A u \in Owners, x \in Entities :
          known[u][x] = IF Retracted(s.known[u][x], x, Mine(u)) THEN None ELSE s.known[u][x]
    OBVIOUS
<1>12. \A u \in Owners : \A y \in subjects : y \in Mine(u) <=> u \in Range(s.ledger[y])
    BY <1>4
<1>13. DOMAIN known = Owners /\ \A u \in Owners : DOMAIN known[u] = Entities
    OBVIOUS
<1>14. ledger = [x \in Subjects |-> ledger[x]]
    OBVIOUS
<1> HIDE DEF ledger, known, Mine
<1>15. DOMAIN t = FactFields /\ t.facts = facts /\ t.ledger = ledger /\ t.known = known
    BY <1>8, <1>9, SMT DEF FactFields
<1>16. /\ facts = [x \in Entities |-> facts[x]]
       /\ \A x \in Entities : facts[x] \subseteq s.facts[x] /\ \A f \in facts[x] : f.archive \notin gone
    BY DEF facts
<1>17. \A x \in Entities : \A f \in facts[x] :
          f.archive \in exports \ gone /\ f.owner \in Owners /\ Whole(f.digest.messages)
    BY <1>16 DEF FactsInv
<1>18. /\ tenant => \A x \in Subjects : before[x] = <<>>
       /\ ~tenant => before = s.ledger
  <2>1. NoFacts.ledger = [x \in Subjects |-> <<>>]
      BY SMT DEF NoFacts
  <2> QED
      BY <2>1 DEF before
<1>19. ASSUME NEW x \in Subjects
       PROVE ledger[x] \in Seq(Owners) /\ (ledger[x] # <<>> => x \notin subjects /\ ledger[x] = s.ledger[x])
  <2>1. <<>> \in Seq(Owners)
      BY SMT
  <2>2. s.ledger[x] \in Seq(Owners)
      BY DEF FactsInv
  <2> QED
      BY <1>10, <1>18, <2>1, <2>2
<1>20. ledger \in [Subjects -> Seq(Owners)]
    BY <1>14, <1>19
<1>21. \A e \in ExportIds : ledger[e] # <<>> => e \in exports \ gone
    BY <1>19 DEF FactsInv, Subjects, subjects
<1>22. ASSUME NEW u \in Owners, NEW x \in Entities, known[u][x] # None
       PROVE /\ left[x].row # None /\ known[u][x].archive \in exports \ gone
             /\ u \in Range(ledger[x]) /\ u \in Range(ledger[known[u][x].archive])
  <2>1. PICK held : held = s.known[u][x]
      OBVIOUS
  <2>2. known[u][x] = held /\ ~Retracted(held, x, Mine(u)) /\ held # None
      BY <1>11, <1>22, <2>1
  <2>3. x \notin Mine(u) /\ held.archive \notin Mine(u)
      BY <2>2 DEF Retracted
  <2>4. /\ rows[x].row # None /\ held.archive \in exports
        /\ u \in Range(s.ledger[x]) /\ u \in Range(s.ledger[held.archive])
      BY <2>1, <2>2 DEF FactsInv
  <2>5. x \notin subjects /\ held.archive \notin subjects
      BY <1>12, <2>3, <2>4
  <2>6. x \notin removed /\ held.archive \notin gone /\ ~tenant
      BY <2>4, <2>5 DEF subjects
  <2>7. x \in Subjects /\ held.archive \in Subjects
      BY <2>4 DEF Subjects
  <2>8. ledger[x] = s.ledger[x] /\ ledger[held.archive] = s.ledger[held.archive]
      BY <1>10, <1>18, <2>5, <2>6, <2>7
  <2> QED
      BY <2>2, <2>4, <2>6, <2>8
<1>23. FactsInv(t, left, exports \ gone)
  <2>1. facts = [x \in Entities |-> facts[x]]
      BY <1>16
  <2>2. \A u \in Owners, x \in Entities : t.known[u][x] # None =>
            /\ left[x].row # None /\ t.known[u][x].archive \in exports \ gone
            /\ u \in Range(t.ledger[x]) /\ u \in Range(t.ledger[t.known[u][x].archive])
      BY <1>15, <1>22
  <2>3. /\ t.facts = [x \in Entities |-> t.facts[x]]
        /\ \A x \in Entities : \A f \in t.facts[x] :
              f.archive \in exports \ gone /\ f.owner \in Owners /\ Whole(f.digest.messages)
      BY <1>15, <1>17, <2>1
  <2>4. /\ DOMAIN t = {"facts", "ledger", "known", "omitted"}
        /\ t.ledger \in [Subjects -> Seq(Owners)]
        /\ \A e \in ExportIds : t.ledger[e] # <<>> => e \in exports \ gone
        /\ DOMAIN t.known = Owners /\ \A u \in Owners : DOMAIN t.known[u] = Entities
      BY <1>13, <1>15, <1>20, <1>21 DEF FactFields
  <2> QED
      BY <2>2, <2>3, <2>4 DEF FactsInv
<1> QED
    BY <1>1, <1>23

-----------------------------------------------------------------------------
\* More imports leave a record as it is.
LEMMA RecordInvGrows ==
    ASSUME NEW r, NEW imported, NEW more, RecordInv(r, imported), imported \subseteq more
    PROVE RecordInv(r, more)
    BY DEF RecordInv

\* A record without a row is whatever an entity without evidence needs.
LEMMA EmptyKeeps ==
    ASSUME NEW x, NEW imported, NEW replaced, NEW taken
    PROVE RecordInv(Empty, imported) /\ KeptInv(x, Empty) /\ HistoryInv(Empty, replaced, taken)
<1>1. RecordOK(Empty)
  <2>1. Empty.seen \in [ExportIds -> DOMAIN Body \cup {None}]
      BY EmptyRecord
  <2>2. Empty.messages \in [Messages -> MessageType \cup {None}]
      BY EmptyRecord DEF NoMessages
  <2> QED
      BY <2>1, <2>2, EmptyRecord DEF RecordOK, Fields
<1>2. RecordInv(Empty, imported) /\ KeptInv(x, Empty)
    BY <1>1, EmptyRecord DEF RecordInv, KeptInv
<1>3. HistoryInv(Empty, replaced, taken)
    BY EmptyRecord DEF HistoryInv, PartsComeFrom
<1> QED
    BY <1>2, <1>3

\* The record s of x is r, or r with something read from the export e.
Read(x, r, s, e) ==
    \/ s = r
    \/ x \in Projects /\ s.row # None
    \/ x \in Conversations /\ s.row # None /\ \E d, project : ConversationRead(r, s, e, d, project)

\* persist_projection keeps the invariant of the records.
LEMMA PersistProjectionKeeps ==
    ASSUME NEW rows, NEW imported, NEW e \in ExportIds, NEW p \in Parsers, NEW parsed \in Readings,
           NEW astray \in SUBSET Conversations,
           RowsInv(rows, imported), VersionsInv(rows, astray), LinksInv(rows)
    PROVE LET new == PersistProjection(rows, e, p, parsed)
          IN /\ DOMAIN new = Entities /\ RowsInv(new, imported \cup {e}) /\ LinksInv(new)
             /\ VersionsInv(new, astray)
             /\ \A x \in Entities : Read(x, rows[x], new[x], e)
<1>1. PICK new : new = PersistProjection(rows, e, p, parsed)
    OBVIOUS
<1>2. DOMAIN new = Entities
    BY <1>1 DEF PersistProjection
<1>3. ASSUME NEW x \in Entities
      PROVE new[x] = IF parsed[x] = None THEN rows[x]
                     ELSE IF x \in Projects THEN PersistProject(rows[x], e, p, parsed[x].digest)
                     ELSE PersistConversation(rows[x], e, p, parsed[x].digest, parsed[x].project)
    BY <1>1 DEF PersistProjection
<1>4. ASSUME NEW x \in Entities, parsed[x] # None
      PROVE parsed[x].digest \in DOMAIN Body /\ parsed[x].project \in Projects \cup {None}
  <2>1. parsed[x] \in [digest : DOMAIN Body, project : Projects \cup {None}]
      BY <1>4 DEF Readings
  <2> QED
      BY <2>1, SMT
<1>5. \A x \in Conversations : parsed[x] # None /\ parsed[x].project # None => parsed[parsed[x].project] # None
    BY DEF Readings
<1>6. ASSUME NEW x \in Projects, parsed[x] # None
      PROVE /\ RecordInv(new[x], imported \cup {e}) /\ KeptInv(x, new[x])
            /\ new[x].row # None /\ new[x].row.project = None
  <2>1. x \in Entities /\ RecordInv(rows[x], imported) /\ KeptInv(x, rows[x])
      BY VersionConstants DEF Entities, RowsInv, VersionsInv
  <2>2. new[x] = PersistProject(rows[x], e, p, parsed[x].digest) /\ parsed[x].digest \in DOMAIN Body
      BY <1>3, <1>4, <1>6, <2>1
  <2>3. PICK d : d = parsed[x].digest
      OBVIOUS
  <2>4. LET s == PersistProject(rows[x], e, p, d)
        IN RecordInv(s, imported \cup {e}) /\ KeptInv(x, s) /\ ProjectRead(s)
      BY <2>1, <2>2, <2>3, PersistProjectKeeps
  <2> QED
      BY <2>2, <2>3, <2>4 DEF ProjectRead
<1>7. ASSUME NEW x \in Conversations, parsed[x] # None
      PROVE /\ RecordInv(new[x], imported \cup {e})
            /\ KeptInv(x, rows[x]) => KeptInv(x, new[x])
            /\ ConversationRead(rows[x], new[x], e, parsed[x].digest, parsed[x].project)
  <2>1. x \in Entities /\ x \notin Projects /\ RecordInv(rows[x], imported)
      BY VersionConstants DEF Entities, RowsInv
  <2>2. /\ new[x] = PersistConversation(rows[x], e, p, parsed[x].digest, parsed[x].project)
        /\ parsed[x].digest \in DOMAIN Body /\ parsed[x].project \in Projects \cup {None}
      BY <1>3, <1>4, <1>7, <2>1
  <2>3. PICK d, project : d = parsed[x].digest /\ project = parsed[x].project
      OBVIOUS
  <2>4. LET s == PersistConversation(rows[x], e, p, d, project)
        IN /\ ConversationRead(rows[x], s, e, d, project) /\ RecordInv(s, imported \cup {e})
           /\ KeptInv(x, rows[x]) => KeptInv(x, s)
      BY <2>1, <2>2, <2>3, PersistConversationKeeps
  <2> QED
      BY <2>2, <2>3, <2>4
<1>8. ASSUME NEW x \in Entities, parsed[x] = None
      PROVE RecordInv(new[x], imported \cup {e}) /\ new[x] = rows[x]
  <2>1. new[x] = rows[x] /\ RecordInv(rows[x], imported)
      BY <1>3, <1>8 DEF RowsInv
  <2>2. imported \subseteq imported \cup {e}
      OBVIOUS
  <2> QED
      BY <2>1, <2>2, RecordInvGrows
<1>9. RowsInv(new, imported \cup {e})
    BY <1>6, <1>7, <1>8 DEF RowsInv, Entities
<1>10. ASSUME NEW x \in Entities
       PROVE Read(x, rows[x], new[x], e)
    BY <1>6, <1>7, <1>8 DEF Read, Entities, ConversationRead
<1>11. ASSUME NEW x \in Entities
       PROVE (rows[x].row # None => new[x].row # None) /\ (parsed[x] # None => new[x].row # None)
    BY <1>6, <1>7, <1>8 DEF Entities, ConversationRead
<1>12. ASSUME NEW x \in Entities, new[x].row # None, new[x].row.project # None
       PROVE new[new[x].row.project].row # None
  <2>1. CASE x \in Projects /\ parsed[x] # None
      BY <1>6, <1>12, <2>1
  <2>2. CASE rows[x].row # None /\ new[x].row.project = rows[x].row.project
    <3>1. rows[new[x].row.project].row # None
        BY <1>12, <2>2 DEF LinksInv
    <3>2. RecordOK(rows[x])
        BY DEF RowsInv, RecordInv
    <3>3. rows[x].row \in RowType
        BY <2>2, <3>2 DEF RecordOK
    <3>4. rows[x].row.project \in Projects \cup {None}
        BY <3>3, SMT DEF RowType
    <3>5. new[x].row.project \in Entities
        BY <1>12, <2>2, <3>4 DEF Entities
    <3> QED
        BY <1>11, <3>1, <3>5
  <2>3. CASE x \in Conversations /\ parsed[x] # None /\ new[x].row.project = parsed[x].project
    <3>1. parsed[x].project \in Entities /\ parsed[parsed[x].project] # None
        BY <1>4, <1>5, <1>12, <2>3 DEF Entities
    <3> QED
        BY <1>11, <2>3, <3>1
  <2> QED
      BY <1>7, <1>8, <1>12, <2>1, <2>2, <2>3 DEF ConversationRead, Entities
<1>13. LinksInv(new)
    BY <1>12 DEF LinksInv
<1>14. VersionsInv(new, astray)
  <2>1. ASSUME NEW x \in Entities \ astray
        PROVE KeptInv(x, new[x])
    <3>1. KeptInv(x, rows[x])
        BY DEF VersionsInv
    <3> QED
        BY <1>6, <1>7, <1>8, <3>1 DEF Entities
  <2> QED
      BY <2>1 DEF VersionsInv
<1> QED
    BY <1>1, <1>2, <1>9, <1>10, <1>13, <1>14

\* The history of a conversation survives the reading of an export.
LEMMA ReadKeepsHistory ==
    ASSUME NEW x \in Conversations, NEW r, NEW s, NEW e, NEW replaced, NEW taken,
           HistoryInv(r, replaced, taken), Read(x, r, s, e)
    PROVE HistoryInv(s, replaced \cup ({r.seen[e]} \ {None, s.seen[e]}), taken)
<1>1. CASE s = r
  <2>1. replaced \cup ({r.seen[e]} \ {None, s.seen[e]}) = replaced
      BY <1>1
  <2> QED
      BY <1>1, <2>1
<1>2. CASE s # r
  <2>1. x \notin Projects
      BY VersionConstants
  <2>2. PICK d, project : ConversationRead(r, s, e, d, project)
      BY <1>2, <2>1 DEF Read
  <2>3. HistoryInv(s, replaced \cup ({r.seen[e]} \ {None, d}), taken)
      BY <2>2, PersistConversationKeepsHistory
  <2>4. s.seen[e] = d
    <3>1. Grown(r, s, e, d)
        BY <2>2 DEF ConversationRead
    <3> QED
      <4>1. GrownEvidence(r, s, e, d)
          BY <3>1, ObserversGrow
      <4> QED
          BY <4>1 DEF GrownEvidence
  <2> QED
      BY <2>3, <2>4
<1> QED
    BY <1>1, <1>2

\* What remove_rows leaves of the records, and the conversations it leaves
\* without an export or found so.
Scoped(rows, p) == [x \in Entities |-> DeleteScoped(x, rows[x], p)]
LeftRows(rows, p) == RestoreRetainedVersions(Scoped(rows, p))
Astray(left, astray) == {x \in Conversations : left[x].row # None /\ (x \in astray \/ Observers(left[x]) = {})}

\* remove_rows keeps the invariant of the records, and takes no row that the
\* inventory does not list.
LEMMA RemovalKeeps ==
    ASSUME NEW rows, NEW imported, NEW p, NEW replaced, NEW taken, NEW astray \in SUBSET Conversations,
           RowsInv(rows, imported), LinksInv(rows), VersionsInv(rows, astray),
           HistoriesInv(rows, replaced, taken, astray)
    PROVE LET left == LeftRows(rows, p)
          IN /\ DOMAIN left = Entities /\ RowsInv(left, imported \ p.exports) /\ LinksInv(left)
             /\ VersionsInv(left, Astray(left, astray))
             /\ \A x \in Entities \ p.rows : rows[x].row # None => left[x].row # None
             /\ \A x \in Conversations \ Astray(left, astray) :
                   HistoryInv(left[x], IF x \in p.rows \cup Rewritten(Scoped(rows, p)) THEN {} ELSE replaced[x],
                              taken[x] \cup Taken(x, rows[x], p))
<1> DEFINE scoped == Scoped(rows, p)
           projects == {q \in Projects : scoped[q].row # None}
<1>1. PICK left : left = LeftRows(rows, p)
    OBVIOUS
<1>2. left = [x \in Entities |-> Restore(x, scoped[x], projects)]
    BY <1>1 DEF LeftRows, RestoreRetainedVersions
<1>3. \A x \in Entities : scoped[x] = DeleteScoped(x, rows[x], p)
    BY DEF Scoped
<1> HIDE DEF scoped
<1>4. projects \in SUBSET Projects /\ \A q \in Projects : q \in projects <=> scoped[q].row # None
    OBVIOUS
<1> HIDE DEF projects
<1>5. DOMAIN left = Entities /\ \A x \in Entities : left[x] = Restore(x, scoped[x], projects)
    BY <1>2
<1> DEFINE Kept(x) == x \notin p.rows /\ rows[x].row # None
<1>6. ASSUME NEW x \in Entities, ~Kept(x)
      PROVE left[x] = Empty
  <2>1. scoped[x] = Empty
      BY <1>3, <1>6 DEF DeleteScoped
  <2>2. left[x] = [Empty EXCEPT !.kept = {}]
      BY <1>5, <2>1, EmptyRecord DEF Restore
  <2>3. [Empty EXCEPT !.kept = {}] = Empty
      BY SMT DEF Empty
  <2> QED
      BY <2>2, <2>3
<1>7. ASSUME NEW x \in Entities, Kept(x)
      PROVE /\ RecordInv(rows[x], imported) /\ Cut(x, rows[x], scoped[x], p)
            /\ ScopedInv(scoped[x], imported \ p.exports)
            /\ KeptInv(x, rows[x]) /\ (x \in Conversations => Observers(scoped[x]) # {}) => ScopedKept(x, scoped[x])
  <2>1. RecordInv(rows[x], imported)
      BY DEF RowsInv
  <2>2. Cut(x, rows[x], scoped[x], p)
      BY <1>3, <1>7, <2>1, DeleteScopedWrites
  <2> QED
      BY <1>7, <2>1, <2>2, CutKeeps
<1>8. ASSUME NEW x \in Entities, Kept(x)
      PROVE RestoredRecord(x, scoped[x], left[x], projects, imported \ p.exports)
  <2>1. ScopedInv(scoped[x], imported \ p.exports)
      BY <1>7, <1>8
  <2>2. RestoredRecord(x, scoped[x], Restore(x, scoped[x], projects), projects, imported \ p.exports)
      BY <1>4, <2>1, RestoreKeeps
  <2> QED
      BY <1>5, <2>2
<1>9. ASSUME NEW x \in Entities
      PROVE RecordInv(left[x], imported \ p.exports) /\ (Kept(x) <=> left[x].row # None)
  <2>1. CASE Kept(x)
      BY <1>8, <2>1 DEF RestoredRecord
  <2>2. CASE ~Kept(x)
    <3>1. left[x] = Empty
        BY <1>6, <2>2
    <3>2. RecordInv(Empty, imported \ p.exports) /\ Empty.row = None
        BY EmptyKeeps, EmptyRecord
    <3> QED
        BY <2>2, <3>1, <3>2
  <2> QED
      BY <2>1, <2>2
<1>10. ASSUME NEW x \in Entities, left[x].row # None, left[x].row.project # None
       PROVE left[left[x].row.project].row # None
  <2>1. Kept(x)
      BY <1>9, <1>10
  <2>2. left[x].row.project \in projects \cup {None, scoped[x].row.project}
      BY <1>8, <2>1 DEF RestoredRecord
  <2>3. CASE left[x].row.project \in projects
    <3>1. PICK q : q = left[x].row.project
        OBVIOUS
    <3>2. q \in Entities /\ scoped[q].row # None
        BY <1>4, <2>3, <3>1 DEF Entities
    <3>3. Kept(q)
      <4>1. SUFFICES ASSUME ~Kept(q)
                     PROVE scoped[q].row = None
          BY <3>2
      <4> QED
          BY <1>3, <3>2, <4>1, EmptyRecord DEF DeleteScoped
    <3> QED
        BY <1>9, <3>1, <3>2, <3>3
  <2>4. CASE left[x].row.project = scoped[x].row.project
    <3>1. PICK q : q = left[x].row.project
        OBVIOUS
    <3>2. Cut(x, rows[x], scoped[x], p) /\ RecordInv(rows[x], imported)
        BY <1>7, <2>1
    <3>3. q = rows[x].row.project /\ q \notin p.rows
        BY <1>10, <2>4, <3>1, <3>2 DEF Cut
    <3>4. rows[x].row \in RowType
        BY <2>1, <3>2 DEF RecordInv, RecordOK
    <3>5. rows[x].row.project \in Projects \cup {None}
        BY <3>4, SMT DEF RowType
    <3>6. q \in Entities /\ rows[q].row # None
        BY <1>10, <2>1, <3>1, <3>3, <3>5 DEF LinksInv, Entities
    <3> QED
        BY <1>9, <3>1, <3>3, <3>6
  <2> QED
      BY <1>10, <2>2, <2>3, <2>4
<1>11. ASSUME NEW x \in Entities, x \notin Astray(left, astray), Kept(x)
       PROVE x \notin astray /\ KeptInv(x, rows[x]) /\ ScopedKept(x, scoped[x])
  <2>1. left[x].row # None /\ Observers(left[x]) = Observers(scoped[x])
      BY <1>8, <1>11 DEF RestoredRecord
  <2>2. x \notin astray /\ (x \in Conversations => Observers(scoped[x]) # {})
      BY <1>11, <2>1 DEF Astray
  <2>3. KeptInv(x, rows[x])
      BY <2>2 DEF VersionsInv
  <2> QED
      BY <1>7, <1>11, <2>2, <2>3
<1>12. ASSUME NEW x \in Conversations \ Astray(left, astray)
       PROVE HistoryInv(left[x], IF x \in p.rows \cup Rewritten(scoped) THEN {} ELSE replaced[x],
                        taken[x] \cup Taken(x, rows[x], p))
  <2>1. x \in Entities /\ x \in Conversations
      BY DEF Entities
  <2>2. CASE Kept(x)
    <3>1. /\ RecordInv(rows[x], imported) /\ Cut(x, rows[x], scoped[x], p)
          /\ ScopedInv(scoped[x], imported \ p.exports)
        BY <1>7, <2>1, <2>2
    <3>2. x \notin astray /\ KeptInv(x, rows[x]) /\ ScopedKept(x, scoped[x])
        BY <1>11, <2>1, <2>2
    <3>3. HistoryInv(rows[x], replaced[x], taken[x])
        BY <2>1, <3>2 DEF HistoriesInv
    <3>4. ScopedHistory(scoped[x], replaced[x], taken[x] \cup Taken(x, rows[x], p))
        BY <2>2, <3>1, <3>2, <3>3, CutKeepsHistory
    <3>5. HistoryInv(Restore(x, scoped[x], projects),
                     IF Stale(scoped[x]) /\ Held(scoped[x]) # {} THEN {} ELSE replaced[x],
                     taken[x] \cup Taken(x, rows[x], p))
        BY <1>4, <2>1, <3>1, <3>2, <3>4, RestoreKeepsHistory
    <3>6. x \in Rewritten(scoped) <=> Stale(scoped[x]) /\ Held(scoped[x]) # {}
        BY <2>1 DEF Rewritten
    <3>7. x \notin p.rows /\ left[x] = Restore(x, scoped[x], projects)
        BY <1>5, <2>1, <2>2
    <3> QED
        BY <3>5, <3>6, <3>7
  <2>3. CASE ~Kept(x)
      BY <1>6, <2>1, <2>3, EmptyKeeps
  <2> QED
      BY <2>2, <2>3
<1>13. VersionsInv(left, Astray(left, astray))
  <2>1. ASSUME NEW x \in Entities \ Astray(left, astray)
        PROVE KeptInv(x, left[x])
    <3>1. CASE Kept(x)
        BY <1>8, <1>11, <3>1 DEF RestoredRecord
    <3>2. CASE ~Kept(x)
        BY <1>6, <3>2, EmptyKeeps
    <3> QED
        BY <3>1, <3>2
  <2> QED
      BY <2>1 DEF VersionsInv
<1>14. RowsInv(left, imported \ p.exports) /\ LinksInv(left)
    BY <1>9, <1>10 DEF RowsInv, LinksInv
<1>15. \A x \in Entities \ p.rows : rows[x].row # None => left[x].row # None
    BY <1>9
<1> QED
    BY <1>1, <1>5, <1>12, <1>13, <1>14, <1>15 DEF scoped

-----------------------------------------------------------------------------
\* Init establishes the invariant.
LEMMA InitArchive == Init => ArchiveInv
<1> SUFFICES ASSUME Init
             PROVE ArchiveInv
    OBVIOUS
<1> USE DEF Init
<1>1. received \in 0..MaxExports
    BY VersionConstants, SMT
<1>2. \A x \in Entities : db[x] = Empty
    OBVIOUS
<1>3. RowsInv(db, Imported) /\ VersionsInv(db, stranded) /\ HistoriesInv(db, reread, lost, stranded)
    BY <1>2, EmptyKeeps DEF RowsInv, VersionsInv, HistoriesInv, Entities
<1>4. LinksInv(db)
    BY <1>2, EmptyRecord DEF LinksInv
<1>5. FactsInv(w, db, Exports)
  <2>1. /\ DOMAIN NoFacts = FactFields /\ NoFacts.facts = [x \in Entities |-> {}]
        /\ NoFacts.ledger = [x \in Subjects |-> <<>>]
        /\ NoFacts.known = [u \in Owners |-> [x \in Entities |-> None]]
      BY SMT DEF NoFacts, FactFields
  <2>2. NoFacts.ledger \in [Subjects -> Seq(Owners)]
    <3>1. <<>> \in Seq(Owners)
        BY SMT
    <3> QED
        BY <2>1, <3>1
  <2>3. \A e \in ExportIds : NoFacts.ledger[e] = <<>>
      BY <2>1 DEF Subjects
  <2>4. NoFacts.facts = [x \in Entities |-> NoFacts.facts[x]] /\ \A x \in Entities : NoFacts.facts[x] = {}
      BY <2>1
  <2>5. /\ DOMAIN NoFacts.known = Owners /\ \A u \in Owners : DOMAIN NoFacts.known[u] = Entities
        /\ \A u \in Owners, x \in Entities : NoFacts.known[u][x] = None
    <3>1. NoFacts.known = [u \in Owners |-> [x \in Entities |-> None]]
        BY <2>1
    <3>2. DOMAIN NoFacts.known = Owners /\ \A u \in Owners : NoFacts.known[u] = [x \in Entities |-> None]
        BY <3>1
    <3> QED
        BY <3>2
  <2>6. w = NoFacts
      OBVIOUS
  <2> HIDE DEF Init
  <2>7. DOMAIN NoFacts = FactFields
      BY <2>1
  <2>8. FactsInv(NoFacts, db, Exports)
    <3>1. NoFacts.facts = [x \in Entities |-> NoFacts.facts[x]]
        BY <2>4
    <3>2. \A x \in Entities : \A f \in NoFacts.facts[x] :
              f.archive \in Exports /\ f.owner \in Owners /\ Whole(f.digest.messages)
        BY <2>4
    <3> QED
        BY <2>2, <2>3, <2>5, <2>7, <3>1, <3>2 DEF FactsInv, FactFields
  <2> QED
      BY <2>6, <2>8
<1>6. upload \in [ExportIds -> Uploads \cup {None}] /\ parser \in [ExportIds -> Parsers \cup {0}]
    OBVIOUS
<1>7. DOMAIN plan = Requests /\ \A i \in Requests : plan[i] = None
    OBVIOUS
<1> QED
    BY <1>1, <1>3, <1>4, <1>5, <1>6, <1>7 DEF ArchiveInv, StoreInv, JobInv, PlanInv, Planned

stored == <<received, upload, parser, db, w, reread, lost, stranded>>

\* An action that writes none of the tables keeps what they hold.
LEMMA StoreUnchanged ==
    ASSUME StoreInv, UNCHANGED stored
    PROVE StoreInv'
    BY DEF StoreInv, stored, Exports, Imported

\* Receiving an export keeps the invariant.
LEMMA ReceiveKeeps ==
    ASSUME ArchiveInv, NEW u \in Uploads, Receive(u)
    PROVE ArchiveInv'
<1> USE DEF Receive, deleting
<1>1. /\ received \in 0..MaxExports /\ MaxExports \in Nat /\ received < MaxExports
      /\ upload \in [ExportIds -> Uploads \cup {None}]
    BY VersionConstants DEF ArchiveInv, StoreInv
<1>2. received + 1 \in ExportIds /\ received' \in 0..MaxExports
    BY <1>1, SMT DEF ExportIds
<1>3. upload' \in [ExportIds -> Uploads \cup {None}] /\ \A e \in ExportIds : upload[e] # None => upload'[e] # None
    BY <1>1, <1>2, ArchiveConstants
<1>4. Exports \subseteq Exports' /\ Imported \subseteq Imported'
    BY <1>3 DEF Exports, Imported
<1>5. RowsInv(db', Imported')
  <2>1. ASSUME NEW x \in Entities
        PROVE RecordInv(db[x], Imported')
    <3>1. RecordInv(db[x], Imported)
        BY DEF ArchiveInv, StoreInv, RowsInv
    <3> QED
        BY <1>4, <3>1, RecordInvGrows
  <2> QED
      BY <2>1 DEF RowsInv
<1>6. FactsInv(w', db', Exports')
  <2>1. FactsInv(w, db, Exports)
      BY DEF ArchiveInv, StoreInv
  <2>2. FactsInv(w, db, Exports')
      BY <1>4, <2>1, FactsInvGrows
  <2> QED
      BY <2>2
<1>7. StoreInv'
    BY <1>2, <1>3, <1>5, <1>6 DEF ArchiveInv, StoreInv
<1> QED
    BY <1>7 DEF ArchiveInv, JobInv, PlanInv, Planned

\* An import and an applied reparse read an export into the tables.
ReadInto(e, p, parsed, o, always) ==
    /\ parser' = [parser EXCEPT ![e] = p]
    /\ db' = PersistProjection(db, e, p, parsed)
    /\ w' = ProjectImportFacts(w, db', e, o, always)
    /\ \A x \in Conversations : reread'[x] = reread[x] \cup ({db[x].seen[e]} \ {None, db'[x].seen[e]})
    /\ UNCHANGED <<received, upload, lost, stranded>>

\* Reading an export keeps what the tables hold.
LEMMA ReadIntoKeeps ==
    ASSUME StoreInv, NEW e \in Exports, NEW p \in Parsers, NEW parsed \in Readings,
           NEW o \in Owners \cup {None}, NEW always, ReadInto(e, p, parsed, o, always)
    PROVE StoreInv'
<1>1. /\ parser \in [ExportIds -> Parsers \cup {0}] /\ RowsInv(db, Imported) /\ LinksInv(db)
      /\ VersionsInv(db, stranded) /\ HistoriesInv(db, reread, lost, stranded) /\ FactsInv(w, db, Exports)
      /\ stranded \in SUBSET Conversations
    BY DEF StoreInv
<1>2. e \in ExportIds /\ Exports \in SUBSET ExportIds /\ Exports' = Exports
    BY DEF Exports, ReadInto
<1>3. parser' \in [ExportIds -> Parsers \cup {0}] /\ parser'[e] # 0 /\ \A f \in ExportIds : f # e => parser'[f] = parser[f]
  <2>1. p # 0
      BY ArchiveConstants
  <2> QED
      BY <1>1, <1>2, <2>1 DEF ReadInto
<1>4. Imported' = Imported \cup {e}
    BY <1>2, <1>3 DEF Imported, Exports
<1>5. /\ DOMAIN db' = Entities /\ RowsInv(db', Imported') /\ LinksInv(db')
      /\ VersionsInv(db', stranded)
      /\ \A x \in Entities : Read(x, db[x], db'[x], e)
  <2>1. LET new == PersistProjection(db, e, p, parsed)
        IN /\ DOMAIN new = Entities /\ RowsInv(new, Imported \cup {e}) /\ LinksInv(new)
           /\ VersionsInv(new, stranded)
           /\ \A x \in Entities : Read(x, db[x], new[x], e)
      BY <1>1, <1>2, PersistProjectionKeeps
  <2> QED
      BY <1>4, <2>1 DEF ReadInto
<1>6. ASSUME NEW x \in Conversations \ stranded
      PROVE HistoryInv(db[x], reread[x], lost[x]) /\ Read(x, db[x], db'[x], e)
    BY <1>1, <1>5 DEF Entities, HistoriesInv
<1>7. ASSUME NEW x \in Conversations \ stranded
      PROVE HistoryInv(db'[x], reread'[x], lost'[x])
  <2>1. HistoryInv(db'[x], reread[x] \cup ({db[x].seen[e]} \ {None, db'[x].seen[e]}), lost[x])
      BY <1>6, ReadKeepsHistory
  <2>2. reread'[x] = reread[x] \cup ({db[x].seen[e]} \ {None, db'[x].seen[e]}) /\ lost'[x] = lost[x]
      BY DEF ReadInto
  <2> QED
      BY <2>1, <2>2
<1>8. FactsInv(w', db', Exports')
  <2>1. \A x \in Entities : db[x].row # None => db'[x].row # None
      BY <1>5 DEF Read
  <2>2. FactsInv(w, db', Exports)
      BY <1>1, <2>1, FactsInvGrows
  <2>3. \A x \in Entities : RecordOK(db'[x])
      BY <1>5 DEF RowsInv, RecordInv
  <2>4. FactsInv(ProjectImportFacts(w, db', e, o, always), db', Exports)
      BY <1>2, <2>2, <2>3, ProjectImportFactsKeeps
  <2> QED
      BY <1>2, <2>4 DEF ReadInto
<1>9. HistoriesInv(db', reread', lost', stranded') /\ VersionsInv(db', stranded')
    BY <1>5, <1>7 DEF HistoriesInv, ReadInto
<1>10. received' \in 0..MaxExports /\ upload' \in [ExportIds -> Uploads \cup {None}]
    BY DEF StoreInv, ReadInto
<1>11. stranded' \subseteq {x \in Conversations : db'[x].row # None}
  <2>1. ASSUME NEW x \in stranded
        PROVE x \in Conversations /\ db'[x].row # None
    <3>1. x \in Conversations /\ x \in Entities /\ db[x].row # None
        BY DEF StoreInv, Entities
    <3> QED
        BY <1>5, <3>1 DEF Read
  <2> QED
      BY <2>1 DEF ReadInto
<1> QED
    BY <1>3, <1>5, <1>8, <1>9, <1>10, <1>11 DEF StoreInv

\* An import keeps the invariant: the export it reads was not read before, so
\* it replaces no version.
LEMMA ImportKeeps ==
    ASSUME ArchiveInv, NEW e \in ExportIds, NEW p \in Importers, Import(e, p)
    PROVE ArchiveInv'
<1>1. StoreInv /\ PlanInv /\ JobInv /\ owner \in Owners \cup {None}
    BY DEF ArchiveInv
<1>2. e \in Exports /\ e \notin Imported /\ p \in Parsers
    BY ArchiveConstants DEF Import
<1>3. Reading[upload[e]][p] \in Readings
  <2>1. upload[e] \in Uploads
      BY <1>1, <1>2 DEF StoreInv, Exports
  <2> QED
      BY <1>2, <2>1, ArchiveConstants
<1>4. ASSUME NEW x \in Conversations
      PROVE reread'[x] = reread[x] \cup ({db[x].seen[e]} \ {None, db'[x].seen[e]})
  <2>1. Observers(db[x]) \subseteq Imported
      BY <1>1 DEF StoreInv, RowsInv, RecordInv, Entities
  <2>2. db[x].seen[e] = None
      BY <1>2, <2>1 DEF Observers
  <2>3. reread' = reread
      BY DEF Import, deleting
  <2> QED
      BY <2>2, <2>3
<1>5. ReadInto(e, p, Reading[upload[e]][p], owner, TRUE)
    BY <1>4 DEF ReadInto, Import, deleting
<1>6. StoreInv'
    BY <1>1, <1>2, <1>3, <1>5, ReadIntoKeeps
<1>7. JobInv' /\ PlanInv' /\ owner' \in Owners \cup {None}
    BY <1>1 DEF Import, JobInv, PlanInv, Planned, deleting
<1> QED
    BY <1>6, <1>7 DEF ArchiveInv

\* An applied reparse keeps the invariant, whatever happened since its checks.
LEMMA CommitReparseKeeps ==
    ASSUME ArchiveInv, CommitReparse
    PROVE ArchiveInv'
<1>1. StoreInv /\ PlanInv /\ JobInv /\ owner \in Owners \cup {None}
    BY DEF ArchiveInv
<1>2. /\ job.export \in Exports /\ job.target \in Parsers /\ job.parsed \in Readings
      /\ job.owner \in Owners \cup {None}
    BY <1>1 DEF CommitReparse, JobInv
<1>3. ASSUME NEW x \in Conversations
      PROVE reread'[x] = reread[x] \cup ({db[x].seen[job.export]} \ {None, db'[x].seen[job.export]})
    BY DEF CommitReparse, Entities
<1>4. ReadInto(job.export, job.target, job.parsed, job.owner, FALSE)
    BY <1>3 DEF ReadInto, CommitReparse
<1>5. StoreInv'
    BY <1>1, <1>2, <1>4, ReadIntoKeeps
<1>6. job' = None /\ owner' = owner /\ plan' = plan
    BY DEF CommitReparse
<1> QED
    BY <1>1, <1>5, <1>6 DEF ArchiveInv, JobInv, PlanInv, Planned

\* The steps of a reparse before its transaction write no table.
LEMMA ReparseStepsKeep ==
    ASSUME ArchiveInv, (\E e \in ExportIds, p \in Parsers : PlanReparse(e, p)) \/ CheckReparse \/ AbandonReparse
    PROVE ArchiveInv'
<1>1. StoreInv /\ PlanInv /\ JobInv /\ owner \in Owners \cup {None}
    BY DEF ArchiveInv
<1>2. UNCHANGED stored /\ UNCHANGED <<owner, plan>>
    BY DEF PlanReparse, CheckReparse, AbandonReparse, stored, deleting
<1>3. StoreInv' /\ PlanInv' /\ owner' \in Owners \cup {None}
    BY <1>1, <1>2, StoreUnchanged DEF PlanInv, Planned, stored
<1>4. JobInv'
  <2>1. ASSUME NEW e \in ExportIds, NEW p \in Parsers, PlanReparse(e, p)
        PROVE JobInv'
    <3>1. upload[e] \in Uploads
        BY <1>1, <2>1 DEF PlanReparse, StoreInv, Exports, Imported
    <3>2. Reading[upload[e]][p] \in Readings
        BY <3>1, ArchiveConstants
    <3>3. PICK input, parsed : input = Projection(e) /\ parsed = Reading[upload[e]][p]
        OBVIOUS
    <3>4. job' = [stage |-> "planned", export |-> e, target |-> p, input |-> input,
                  parsed |-> parsed, owner |-> owner]
        BY <2>1, <3>3 DEF PlanReparse
    <3>5. /\ DOMAIN job' = {"stage", "export", "target", "input", "parsed", "owner"}
          /\ job'.stage = "planned" /\ job'.export = e /\ job'.target = p /\ job'.parsed = parsed
          /\ job'.owner = owner
        BY <3>4, SMT
    <3> QED
        BY <1>1, <3>2, <3>3, <3>5 DEF JobInv
  <2>2. CASE job' = None
      BY <2>2 DEF JobInv
  <2>3. CASE job # None /\ job' = [job EXCEPT !.stage = "checked"]
    <3>1. /\ DOMAIN job = {"stage", "export", "target", "input", "parsed", "owner"}
          /\ job.export \in ExportIds /\ job.target \in Parsers
          /\ job.parsed \in Readings /\ job.owner \in Owners \cup {None}
        BY <1>1, <2>3 DEF JobInv
    <3>2. /\ DOMAIN job' = DOMAIN job /\ job'.stage = "checked" /\ job'.export = job.export
          /\ job'.target = job.target /\ job'.parsed = job.parsed /\ job'.owner = job.owner
        BY <2>3, <3>1, SMT
    <3> QED
        BY <3>1, <3>2 DEF JobInv
  <2> QED
      BY <2>1, <2>2, <2>3 DEF CheckReparse, AbandonReparse
<1> QED
    BY <1>3, <1>4 DEF ArchiveInv

\* An inventory does not both take and keep a record.
LEMMA PlanDeletionKeeps ==
    ASSUME ArchiveInv, NEW scope, NEW named, NEW tenant, PlanDeletion(scope, named, tenant)
    PROVE ArchiveInv'
<1>1. StoreInv /\ PlanInv /\ JobInv /\ owner \in Owners \cup {None}
    BY DEF ArchiveInv
<1>2. UNCHANGED stored /\ UNCHANGED <<owner, job>>
    BY DEF PlanDeletion, stored
<1>3. StoreInv' /\ JobInv' /\ owner' \in Owners \cup {None}
    BY <1>1, <1>2, StoreUnchanged DEF JobInv
<1>4. PICK involved, rows, new : /\ involved = Involved(scope, named) /\ rows = Unretained(involved, scope)
                                 /\ new = Inventory(scope, named, tenant)
    OBVIOUS
<1>5. InventoryOK(new)
  <2>1. PICK messages, parts, revisions, reports :
            /\ messages = ScopedMessages(involved, scope) /\ parts = ListedParts
            /\ revisions = ListedRevisions(scope) /\ reports = ListedReports(scope)
      OBVIOUS
  <2>2. new = [status |-> "planned", exports |-> scope, tenant |-> tenant, rows |-> rows,
               kept |-> involved \ rows, messages |-> messages,
               parts |-> parts, revisions |-> revisions, reports |-> reports]
      BY <1>4, <2>1 DEF Inventory
  <2>3. new.rows = rows /\ new.kept = involved \ rows /\ DOMAIN new = InventoryFields
      BY <2>2, SMT DEF InventoryFields
  <2>4. involved \subseteq Entities
      BY <1>4 DEF Involved
  <2> QED
      BY <2>3, <2>4 DEF InventoryOK
<1>6. plan' = [plan EXCEPT ![deletions + 1] = new]
    BY <1>4 DEF PlanDeletion
<1>7. DOMAIN plan' = Requests /\ \A i \in Requests : plan'[i] = plan[i] \/ plan'[i] = new
    BY <1>1, <1>6 DEF PlanInv
<1>8. PlanInv'
    BY <1>1, <1>5, <1>7 DEF PlanInv, Planned
<1> QED
    BY <1>3, <1>8 DEF ArchiveInv

\* An inventory that another removal outdates is an inventory still.
LEMMA OutdatedKeeps ==
    ASSUME NEW p, NEW q, NEW rewritten, InventoryOK(p)
    PROVE InventoryOK(Outdated(p, q, rewritten))
<1> DEFINE messages == [x \in Entities |-> IF x \in q.rows THEN {} ELSE p.messages[x] \ q.messages[x]]
           parts == [x \in Entities |-> [m \in Messages |->
                        IF x \in q.rows \cup rewritten \/ m \in q.messages[x] THEN 0 ELSE p.parts[x][m]]]
           revisions == [x \in Entities |->
                            IF x \in q.rows THEN {} ELSE {v \in p.revisions[x] : v.export \notin q.exports}]
<1>1. PICK new : new = Outdated(p, q, rewritten)
    OBVIOUS
<1>2. new = [p EXCEPT !.exports = p.exports \ q.exports, !.rows = p.rows \ q.rows, !.kept = p.kept \ q.rows,
                      !.messages = messages, !.parts = parts, !.revisions = revisions,
                      !.reports = p.reports \ q.exports]
    BY <1>1 DEF Outdated
<1> HIDE DEF messages, parts, revisions
<1>3. DOMAIN p = InventoryFields /\ p.rows \cap p.kept = {} /\ p.kept \subseteq Entities
    BY DEF InventoryOK
<1>4. DOMAIN new = InventoryFields /\ new.rows = p.rows \ q.rows /\ new.kept = p.kept \ q.rows
    BY <1>2, <1>3, SMT DEF InventoryFields
<1>5. InventoryOK(new)
    BY <1>3, <1>4 DEF InventoryOK
<1> QED
    BY <1>1, <1>5

\* Removing the rows of a deletion keeps the invariant; what it leaves without
\* an export it leaves astray.
LEMMA RemoveRowsKeeps ==
    ASSUME ArchiveInv, NEW i \in Requests, RemoveRows(i)
    PROVE ArchiveInv'
<1>1. StoreInv /\ PlanInv /\ JobInv /\ owner \in Owners \cup {None}
    BY DEF ArchiveInv
<1>2. /\ RowsInv(db, Imported) /\ LinksInv(db) /\ VersionsInv(db, stranded)
      /\ HistoriesInv(db, reread, lost, stranded) /\ FactsInv(w, db, Exports)
      /\ upload \in [ExportIds -> Uploads \cup {None}] /\ parser \in [ExportIds -> Parsers \cup {0}]
      /\ received \in 0..MaxExports /\ stranded \in SUBSET Conversations
    BY <1>1 DEF StoreInv
<1>3. PICK p : p = plan[i]
    OBVIOUS
<1>4. p.kept \subseteq Entities
    BY <1>1, <1>3 DEF PlanInv, RemoveRows, InventoryOK
<1>5. p.tenant => Exports \subseteq p.exports
    BY <1>3 DEF RemoveRows, RemovalRefused
<1>6. PICK scoped : scoped = Scoped(db, p)
    OBVIOUS
<1>7. /\ \A e \in ExportIds : upload'[e] = IF e \in p.exports THEN None ELSE upload[e]
      /\ \A e \in ExportIds : parser'[e] = IF e \in p.exports THEN 0 ELSE parser[e]
      /\ upload' = [e \in ExportIds |-> upload'[e]] /\ parser' = [e \in ExportIds |-> parser'[e]]
    BY <1>3 DEF RemoveRows
<1>8. upload' \in [ExportIds -> Uploads \cup {None}] /\ parser' \in [ExportIds -> Parsers \cup {0}]
    BY <1>2, <1>7
<1>9. Exports' = Exports \ p.exports /\ Imported' = Imported \ p.exports
    BY <1>7 DEF Exports, Imported
<1>10. db' = LeftRows(db, p) /\ stranded' = Astray(db', stranded)
    BY <1>3 DEF RemoveRows, LeftRows, Scoped, Astray
<1>11. /\ DOMAIN db' = Entities /\ RowsInv(db', Imported') /\ LinksInv(db') /\ VersionsInv(db', stranded')
       /\ \A x \in Entities \ p.rows : db[x].row # None => db'[x].row # None
       /\ \A x \in Conversations \ stranded' :
             HistoryInv(db'[x], IF x \in p.rows \cup Rewritten(scoped) THEN {} ELSE reread[x],
                        lost[x] \cup Taken(x, db[x], p))
  <2>1. LET left == LeftRows(db, p)
        IN /\ DOMAIN left = Entities /\ RowsInv(left, Imported \ p.exports) /\ LinksInv(left)
           /\ VersionsInv(left, Astray(left, stranded))
           /\ \A x \in Entities \ p.rows : db[x].row # None => left[x].row # None
           /\ \A x \in Conversations \ Astray(left, stranded) :
                 HistoryInv(left[x], IF x \in p.rows \cup Rewritten(Scoped(db, p)) THEN {} ELSE reread[x],
                            lost[x] \cup Taken(x, db[x], p))
      BY <1>2, RemovalKeeps
  <2> QED
      BY <1>6, <1>9, <1>10, <2>1
<1>12. HistoriesInv(db', reread', lost', stranded')
  <2>1. ASSUME NEW x \in Conversations
        PROVE /\ reread'[x] = IF x \in p.rows \cup Rewritten(scoped) THEN {} ELSE reread[x]
              /\ lost'[x] = lost[x] \cup Taken(x, db[x], p)
      BY <1>3, <1>6 DEF RemoveRows, Entities, Scoped
  <2> QED
      BY <1>11, <2>1 DEF HistoriesInv
<1>13. FactsInv(w', db', Exports')
  <2>1. PICK retracted, survivors : /\ retracted = RetractedFacts(w, p.rows, p.exports, p.tenant)
                                    /\ survivors = Survivors(w, p.kept, p.exports)
      OBVIOUS
  <2>2. w' = Reannounce(retracted, db', survivors, i)
      BY <1>3, <2>1 DEF RemoveRows, RetractedFacts
  <2>3. Exports \in SUBSET ExportIds /\ Exports' \in SUBSET ExportIds
      BY <1>9 DEF Exports
  <2>4. FactsInv(retracted, db', Exports \ p.exports)
      BY <1>2, <1>5, <1>11, <2>1, <2>3, RetractKeeps
  <2>5. survivors \in SUBSET Entities
      BY <1>4, <2>1 DEF Survivors
  <2>6. \A x \in Entities : RecordOK(db'[x])
      BY <1>11 DEF RowsInv, RecordInv
  <2>7. FactsInv(retracted, db', Exports')
      BY <1>9, <2>4
  <2>8. FactsInv(Reannounce(retracted, db', survivors, i), db', Exports')
      BY <2>3, <2>5, <2>6, <2>7, ReannounceKeeps
  <2> QED
      BY <2>2, <2>8
<1>14. received' = received /\ job' = job /\ owner' = owner
    BY DEF RemoveRows
<1>15. stranded' \subseteq {x \in Conversations : db'[x].row # None}
    BY <1>10 DEF Astray
<1>16. StoreInv'
    BY <1>2, <1>8, <1>11, <1>12, <1>13, <1>14, <1>15 DEF StoreInv
<1>17. PlanInv'
  <2>1. PICK rewritten : plan' = PlansAfter(i, rewritten)
      BY DEF RemoveRows
  <2>2. DOMAIN plan' = Requests
      BY <2>1 DEF PlansAfter
  <2>3. RowsGone.status = "purging" /\ "purging" # "planned"
      BY SMT DEF RowsGone
  <2>4. ASSUME NEW j \in Requests, plan'[j] # None, plan'[j].status = "planned"
        PROVE InventoryOK(plan'[j])
    <3>1. plan'[j] = IF j = i THEN RowsGone
                     ELSE IF plan[i].tenant THEN None
                     ELSE IF Planned(j) THEN Outdated(plan[j], plan[i], rewritten) ELSE plan[j]
        BY <2>1 DEF PlansAfter
    <3>2. j # i /\ ~plan[i].tenant
        BY <2>3, <2>4, <3>1
    <3>3. CASE Planned(j)
      <4>1. InventoryOK(plan[j])
          BY <1>1, <3>3 DEF PlanInv
      <4> QED
          BY <3>1, <3>2, <3>3, <4>1, OutdatedKeeps
    <3>4. CASE ~Planned(j)
        BY <2>4, <3>1, <3>2, <3>4 DEF Planned
    <3> QED
        BY <3>3, <3>4
  <2> QED
      BY <2>2, <2>4 DEF PlanInv, Planned
<1> QED
    BY <1>1, <1>14, <1>16, <1>17 DEF ArchiveInv, JobInv

\* A change of the owner mapping and the end of a deletion write no table.
LEMMA OtherStepsKeep ==
    ASSUME ArchiveInv, (\E u \in Owners \cup {None} : Remap(u)) \/ (\E i \in Requests : Complete(i))
    PROVE ArchiveInv'
<1>1. StoreInv /\ PlanInv /\ JobInv /\ owner \in Owners \cup {None}
    BY DEF ArchiveInv
<1>2. UNCHANGED stored /\ job' = job /\ owner' \in Owners \cup {None}
    BY <1>1 DEF Remap, Complete, stored, deleting
<1>3. DOMAIN plan' = Requests /\ \A j \in Requests : plan'[j] = plan[j] \/ plan'[j] = None
    BY <1>1 DEF Remap, Complete, deleting, PlanInv
<1>4. StoreInv' /\ JobInv' /\ PlanInv'
    BY <1>1, <1>2, <1>3, StoreUnchanged DEF JobInv, PlanInv, Planned
<1> QED
    BY <1>2, <1>4 DEF ArchiveInv

\* Every step keeps the invariant.
LEMMA StepKeepsArchive == ArchiveInv /\ [Next]_vars => ArchiveInv'
<1> SUFFICES ASSUME ArchiveInv, [Next]_vars
             PROVE ArchiveInv'
    OBVIOUS
<1>1. CASE UNCHANGED vars
  <2>1. UNCHANGED stored /\ UNCHANGED <<owner, job, plan>>
      BY <1>1 DEF vars, stored
  <2>2. StoreInv'
      BY <2>1, StoreUnchanged DEF ArchiveInv
  <2> QED
      BY <2>1, <2>2 DEF ArchiveInv, JobInv, PlanInv, Planned
<1>2. ASSUME NEW u \in Uploads, Receive(u)
      PROVE ArchiveInv'
    BY <1>2, ReceiveKeeps
<1>3. ASSUME NEW e \in ExportIds, NEW p \in Importers, Import(e, p)
      PROVE ArchiveInv'
    BY <1>3, ImportKeeps
<1>4. CASE CommitReparse
    BY <1>4, CommitReparseKeeps
<1>5. CASE (\E e \in ExportIds, p \in Parsers : PlanReparse(e, p)) \/ CheckReparse \/ AbandonReparse
    BY <1>5, ReparseStepsKeep
<1>6. CASE (\E e \in ExportIds : PlanArchive(e)) \/ (\E x \in Conversations : PlanConversation(x)) \/ PlanTenant
    BY <1>6, PlanDeletionKeeps DEF PlanArchive, PlanConversation, PlanTenant
<1>7. CASE \E i \in Requests : RemoveRows(i)
    BY <1>7, RemoveRowsKeeps
<1>8. CASE (\E u \in Owners \cup {None} : Remap(u)) \/ (\E i \in Requests : Complete(i))
    BY <1>8, OtherStepsKeep
<1> QED
    BY <1>1, <1>2, <1>3, <1>4, <1>5, <1>6, <1>7, <1>8 DEF Next

\* Archive keeps its invariant.
LEMMA ArchiveKeepsInv == Spec => []ArchiveInv
    BY InitArchive, StepKeepsArchive, PTL DEF Spec

\* Every row, ledger entry, fact and job has the shape the schema gives it.
THEOREM ArchiveTypes == Spec => []TypeOK
<1>1. ArchiveInv => TypeOK
  <2> SUFFICES ASSUME ArchiveInv
               PROVE TypeOK
      OBVIOUS
  <2>1. \A x \in Entities : RecordOK(db[x])
      BY DEF ArchiveInv, StoreInv, RowsInv, RecordInv
  <2>2. FactsOK
    <3>1. FactsInv(w, db, Exports) /\ Exports \subseteq ExportIds
        BY DEF ArchiveInv, StoreInv, Exports
    <3>2. \A x \in Entities : w.facts[x] \in SUBSET UNION {w.facts[y] : y \in Entities}
        OBVIOUS
    <3>3. w.facts = [x \in Entities |-> w.facts[x]]
        BY <3>1 DEF FactsInv
    <3>4. w.facts \in [Entities -> SUBSET UNION {w.facts[y] : y \in Entities}]
        BY <3>2, <3>3
    <3> QED
        BY <3>1, <3>4 DEF FactsInv, FactsOK
  <2> QED
      BY <2>1, <2>2 DEF ArchiveInv, StoreInv, JobInv, PlanInv, InventoryOK, TypeOK
<1> QED
    BY <1>1, ArchiveKeepsInv, PTL

\* A row that some export observes shows a version that an export presents,
\* exactly the versions presented have a snapshot, and a conversation reads as
\* its version, through imports, reparses and deletions in any order, unless
\* deletions that were planned together left it without an export.
THEOREM RowsAlwaysShowEvidence == Spec => []RowsShowEvidence
<1>1. ArchiveInv => RowsShowEvidence
  <2> SUFFICES ASSUME ArchiveInv, NEW x \in Entities \ stranded, db[x].row # None, Versions(db[x]) # {}
               PROVE /\ Named(db[x], db[x].row.digest)
                     /\ {k.digest : k \in db[x].kept} = Versions(db[x])
                     /\ x \in Conversations /\ lost[x] = {} => ReadsAs(db[x], Body[db[x].row.digest])
      BY DEF RowsShowEvidence
  <2>1. KeptInv(x, db[x])
      BY DEF ArchiveInv, StoreInv, VersionsInv
  <2>2. Observers(db[x]) # {}
      BY DEF Versions, Observers
  <2>3. x \in Conversations => HistoryInv(db[x], reread[x], lost[x])
      BY DEF ArchiveInv, StoreInv, HistoriesInv
  <2> QED
      BY <2>1, <2>2, <2>3 DEF KeptInv, HistoryInv
<1> QED
    BY <1>1, ArchiveKeepsInv, PTL

\* Every message that a remaining export presents is there and known to be its
\* own, unless a stale plan took it, and a message has no parts but those that
\* a remaining export presented or a reparse replaced; again, unless deletions
\* left the conversation without an export.
THEOREM MessagesAlwaysFollow == Spec => []MessagesFollowTheirEvidence
<1>1. ArchiveInv => MessagesFollowTheirEvidence
    BY DEF ArchiveInv, StoreInv, HistoriesInv, HistoryInv, MessagesFollowTheirEvidence
<1> QED
    BY <1>1, ArchiveKeepsInv, PTL

\* Every reference of a row, a fact or the ledger leads to an export that
\* exists, and every project of a row is a row.
THEOREM ReferencesStayLive == Spec => []ReferencesAreLive
<1>1. ArchiveInv => ReferencesAreLive
  <2> SUFFICES ASSUME ArchiveInv
               PROVE ReferencesAreLive
      OBVIOUS
  <2>1. Imported \subseteq Exports
      BY DEF Imported
  <2>2. ASSUME NEW x \in Entities
        PROVE /\ Observers(db[x]) \subseteq Exports
              /\ db[x].row # None => NamesObservers(db[x].row, Observers(db[x]))
              /\ \A m \in Present(db[x]) : db[x].messages[m].heard \subseteq Exports
              /\ \A v \in db[x].revisions : v.export \in Exports
    <3>1. RecordInv(db[x], Imported)
        BY DEF ArchiveInv, StoreInv, RowsInv
    <3> QED
        BY <2>1, <3>1 DEF RecordInv, RowReferences
  <2>3. LinksInv(db) /\ FactsInv(w, db, Exports)
      BY DEF ArchiveInv, StoreInv
  <2> QED
      BY <2>2, <2>3 DEF ReferencesAreLive, NamesObservers, LinksInv, FactsInv
<1> QED
    BY <1>1, ArchiveKeepsInv, PTL

\* Knowledge holds nothing about a removed record and nothing under a removed
\* archive, whoever the account was mapped to when it was announced.
THEOREM DeletedIsForgotten == Spec => []KnowledgeForgetsTheDeleted
<1>1. ArchiveInv => KnowledgeForgetsTheDeleted
    BY DEF ArchiveInv, StoreInv, FactsInv, KnowledgeForgetsTheDeleted
<1> QED
    BY <1>1, ArchiveKeepsInv, PTL

\* The parents that a fact gives are messages it carries, and a message of a
\* fresh fact has none only when every ancestor that the fact carries lies above
\* one that has no name in the contract.
THEOREM FactsStayWhole == Spec => []FactsAreWhole
<1>1. ArchiveInv => FactsAreWhole
  <2> SUFFICES ASSUME ArchiveInv, NEW x \in Entities, NEW f \in w.facts[x], NEW m \in DOMAIN f.digest.messages
               PROVE LET told == f.digest.messages
                         up == Ancestor(db[x], m)
                     IN /\ told[m].parent \in DOMAIN told \cup {None}
                        /\ f = LatestFact(w, x) /\ told = View(db[x])
                              => (told[m].parent = None <=>
                                    \A k \in 1..Cardinality(Messages) : up[k] \in Represented(db[x]) \ {m} =>
                                       \E j \in 1..(k - 1) : up[j] \in Present(db[x]) \cap Unnamed)
      BY DEF FactsAreWhole
  <2>1. Whole(f.digest.messages)
      BY DEF ArchiveInv, StoreInv, FactsInv
  <2>2. RecordOK(db[x])
      BY DEF ArchiveInv, StoreInv, RowsInv, RecordInv
  <2>3. ASSUME f.digest.messages = View(db[x])
        PROVE m \in Represented(db[x]) /\ f.digest.messages[m].parent = RepresentedParent(db[x], m)
    <3>1. m \in Represented(db[x])
        BY <2>3 DEF View
    <3>2. View(db[x])[m].parent = RepresentedParent(db[x], m)
        BY <3>1 DEF View
    <3> QED
        BY <2>3, <3>1, <3>2
  <2> QED
      BY <2>1, <2>2, <2>3, ParentIsRepresented DEF Whole
<1> QED
    BY <1>1, ArchiveKeepsInv, PTL
=============================================================================
