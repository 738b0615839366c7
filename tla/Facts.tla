-------------------------------- MODULE Facts --------------------------------
(***************************************************************************)
(* The ai_archive facts: what an import or an applied reparse announces,   *)
(* what a deletion retracts and what it announces again.                   *)
(*                                                                         *)
(* The operators work on a record w: the fact rows of the outbox, numbered *)
(* in id order for each subject, the ledger with the owners each subject   *)
(* was announced under, in order of announcement, and what Knowledge       *)
(* holds.  Delivery is the Outbox module's subject: here Knowledge, which  *)
(* is external, has applied every event in the order of their timestamps.  *)
(* Exports and archives correspond one to one, so an archive is named by   *)
(* its export, and every fact row is bound to the export whose archive its *)
(* provenance names.                                                       *)
(***************************************************************************)
EXTENDS EntityVersions

CONSTANTS
    Owners,  \* Platform users
    Hidden,  \* messages with a role the contract cannot represent or without an id
    Unnamed, \* other messages, whose provider id EntityLocalId refuses
    Large    \* payloads and digests that make an envelope exceed max_event_bytes

ASSUME FactsConstants == Owners # {} /\ None \notin Owners /\ Hidden \cap Unnamed = {}

Subjects == Entities \cup ExportIds

NoFacts == [facts |-> [x \in Entities |-> {}], ledger |-> [s \in Subjects |-> <<>>],
            known |-> [u \in Owners |-> [x \in Entities |-> None]],
            omitted |-> [e \in ExportIds |-> {}]]

-----------------------------------------------------------------------------
\* message_parts: the parts of the latest revision.
LatestParts(r, m) == IF r.messages[m].parts = <<>> THEN NoParts ELSE Final(r.messages[m].parts)

\* message_rows: the k-th ancestor of a message, None above the root.
Ancestor(r, m) ==
    LET up[k \in 0..Cardinality(Messages)] ==
          IF k = 0 THEN m
          ELSE IF up[k - 1] \in Present(r) THEN r.messages[up[k - 1]].parent ELSE None
    IN up

\* Mutant: the parent is taken as it is stored.
StoredParent(r, m) == r.messages[m].parent

\* The messages a fact carries.
Represented(r) == Present(r) \ (Hidden \cup Unnamed)

\* nearest_represented_parent: the walk passes over the hidden messages, and
\* ends at a message it has seen and at one it cannot name.
RepresentedParent(r, m) ==
    LET up == Ancestor(r, m)
        stops == {k \in DOMAIN up \ {0} : /\ up[k] \in Present(r) \ Hidden
                                          /\ \A j \in 0..(k - 1) : up[j] # up[k]}
        first == CHOOSE k \in stops : \A j \in stops : k <= j
    IN IF stops = {} \/ up[first] \in Unnamed THEN None ELSE up[first]

\* conversation_messages: every represented message of the conversation with
\* its latest parts, whichever export presented it; a project has none.
View(r) ==
    [m \in Represented(r) |-> [parent |-> RepresentedParent(r, m), payload |-> LatestParts(r, m)]]

\* project_fact: a project's digest covers its text and its stamp.
ProjectFact(r) == [text |-> r.row.digest, messages |-> <<>>, stamp |-> r.row.stamp]

\* conversation_fact: a conversation's covers its messages, which carry the
\* stamp of the row.
ConversationFact(r) ==
    LET view == View(r)
    IN [text |-> None, messages |-> view, stamp |-> IF view = <<>> THEN None ELSE r.row.stamp]

FactDigest(x, r) == IF x \in Projects THEN ProjectFact(r) ELSE ConversationFact(r)

\* serialized_len against max_event_bytes, for a project its text, for a
\* conversation its messages.  The head is bounded: names, digests and counts.
TooLarge(x, r) ==
    IF x \in Projects THEN r.row.digest \in Large
    ELSE \E m \in Represented(r) : LatestParts(r, m) \in Large

\* last_emitted_digest, and the archive of that fact: the newest row of the
\* aggregate whatever its owner.
Announced(w, x) == w.facts[x] # {}
LatestFact(w, x) == Newest(w.facts[x])

\* announced_subjects::record: a subject and owner are recorded once.
Record(owners, owner) == IF owner \in Range(owners) THEN owners ELSE Append(owners, owner)

\* read_announcements and owners_of: the owners of every tombstone subject.
ReadAnnouncements(w, subjects) == [s \in subjects |-> Range(w.ledger[s])]

\* owner_of_archive: the most recently recorded one.
OwnerOfArchive(w, e) == IF w.ledger[e] = <<>> THEN None ELSE Final(w.ledger[e])

Numbered(fact, rows) ==
    [number |-> NextNumber(rows), digest |-> fact.digest, archive |-> fact.archive,
     owner |-> fact.owner, key |-> fact.key]

\* enqueue_normalized_event for each fact of the queue, at most one for each
\* entity: their order does not show.  A deduplication key that is taken adds
\* nothing, not even to the ledger.
Enqueue(w, queue) ==
    LET new == {x \in DOMAIN queue : \A f \in w.facts[x] : f.key # queue[x].key}
    IN [w EXCEPT
          !.facts = [x \in Entities |-> IF x \in new THEN @[x] \cup {Numbered(queue[x], @[x])} ELSE @[x]],
          !.ledger = [s \in Subjects |-> IF s \in new THEN Record(@[s], queue[s].owner) ELSE @[s]],
          !.known = [u \in Owners |-> [x \in Entities |->
              IF x \in new /\ queue[x].owner = u
              THEN [digest |-> queue[x].digest, archive |-> queue[x].archive] ELSE @[u][x]]]]

\* An entity is added or updated.
Candidate(w, x, r, e, owner) ==
    LET digest == FactDigest(x, r)
        type == IF Announced(w, x) THEN "updated" ELSE "added"
    IN [digest |-> digest, archive |-> e, owner |-> owner, key |-> <<type, digest>>]

News(w, x, digest) == Announced(w, x) => LatestFact(w, x).digest # digest

\* project_candidates: the projects e observes, unless the last fact has their
\* digest.
ProjectCandidates(w, db, e) ==
    {x \in Projects : db[x].row # None /\ db[x].seen[e] # None /\ News(w, x, ProjectFact(db[x]))}

\* conversation_candidates
ConversationCandidates(w, db, e) ==
    {x \in Conversations : /\ db[x].row # None /\ db[x].seen[e] # None
                           /\ News(w, x, ConversationFact(db[x]))}

\* load_import and completeness_report: the head names the archive, its file
\* and counts.  It goes to the ledger; its outbox row carries no entity.
AnnounceHead(w, e, owner) == [w EXCEPT !.ledger[e] = Record(@, owner)]

\* project_import_facts: nothing without an owner; the head first, always or
\* with a changed entity; a fact over the limit is counted, not queued.
ProjectImportFacts(w, db, e, owner, always) ==
    LET changed == ProjectCandidates(w, db, e) \cup ConversationCandidates(w, db, e)
        headed == IF always \/ changed # {} THEN AnnounceHead(w, e, owner) ELSE w
        queue == [x \in {y \in changed : ~TooLarge(y, db[y])} |-> Candidate(w, x, db[x], e, owner)]
    IN IF owner = None THEN w
       ELSE [Enqueue(headed, queue) EXCEPT !.omitted[e] = {x \in changed : TooLarge(x, db[x])}]

-----------------------------------------------------------------------------
\* Mutant: a survivor is a record whose first fact names a deleted archive.
SurvivorsByFirstFact(w, kept, exports) ==
    {x \in kept : \E f \in w.facts[x] : f.archive \in exports /\ \A g \in w.facts[x] : f.number <= g.number}

\* find_survivors: the planned retain_evidenced records whose latest fact
\* names a deleted archive.
Survivors(w, kept, exports) ==
    {x \in kept : Announced(w, x) /\ LatestFact(w, x).archive \in exports}

\* drop_published_fact_rows and the export cascade.  A fact of a removed row
\* under another export, which an import queued after the plan, names an id
\* that no row has any more; the model forgets it.
DropFacts(w, exports, removed) ==
    [w EXCEPT !.facts = [x \in Entities |->
                  IF x \in removed THEN {} ELSE {f \in @[x] : f.archive \notin exports}],
              !.omitted = [e \in ExportIds |-> IF e \in exports THEN {} ELSE @[e]]]

\* What Knowledge drops for a tombstone: the subject, or everything it holds
\* under a tombstoned archive.
Retracted(held, x, subjects) == held # None /\ (x \in subjects \/ held.archive \in subjects)

\* Mutant: the tombstones go to one owner of the subject.
InsertTombstonesOnce(w, subjects, ledgers) ==
    [w EXCEPT !.known = [u \in Owners |-> [x \in Entities |->
                  LET mine == {s \in subjects : ledgers[s] # {} /\ u = CHOOSE o \in ledgers[s] : TRUE}
                  IN IF Retracted(@[u][x], x, mine) THEN None ELSE @[u][x]]],
              !.ledger = [s \in Subjects |-> IF s \in subjects THEN <<>> ELSE @[s]]]

\* insert_tombstones: one per subject and owner of the ledger as it was read
\* before the rows went; the ledger rows of the subject go with it.
InsertTombstones(w, subjects, ledgers) ==
    [w EXCEPT !.known = [u \in Owners |-> [x \in Entities |->
                  IF Retracted(@[u][x], x, {s \in subjects : u \in ledgers[s]}) THEN None ELSE @[u][x]]],
              !.ledger = [s \in Subjects |-> IF s \in subjects THEN <<>> ELSE @[s]]]

\* earliest_retained: an export that presented what the row holds, if any.
EarliestRetained(r) ==
    LET current == {e \in Observers(r) : r.seen[e] = r.row.digest}
        candidates == IF current # {} THEN current ELSE Observers(r)
    IN IF candidates = {} THEN None ELSE CHOOSE e \in candidates : \A f \in candidates : e <= f

\* RetainedImport::load and base: the archive and owner a repair fact is
\* announced with, None when the archive was never announced.
RetainedImport(w, e) ==
    IF e = None \/ OwnerOfArchive(w, e) = None THEN None
    ELSE [archive |-> e, owner |-> OwnerOfArchive(w, e)]

\* enqueue of reannounce: one fact per record and request.  No size limit
\* applies.
Repair(x, r, import, request) ==
    [digest |-> FactDigest(x, r), archive |-> import.archive, owner |-> import.owner,
     key |-> <<"reannounce", request>>]

\* reannounce: a record without a retained import is skipped.
Reannounce(w, db, survivors, request) ==
    LET import(x) == RetainedImport(w, EarliestRetained(db[x]))
    IN Enqueue(w, [x \in {y \in survivors : db[y].row # None /\ import(y) # None} |->
                      Repair(x, db[x], import(x), request)])
=============================================================================
