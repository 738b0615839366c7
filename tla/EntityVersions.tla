---------------------------- MODULE EntityVersions ----------------------------
(***************************************************************************)
(* The projects and conversations that cumulative exports share.           *)
(*                                                                         *)
(* All exports of an account that contain a project or conversation share  *)
(* one row.  A record holds, for one such entity: the row, which content   *)
(* each export presented (export_entity_observations), one snapshot per    *)
(* distinct content (entity_versions), and for a conversation its messages *)
(* with their content parts, an append-only history, and its revisions.    *)
(* The operators take a record and return it as the code leaves it.        *)
(*                                                                         *)
(* Content is named by its digest; Body gives what the digest stands for.  *)
(* Exports are numbered in the order of their receipt.  Rows that are read *)
(* newest first carry a number.                                            *)
(***************************************************************************)
EXTENDS Naturals, Sequences, FiniteSetsExt, Functions

CONSTANTS
    MaxExports,     \* number of uploads
    Conversations,  \* provider ids of conversations
    Projects,       \* provider ids of projects
    Messages,       \* provider ids of messages
    Body,           \* Body[d][m]: parent and payload of message m in content d
    NoParts,        \* the payload of a message without content parts
    None            \* an absent row or value

ExportIds == 1..MaxExports
Entities == Conversations \cup Projects

\* The identifiers of exports, entities, messages and contents are of
\* different kinds, and an absent value is none of them.
ASSUME VersionConstants ==
    /\ MaxExports \in Nat
    /\ Conversations \cap Projects = {}
    /\ Entities \cap ExportIds = {}
    /\ None \notin Entities \cup Messages /\ None \notin ExportIds /\ None \notin DOMAIN Body
    /\ IsFiniteSet(Messages) /\ Cardinality(Messages) \in Nat
    /\ \A d \in DOMAIN Body : /\ DOMAIN Body[d] \subseteq Messages
                             /\ \A m \in DOMAIN Body[d] : Body[d][m].parent \in Messages \cup {None}

NoMessages == [m \in Messages |-> None]

Empty == [row |-> None, seen |-> [e \in ExportIds |-> None], kept |-> {},
          messages |-> NoMessages, revisions |-> {}]

Present(r) == {m \in Messages : r.messages[m] # None}
Observers(r) == {e \in ExportIds : r.seen[e] # None}
Named(r, d) == \E e \in ExportIds : r.seen[e] = d
Coalesce(old, new) == IF old = None THEN new ELSE old

Newest(rows) == CHOOSE v \in rows : \A u \in rows : u.number <= v.number
NextNumber(rows) == IF rows = {} THEN 1 ELSE Newest(rows).number + 1

\* The last element of a sequence, if it has one.
Final(s) == s[Len(s)]

\* observe: a version no export presents any more goes.
Observe(r, e, d) ==
    LET s == [r EXCEPT !.seen[e] = d]
    IN [s EXCEPT !.kept = {k \in @ : k.digest = d \/ Named(s, k.digest)}]

\* keep_snapshot: the first snapshot of a digest stays.
KeepSnapshot(r, d, stamp, project) ==
    IF \E k \in r.kept : k.digest = d THEN r
    ELSE [r EXCEPT !.kept = @ \cup {[digest |-> d, stamp |-> stamp, project |-> project]}]

Revision(r, e, d) == [number |-> NextNumber(r.revisions), digest |-> d, export |-> e]

\* Mutant: only the first content makes a revision.
AppendRevisionFirst(r, e, d) ==
    IF r.revisions # {} THEN r ELSE [r EXCEPT !.revisions = @ \cup {Revision(r, e, d)}]

\* append_revision: only a digest that is not the latest one.
AppendRevision(r, e, d) ==
    IF r.revisions # {} /\ Newest(r.revisions).digest = d THEN r
    ELSE [r EXCEPT !.revisions = @ \cup {Revision(r, e, d)}]

-----------------------------------------------------------------------------
\* persist_projects: the stamp moves only when the content changed.
PersistProject(r, e, parser, d) ==
    LET same == r.row # None /\ r.row.digest = d
        stamp == IF same THEN r.row.stamp ELSE parser
        first == IF r.row = None THEN e ELSE Coalesce(r.row.first, e)
        row == [digest |-> d, stamp |-> stamp, project |-> None, first |-> first, last |-> e]
    IN KeepSnapshot(Observe([r EXCEPT !.row = row], e, d), d, stamp, None)

\* Mutant: parts that were seen before are not written again.
AddPartsOnce(parts, payload) ==
    IF payload = NoParts \/ payload \in Range(parts) THEN parts ELSE Append(parts, payload)

\* persist_parts: a revision is added when the parts differ from the latest.
\* A message that lost its parts adds no row, so its latest parts stay.
AddParts(parts, payload) ==
    IF payload = NoParts \/ (parts # <<>> /\ Final(parts) = payload) THEN parts
    ELSE Append(parts, payload)

\* persist_message, persist_parts and the parent link, which is set only when
\* the parent is in the same content.
PersistMessage(old, e, d, m) ==
    LET new == Body[d][m]
        was == IF old = None THEN [parent |-> None, parts |-> <<>>, heard |-> {}] ELSE old
    IN [parent |-> IF new.parent \in DOMAIN Body[d] THEN new.parent ELSE was.parent,
        parts |-> AddParts(was.parts, new.payload),
        heard |-> was.heard \cup {e}]

\* persist_conversation_detail: messages the content lacks stay as they are.
PersistDetail(r, e, parser, d, project) ==
    [r EXCEPT !.row.project = Coalesce(project, @),
              !.row.first = Coalesce(@, e),
              !.row.last = e,
              !.row.stamp = parser,
              !.messages = [m \in Messages |->
                  IF m \in DOMAIN Body[d] THEN PersistMessage(@[m], e, d, m) ELSE @[m]]]

\* Mutant: content read again unchanged leaves its messages unobserved.
ReadAgainSilently(r, e, d) ==
    [r EXCEPT !.row.first = Coalesce(@, e), !.row.last = e]

HeardAgain(message, e) == [message EXCEPT !.heard = @ \cup {e}]

\* The content is read again unchanged: the export saw it and its messages.
ReadAgain(r, e, d) ==
    [r EXCEPT !.row.first = Coalesce(@, e),
              !.row.last = e,
              !.messages = [m \in Messages |->
                  IF m \in DOMAIN Body[d] /\ @[m] # None THEN HeardAgain(@[m], e) ELSE @[m]]]

\* Mutant: the row does not name its content.
KeepVersionUnnamed(r, d, parser, project) == KeepSnapshot(r, d, parser, project)

\* keep_conversation_version, with the row that names the content.
KeepVersion(r, d, parser, project) ==
    [KeepSnapshot(r, d, parser, project) EXCEPT !.row.digest = d]

\* One conversation of persist_projection.
PersistConversation(r, e, parser, d, project) ==
    LET row == [digest |-> None, stamp |-> None, project |-> None, first |-> None, last |-> None]
        s == Observe([r EXCEPT !.row = Coalesce(@, row)], e, d)
    IN IF s.row.digest = d THEN ReadAgain(s, e, d)
       ELSE PersistDetail(KeepVersion(AppendRevision(s, e, d), d, parser, project),
                          e, parser, d, project)

\* persist_projection: the projects first, then every conversation.  What the
\* parse lacks is left alone.
PersistProjection(db, e, parser, parsed) ==
    [x \in Entities |->
        IF parsed[x] = None THEN db[x]
        ELSE IF x \in Projects THEN PersistProject(db[x], e, parser, parsed[x].digest)
        ELSE PersistConversation(db[x], e, parser, parsed[x].digest, parsed[x].project)]

-----------------------------------------------------------------------------
(***************************************************************************)
(* restore_retained_versions, after a deletion has taken its rows and the  *)
(* observations of its exports.                                            *)
(***************************************************************************)

\* A record is stale when it keeps a version no retained export names.
Stale(r) == r.row # None /\ \E k \in r.kept : ~Named(r, k.digest)

SnapshotOf(r, d) == CHOOSE k \in r.kept : k.digest = d

\* retained_versions: the exports whose content has a snapshot.
Held(r) == {e \in Observers(r) : \E k \in r.kept : k.digest = r.seen[e]}

\* restore_project: the newest retained version.
RestoreProject(r) ==
    LET k == SnapshotOf(r, r.seen[Max(Held(r))])
    IN [r EXCEPT !.row.digest = k.digest, !.row.stamp = k.stamp]

\* The held version of export e equals the one held before it.
Repeats(r, e) ==
    \E f \in Held(r) : f < e /\ r.seen[f] = r.seen[e] /\ \A g \in Held(r) : g <= f \/ g >= e

\* One step of the replay of r into s; a version equal to the previous one is
\* skipped.
Replay(s, r, e, projects) ==
    LET k == SnapshotOf(r, r.seen[e])
    IN IF e \notin Held(r) \/ Repeats(r, e) THEN s
       ELSE PersistDetail(s, e, k.stamp, k.digest,
                          IF k.project \in projects THEN k.project ELSE None)

Cleared(r) ==
    [r EXCEPT !.row.project = None,
              !.messages = [m \in Messages |->
                  IF @[m] = None THEN None ELSE [@[m] EXCEPT !.parts = <<>>]]]

\* The record after the versions of the exports up to each one, oldest first.
Replayed(r, projects) ==
    LET after[e \in 0..MaxExports] ==
            IF e = 0 THEN Cleared(r) ELSE Replay(after[e - 1], r, e, projects)
    IN after

\* restore_conversation: the history is written again from the retained
\* versions, and the row ends as the newest one left it.
RestoreConversation(r, projects) ==
    LET newest == Max(Held(r))
    IN AppendRevision([Replayed(r, projects)[MaxExports] EXCEPT !.row.digest = r.seen[newest]],
                      newest, r.seen[newest])

Restored(x, r, projects) ==
    IF x \in Projects THEN RestoreProject(r) ELSE RestoreConversation(r, projects)

\* A stale record some retained export holds is rebuilt; then the versions
\* nobody names go.
Restore(x, r, projects) ==
    IF r.row = None THEN [r EXCEPT !.kept = {}]
    ELSE IF ~Stale(r) THEN r
    ELSE LET s == IF Held(r) # {} THEN Restored(x, r, projects) ELSE r
         IN [s EXCEPT !.kept = {k \in @ : Named(s, k.digest)}]

\* A rebuilt conversation may only belong to a project the deletion left.
RestoreRetainedVersions(db) ==
    LET projects == {p \in Projects : db[p].row # None}
    IN [x \in Entities |-> Restore(x, db[x], projects)]
=============================================================================
