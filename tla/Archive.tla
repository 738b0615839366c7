------------------------------- MODULE Archive -------------------------------
(***************************************************************************)
(* One account's archive over its whole life: imports and reparses of      *)
(* cumulative exports write the shared rows of EntityVersions and announce *)
(* Facts; a privacy deletion is planned in one transaction, removes its    *)
(* rows in another, and is completed later.  Nothing keeps several         *)
(* deletions from being planned before the first is executed.              *)
(*                                                                         *)
(* Every transaction holds the tenant lock, so it is one action.  What is  *)
(* read outside the lock is a step of its own: the two halves of a         *)
(* reparse apply, and the plan of a deletion against its execution.  The   *)
(* bytes are BlobProtocol's subject, receipt and reports ImportPipeline's, *)
(* delivery Outbox's.                                                      *)
(***************************************************************************)
EXTENDS Facts

CONSTANTS
    Uploads,      \* distinct ZIP files
    Parsers,      \* parser versions, a set of positive numbers
    Importers,    \* the versions a deployment imports with
    Reading,      \* Reading[u][p][x]: digest and project of x as p reads u, or None
    MaxDeletions, \* bound on deletion requests
    MaxInputs     \* bound on receipts, owner changes, reparses and deletions together

VARIABLES
    received,   \* number of exports received so far
    account,    \* there is an accounts row
    upload,     \* upload[e]: the file of export e, None before receipt and after deletion
    parser,     \* parser[e]: version that last read e, 0 before its import
    db,         \* the shared rows, one record per entity
    w,          \* facts, ledger and Knowledge
    owner,      \* Platform user the account is mapped to, or None
    inputs,     \* number of receipts, owner changes, reparses and deletions
    job,        \* the reparse in progress, or None
    ran,        \* reparse_runs: execution identities
    plan,       \* plan[i]: deletion request i while it is not completed, or None
    deletions,  \* number of requests so far
    reread,     \* history: versions a reparse replaced, per entity
    lost,       \* history: exports whose evidence of an entity a deletion took
    stranded    \* history: conversations a deletion left without an export

vars == <<received, account, upload, parser, db, w, owner, inputs, job, ran, plan, deletions,
          reread, lost, stranded>>

deleting == <<plan, deletions, reread, lost, stranded>>

Requests == 1..MaxDeletions

Exports == {e \in ExportIds : upload[e] # None}
Imported == {e \in Exports : parser[e] # 0}

\* What a parser finds of each entity.  A conversation only belongs to a
\* project of the same parse (project_of_conversation).
Readings ==
    {f \in [Entities -> {None} \cup [digest : DOMAIN Body, project : Projects \cup {None}]] :
        \A x \in Conversations : f[x] # None /\ f[x].project # None => f[f[x].project] # None}

ASSUME ArchiveConstants ==
    /\ Parsers \subseteq Nat \ {0} /\ Importers \subseteq Parsers
    /\ None \notin Uploads /\ MaxDeletions \in Nat
    /\ \A u \in Uploads, p \in Parsers : Reading[u][p] \in Readings

Init ==
    /\ received = 0 /\ account = FALSE
    /\ upload = [e \in ExportIds |-> None]
    /\ parser = [e \in ExportIds |-> 0]
    /\ db = [x \in Entities |-> Empty]
    /\ w = NoFacts
    /\ owner \in Owners \cup {None}
    /\ inputs = 0
    /\ job = None
    /\ ran = {}
    /\ plan = [i \in Requests |-> None]
    /\ deletions = 0
    /\ reread = [x \in Entities |-> {}]
    /\ lost = [x \in Entities |-> {}]
    /\ stranded = {}

Input == inputs < MaxInputs /\ inputs' = inputs + 1

\* A receipt of a file the account does not hold, which makes the account when
\* there is none; the same file again finds its export.
Receive(u) ==
    /\ received < MaxExports /\ Input
    /\ \A e \in Exports : upload[e] # u
    /\ received' = received + 1 /\ account' = TRUE
    /\ upload' = [upload EXCEPT ![received + 1] = u]
    /\ UNCHANGED <<parser, db, w, owner, job, ran, deleting>>

\* persist_initial_plan with project_and_report.  A pending deletion does not
\* hold it back.
Import(e, p) ==
    /\ e \in Exports \ Imported
    /\ parser' = [parser EXCEPT ![e] = p]
    /\ db' = PersistProjection(db, e, p, Reading[upload[e]][p])
    /\ w' = ProjectImportFacts(w, db', e, owner, TRUE)
    /\ UNCHANGED <<received, account, upload, owner, inputs, job, ran, deleting>>

\* The operator restarts the service with another platform_accounts list.
Remap(u) ==
    /\ Input
    /\ u # owner
    /\ owner' = u
    /\ UNCHANGED <<received, account, upload, parser, db, w, job, ran, deleting>>

-----------------------------------------------------------------------------
\* current_projection: the conversation versions e itself presented.
Projection(e) == [x \in Conversations |-> db[x].seen[e]]

Identity(j) == <<j.export, j.target, j.input>>

\* A deletion of the account that is not completed.
Deleting == \E i \in Requests : plan[i] # None

\* ReparseService::plan: only towards a newer parser, never beside a deletion.
PlanReparse(e, p) ==
    /\ Input
    /\ job = None
    /\ ~Deleting
    /\ e \in Imported
    /\ p > parser[e]
    /\ job' = [stage |-> "planned", export |-> e, target |-> p, input |-> Projection(e),
               parsed |-> Reading[upload[e]][p], owner |-> owner]
    /\ UNCHANGED <<received, account, upload, parser, db, w, owner, ran, deleting>>

\* The checks of apply before its transaction.
MayApply(j) ==
    /\ ~Deleting
    /\ Identity(j) \notin ran
    /\ j.export \in Exports
    /\ Projection(j.export) = j.input

CheckReparse ==
    /\ job # None /\ job.stage = "planned"
    /\ job' = IF MayApply(job) THEN [job EXCEPT !.stage = "checked"] ELSE None
    /\ UNCHANGED <<received, account, upload, parser, db, w, owner, inputs, ran, deleting>>

\* The transaction of apply.  The export may have gone since the checks: its
\* reparse run cannot be inserted and the transaction fails.
CommitReparse ==
    LET e == job.export
    IN /\ job # None /\ job.stage = "checked"
       /\ e \in Exports /\ Identity(job) \notin ran
       /\ ran' = ran \cup {Identity(job)}
       /\ parser' = [parser EXCEPT ![e] = job.target]
       /\ db' = PersistProjection(db, e, job.target, job.parsed)
       /\ w' = ProjectImportFacts(w, db', e, job.owner, FALSE)
       /\ reread' = [x \in Entities |-> reread[x] \cup ({db[x].seen[e]} \ {None, db'[x].seen[e]})]
       /\ job' = None
       /\ UNCHANGED <<received, account, upload, owner, inputs, plan, deletions, lost, stranded>>

AbandonReparse ==
    /\ job # None /\ job.stage = "checked"
    /\ job.export \notin Exports \/ Identity(job) \in ran
    /\ job' = None
    /\ UNCHANGED <<received, account, upload, parser, db, w, owner, inputs, ran, deleting>>

-----------------------------------------------------------------------------
\* entity_ids: the entities some export of the scope observes, or that the
\* scope names.
Involved(scope, named) == {x \in Entities : db[x].row # None /\
                             (x \in named \/ Observers(db[x]) \cap scope # {})}

\* retained_observation: no export outside the scope observes the row.
Unretained(involved, scope) == {x \in involved : Observers(db[x]) \subseteq scope}

\* add_normalized_rows, for the messages.
ScopedMessages(involved, scope) ==
    [x \in Entities |-> IF x \in involved
       THEN {m \in Present(db[x]) : db[x].messages[m].heard \subseteq scope} ELSE {}]

\* add_content_parts and add_revision_and_tombstones: the rows there are now.
ListedParts ==
    [x \in Entities |-> [m \in Messages |->
       IF m \in Present(db[x]) THEN Len(db[x].messages[m].parts) ELSE 0]]
ListedRevisions(scope) == [x \in Entities |-> {v \in db[x].revisions : v.export \in scope}]

\* add_source_rows: of what an export owns, the completeness reports are not
\* removed with it unless they are listed.
ListedReports(scope) == scope \cap Imported

Inventory(scope, named, tenant) ==
    LET involved == Involved(scope, named)
        rows == Unretained(involved, scope)
    IN [status |-> "planned", exports |-> scope, tenant |-> tenant, rows |-> rows,
        kept |-> involved \ rows, messages |-> ScopedMessages(involved, scope),
        parts |-> ListedParts, revisions |-> ListedRevisions(scope), reports |-> ListedReports(scope)]

\* plan: the inventory is drawn up from the rows there are now, whatever other
\* requests have planned.  What the scope does not name makes no request.
PlanDeletion(scope, named, tenant) ==
    /\ Input
    /\ deletions < MaxDeletions
    /\ account
    /\ deletions' = deletions + 1
    /\ plan' = [plan EXCEPT ![deletions + 1] = Inventory(scope, named, tenant)]
    /\ UNCHANGED <<received, account, upload, parser, db, w, owner, job, ran,
                   reread, lost, stranded>>

PlanArchive(e) == e \in Exports /\ PlanDeletion({e}, {}, FALSE)

PlanConversation(x) == db[x].row # None /\ PlanDeletion(Observers(db[x]), {x}, FALSE)

PlanTenant == PlanDeletion(Exports, Entities, TRUE)

\* The foreign keys that refuse the removal: a completeness report, a content
\* part or a revision that the inventory does not list still refers to a row
\* it removes; a message that stays replies to one that goes; a conversation
\* that goes has a message that stays; the account still has rows.
RemovalRefused(p) ==
    \/ (p.exports \cap Imported) \ p.reports # {}
    \/ \E x \in Entities : \E m \in p.messages[x] : Len(db[x].messages[m].parts) > p.parts[x][m]
    \/ \E x \in Entities : \E m \in Present(db[x]) \ p.messages[x] :
           x \in p.rows \/ db[x].messages[m].parent \in p.messages[x]
    \/ \E x \in Entities : \E v \in db[x].revisions \ p.revisions[x] : v.export \in p.exports
    \/ p.tenant /\ (Exports \ p.exports # {} \/ \E x \in Entities \ p.rows : db[x].row # None)

\* Mutant: a reference to a deleted export is cleared when it was the first.
RepointFirst(row, remaining, exports) ==
    IF row.first \in exports
    THEN [row EXCEPT !.first = IF remaining = {} THEN None ELSE CHOOSE e \in remaining : \A f \in remaining : e <= f]
    ELSE row

\* repoint_surviving_provenance
Repoint(row, remaining, exports) ==
    IF row.first \notin exports /\ row.last \notin exports THEN row
    ELSE [row EXCEPT !.first = IF remaining = {} THEN None
                               ELSE CHOOSE e \in remaining : \A f \in remaining : e <= f,
                     !.last = IF remaining = {} THEN None
                              ELSE CHOOSE e \in remaining : \A f \in remaining : e >= f]

LeaveProject(row, projects) == [row EXCEPT !.project = IF @ \in projects THEN None ELSE @]
Unheard(message, exports) == [message EXCEPT !.heard = @ \ exports]

\* delete_scoped_rows for one record: the messages the inventory removes, the
\* revisions and observations of the exports, and references to what goes.
\* A removed row leaves nothing: what still names its id is dead.
DeleteScoped(x, r, p) ==
    LET remaining == Observers(r) \ p.exports
    IN IF x \in p.rows \/ r.row = None THEN Empty
       ELSE [r EXCEPT
               !.messages = [m \in Messages |->
                   IF @[m] = None \/ m \in p.messages[x] THEN None ELSE Unheard(@[m], p.exports)],
               !.revisions = {v \in @ : v.export \notin p.exports},
               !.seen = [e \in ExportIds |-> IF e \in p.exports THEN None ELSE @[e]],
               !.row = Repoint(LeaveProject(@, p.rows), remaining, p.exports)]

\* The exports outside the scope that presented what the inventory removes:
\* none when it was drawn up.
Taken(x, r, p) ==
    {e \in Observers(r) \ p.exports :
        x \in p.rows \/ \E m \in p.messages[x] : e \in r.messages[m].heard}

\* restore_conversation writes the content parts anew, under other ids.
Rewritten(scoped) == {x \in Conversations : Stale(scoped[x]) /\ Held(scoped[x]) # {}}

\* Another inventory p after the removal q: ids that are gone mean nothing.
Outdated(p, q, rewritten) ==
    [p EXCEPT !.exports = @ \ q.exports, !.rows = @ \ q.rows, !.kept = @ \ q.rows,
              !.messages = [x \in Entities |-> IF x \in q.rows THEN {} ELSE @[x] \ q.messages[x]],
              !.parts = [x \in Entities |-> [m \in Messages |->
                  IF x \in q.rows \cup rewritten \/ m \in q.messages[x] THEN 0 ELSE @[x][m]]],
              !.revisions = [x \in Entities |->
                  IF x \in q.rows THEN {} ELSE {v \in @[x] : v.export \notin q.exports}],
              !.reports = @ \ q.exports]

\* What is left of an inventory, the blobs, is BlobProtocol's subject.
RowsGone == [status |-> "purging"]

Planned(i) == plan[i] # None /\ plan[i].status = "planned"

\* The requests after the rows of request i went.  With the account every id
\* of the other inventories is gone, and a later upload makes another account.
PlansAfter(i, rewritten) ==
    [j \in Requests |-> IF j = i THEN RowsGone
                        ELSE IF plan[i].tenant THEN None
                        ELSE IF Planned(j) THEN Outdated(plan[j], plan[i], rewritten) ELSE plan[j]]

\* remove_rows
RemoveRows(i) ==
    /\ Planned(i)
    /\ ~RemovalRefused(plan[i])
    /\ LET p == plan[i]
           subjects == p.rows \cup p.exports
           survivors == Survivors(w, p.kept, p.exports)
           ledgers == ReadAnnouncements(w, subjects)
           scoped == [x \in Entities |-> DeleteScoped(x, db[x], p)]
           dropped == DropFacts(w, p.exports, p.rows)
           cleared == [dropped EXCEPT !.ledger = IF p.tenant THEN NoFacts.ledger ELSE @]
       IN /\ db' = RestoreRetainedVersions(scoped)
          /\ w' = Reannounce(InsertTombstones(cleared, subjects, ledgers), db', survivors, i)
          /\ upload' = [e \in ExportIds |-> IF e \in p.exports THEN None ELSE upload[e]]
          /\ parser' = [e \in ExportIds |-> IF e \in p.exports THEN 0 ELSE parser[e]]
          /\ ran' = {r \in ran : r[1] \notin p.exports}
          /\ account' = (account /\ ~p.tenant)
          /\ plan' = PlansAfter(i, Rewritten(scoped))
          /\ reread' = [x \in Entities |-> IF x \in p.rows \cup Rewritten(scoped) THEN {} ELSE reread[x]]
          /\ lost' = [x \in Entities |-> lost[x] \cup Taken(x, db[x], p)]
    /\ stranded' = {x \in Conversations : db'[x].row # None /\ (x \in stranded \/ Observers(db'[x]) = {})}
    /\ UNCHANGED <<received, owner, inputs, job, deletions>>

\* The completion transaction, once the bytes are gone.
Complete(i) ==
    /\ plan[i] = RowsGone
    /\ plan' = [plan EXCEPT ![i] = None]
    /\ UNCHANGED <<received, account, upload, parser, db, w, owner, inputs, job, ran, deletions,
                   reread, lost, stranded>>

Next ==
    \/ \E u \in Uploads : Receive(u)
    \/ \E e \in ExportIds, p \in Importers : Import(e, p)
    \/ \E u \in Owners \cup {None} : Remap(u)
    \/ \E e \in ExportIds, p \in Parsers : PlanReparse(e, p)
    \/ CheckReparse
    \/ CommitReparse
    \/ AbandonReparse
    \/ \E e \in ExportIds : PlanArchive(e)
    \/ \E x \in Conversations : PlanConversation(x)
    \/ PlanTenant
    \/ \E i \in Requests : RemoveRows(i)
    \/ \E i \in Requests : Complete(i)

Spec == Init /\ [][Next]_vars

-----------------------------------------------------------------------------
RowType == [digest : DOMAIN Body, stamp : Parsers, project : Projects \cup {None},
            first : ExportIds \cup {None}, last : ExportIds \cup {None}]

Payloads == UNION {{Body[d][m].payload : m \in DOMAIN Body[d]} : d \in DOMAIN Body}

MessageType == [parent : Messages \cup {None}, parts : Seq(Payloads), heard : SUBSET ExportIds]

ASSUME AbsentRows == None \notin RowType /\ None \notin MessageType

KeptType == [digest : DOMAIN Body, stamp : Parsers, project : Projects \cup {None}]

RecordOK(r) ==
    /\ DOMAIN r = {"row", "seen", "kept", "messages", "revisions"}
    /\ r.row \in RowType \cup {None}
    /\ r.seen \in [ExportIds -> DOMAIN Body \cup {None}]
    /\ r.kept \subseteq KeptType
    /\ r.messages \in [Messages -> MessageType \cup {None}]
    /\ \A v \in r.revisions : v.digest \in DOMAIN Body /\ v.export \in ExportIds

FactsOK ==
    /\ w.facts \in [Entities -> SUBSET UNION {w.facts[x] : x \in Entities}]
    /\ \A x \in Entities : \A f \in w.facts[x] : f.archive \in ExportIds /\ f.owner \in Owners
    /\ w.ledger \in [Subjects -> Seq(Owners)]

\* Every row, ledger entry, fact and job has the shape the schema gives it.
TypeOK ==
    /\ received \in 0..MaxExports
    /\ upload \in [ExportIds -> Uploads \cup {None}]
    /\ parser \in [ExportIds -> Parsers \cup {0}]
    /\ DOMAIN db = Entities /\ \A x \in Entities : RecordOK(db[x])
    /\ FactsOK
    /\ owner \in Owners \cup {None}
    /\ job # None => job.stage \in {"planned", "checked"} /\ job.target \in Parsers
    /\ DOMAIN plan = Requests
    /\ \A i \in Requests : Planned(i) => plan[i].rows \cap plan[i].kept = {} /\ plan[i].kept \subseteq Entities

\* The record r reads as a version with this body: each of its messages is
\* there with its latest parts and its parent.  A message that lost all its
\* parts keeps the earlier ones (persist_parts).
ReadsAs(r, body) ==
    \A m \in DOMAIN body :
        /\ r.messages[m] # None
        /\ body[m].payload # NoParts => LatestParts(r, m) = body[m].payload
        /\ body[m].parent \in DOMAIN body => r.messages[m].parent = body[m].parent

\* What the observing exports present of the record r.
Versions(r) == {r.seen[e] : e \in ExportIds} \ {None}

\* A row some export observes holds a version an export presents, with its
\* snapshot, and no snapshot of any other version is kept; a conversation's row
\* and messages read as that version: what the version store promises
\* (entity_versions.rs) through imports, reparses and deletions.  It does not
\* hold for a conversation that two deletions left without an export: an export
\* that presents it again finds its digest and keeps no snapshot
\* (persist_projection).
RowsShowEvidence ==
    \A x \in Entities \ stranded : db[x].row # None /\ Versions(db[x]) # {} =>
        /\ Named(db[x], db[x].row.digest)
        /\ {k.digest : k \in db[x].kept} = Versions(db[x])
        /\ x \in Conversations /\ lost[x] = {} => ReadsAs(db[x], Body[db[x].row.digest])

PayloadsOf(d, m) == IF m \in DOMAIN Body[d] THEN {Body[d][m].payload} ELSE {}

Heard(r, e) == \A m \in DOMAIN Body[r.seen[e]] : r.messages[m] # None /\ e \in r.messages[m].heard

PartsComeFrom(r, versions) ==
    \A m \in Present(r) : Range(r.messages[m].parts) \subseteq UNION {PayloadsOf(d, m) : d \in versions}

\* Whatever export is deleted, every message a remaining export presents is
\* still there and known to be that export's (persist_projection's "the
\* messages this export presented are evidence of it too"), and a message holds
\* only parts that a remaining export presented or that a reparse replaced
\* (restore_conversation rewrites the rest).  A conversation that was left
\* without an export keeps what it held (restore_retained_versions).
MessagesFollowTheirEvidence ==
    \A x \in Conversations \ stranded :
        /\ lost[x] = {} => \A e \in Observers(db[x]) : Heard(db[x], e)
        /\ db[x].row # None /\ Versions(db[x]) # {} => PartsComeFrom(db[x], Versions(db[x]) \cup reread[x])

\* Every reference of a row leads to an export that exists: first and last
\* observation, revisions, message observations, facts, and the ledger's
\* archives (repoint_surviving_provenance, delete_exports_and_account).
ReferencesAreLive ==
    /\ \A x \in Entities :
         /\ Observers(db[x]) \subseteq Exports
         /\ db[x].row # None => {db[x].row.first, db[x].row.last} \subseteq Observers(db[x]) \cup
                                 (IF Observers(db[x]) = {} THEN {None} ELSE {})
         /\ \A m \in Present(db[x]) : db[x].messages[m].heard \subseteq Exports
         /\ \A v \in db[x].revisions : v.export \in Exports
         /\ db[x].row # None /\ db[x].row.project # None => db[db[x].row.project].row # None
    /\ \A x \in Entities : \A f \in w.facts[x] : f.archive \in Exports
    /\ \A e \in ExportIds : w.ledger[e] # <<>> => e \in Exports

\* Knowledge holds nothing about a removed record and nothing under a removed
\* archive, for any owner the account was ever mapped to (insert_tombstones).
KnowledgeForgetsTheDeleted ==
    \A u \in Owners, x \in Entities : w.known[u][x] # None =>
        db[x].row # None /\ w.known[u][x].archive \in Exports

\* A fact is whole: the parent it gives a message is a message it carries, and
\* a message whose role is left out does not cut those below it off.  One that
\* is left out for its provider id does: nearest_represented_parent ends there,
\* although "the nearest ancestor that is itself represented"
\* (contract_projection/messages.rs) may lie above it.  So a message of a fresh
\* fact has no parent exactly when every ancestor the fact carries lies above
\* one with such an id.
FactsAreWhole ==
    \A x \in Entities : \A f \in w.facts[x] : \A m \in DOMAIN f.digest.messages :
        LET told == f.digest.messages
            up == Ancestor(db[x], m)
        IN /\ told[m].parent \in DOMAIN told \cup {None}
           /\ f = LatestFact(w, x) /\ told = View(db[x])
                 => (told[m].parent = None <=>
                       \A k \in 1..Cardinality(Messages) : up[k] \in Represented(db[x]) \ {m} =>
                          \E j \in 1..(k - 1) : up[j] \in Present(db[x]) \cap Unnamed)

\* A deletion does not make Knowledge forget a record it keeps, when an export
\* still holds the record and every one that does was announced (reannounce).
\* A record that two deletions each retain for the sake of the other's export
\* ends without one: ConversationsHaveProvenance.
SurvivorsStayKnown ==
    [][\A i \in Requests : Planned(i) /\ plan'[i] = RowsGone =>
         \A x \in plan[i].kept :
            (\E u \in Owners : w.known[u][x] # None) /\ Observers(db'[x]) # {} /\
            (\A e \in Observers(db'[x]) : OwnerOfArchive(w, e) # None)
            => \E u \in Owners : w'.known[u][x] # None]_vars

-----------------------------------------------------------------------------
\* Everything the files of the remaining exports hold, whoever reads them.
Presentable(x, m) ==
    LET readings == {Reading[upload[e]][p][x] : e \in Observers(db[x]), p \in Parsers}
    IN UNION {PayloadsOf(r.digest, m) : r \in readings \ {None}}

\* openspec/specs/privacy-deletion/spec.md, "A surviving record holds only
\* content a retained archive presented": rows, parts and announced facts.
DeletedContentIsGone ==
    \A x \in Conversations : Observers(db[x]) # {} =>
        /\ \A m \in Present(db[x]) : Range(db[x].messages[m].parts) \subseteq Presentable(x, m)
        /\ \A u \in Owners : w.known[u][x] # None =>
             LET told == w.known[u][x].digest.messages
             IN \A m \in DOMAIN told : told[m].payload \in Presentable(x, m) \cup {NoParts}

\* The same specification, "Archive deletion SHALL remove ... data whose last
\* retained provenance is that export": what another export holds stays.
EvidencedDataStays == \A x \in Entities : lost[x] = {}

\* The other half of that sentence: a conversation whose last export is deleted
\* goes with it.  Two deletions that were planned before either was executed
\* each retain the conversation their exports share, and nobody removes it.
ConversationsHaveProvenance ==
    \A x \in Conversations : db[x].row # None => Observers(db[x]) # {}
=============================================================================
