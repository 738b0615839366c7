# A TLA+ verification of the ChatGPT archive service

The service receives archive exports over HTTP, stores them in a content-addressed blob store,
imports them with a background worker, announces what it imported through a transactional outbox
on NATS JetStream, reports to Platform, and erases everything on a privacy deletion. PostgreSQL
is the only durable state besides the blobs and the staging files. The hard part is not any one
of these components but their interleavings: uploads, the worker, the pump and deletions run
concurrently, crash independently and share rows, locks and bytes.

## Inventory

| Part | Source (`crates/chatgpt-archive/src`) | Module |
| --- | --- | --- |
| Blob registration and erasure, phases of a privacy deletion | `blob_protocol.rs`, `blob_store.rs`, `privacy_deletion/` | `BlobProtocol`, proofs in `BlobProofs` |
| Import state machine | `receipt/state.rs` | `ImportState` (abstract) |
| Receipt, resume, startup sweep | `receipt/mod.rs`, `receipt/pg.rs`, `receipt/http.rs` | `Receipt`, proofs in `PipelineProofs` |
| Initial import worker, operation reports | `initial_import.rs`, `receipt/report.rs` | `ImportPipeline` (composes `Receipt`), proofs in `PipelineProofs` |
| Outbox, pump, stream erasure, acknowledgements | `outbox.rs`, `receipt/outbox/`, `stream_erasure.rs`, `deletion_ack.rs`, `privacy_deletion/erasure.rs` | `Outbox`, proofs in `OutboxProofs` |
| Reparse, parser migration | `reparse.rs`, `parser_migration.rs` | `Migration`, invariants in `MigrationInvariants`, proofs in `MigrationProofs`; the rows a reparse writes in `Archive` |
| Parser registry | `parser_registry.rs` | `ParserRegistry`, proofs in `IntakeProofs` |
| Archive inspection and extraction | `archive.rs`, `read_artifacts` of `reparse.rs` | `ArchiveIntake`, proofs in `IntakeProofs` |
| Shared rows, versions and their restoration | `normalized_persist.rs`, `entity_versions.rs`, `privacy_deletion/restore.rs` | `EntityVersions`, proofs in `VersionProofs` |
| Facts, announced subjects, tombstones, re-announcement | `contract_projection.rs` and its modules, `announced_subjects.rs` | `Facts` |
| Inventory and row removal of a privacy deletion | `privacy_deletion/service.rs`, `privacy_deletion/rows.rs` | `Archive` (composes `EntityVersions` and `Facts`), invariants in `ArchiveInvariants`, proofs in `ArchiveProofs` |
| Reconciliation of parsed snapshots | `reconciliation/` | `Reconciliation`, compared with `Archive` in `ArchiveHistories` |
| Portable export, parsers, fixture admission, configuration, authentication, admin, telemetry | see `PROJECT.json` | not modelled |

## Modules

**BlobProtocol.** An element of `Exports` is one export row; `row[e]` says which of its rows are
committed, `store` which digests have an object. A registrar (`wpc`) stores bytes outside any
transaction, takes the tenant lock (import and reparse, not the receipt) and the digest locks in
ascending order, proves the objects and commits. An executor (`xpc`) runs the phases of a
deletion: rows under the tenant lock, one transaction per blob item, completion. Crashes and
rollbacks are actions at every point; `SessionLoss` adds the loss of the session that carries
the locks. `loose` is a history variable for bytes of registrations that never committed.

**ImportState** is the machine `ImportState::advance` declares, no more. `Receipt` implements it with
`state <- run`; the worker does not, since `persist_initial_plan` takes a stored run to completed or
partial with an UPDATE of its own (`WorkerEnds`).

**Receipt.** A run is one upload. `pc[r]` walks `receive_inner` and `settle_hashed`; `staging[r]`
is absent, a proper prefix or the whole body; `phase` is the process (down, sweeping, serving).
A resumed run takes the same steps without expectations and without an operation, as the code
does. Disconnects drop a handler, crashes drop all of them, and every commit may land with its
acknowledgement lost. `answer` is the outcome the handler decided; the staging file goes after it.

**ImportPipeline** adds the worker: selection, a plan built outside any transaction, the
transaction that imports and reports, permanent failures and late reports, interleaved with
receipts and deletions.

**Outbox.** Rows are numbered; `row` is the delivery state and `seqs` the recorded stream
sequences. The pump reconciles its carry, selects a batch without a lock, and publishes one row at
a time under its row lock. The broker has a duplicate window per fact; Knowledge acknowledges and
Edge erases. A deletion is one atomic step that waits for the pump's lock. Backoffs are modelled
by letting any part of the eligible rows be due.

**EntityVersions** holds what one entity's rows say: the current row, `seen[e]` (the version each
export presents), the snapshots, the revisions and, for a conversation, its messages with the
history of their parts and the exports that presented each. `PersistProjection` is an import or a
reparse, `RestoreRetainedVersions` what a deletion does to the survivors. A version is a digest,
`Body` its messages. It has no variables: its operators map a record to the record after the
transaction.

**Facts** is the announcing side in the same style: the facts in the outbox, the ledger of
announced subjects and what Knowledge holds for each owner. A fact carries what
`conversation_messages` reads from the rows. Two kinds of messages are left out: those of a role the
contract has no name for (`Hidden`), which the search for a parent passes, and those whose provider
id is not a local id (`Unnamed`), at which it ends without a parent. A fact of a conversation or of a
project that is too large is not announced, a fact equal to the last one is suppressed.

**Archive** composes both. Every transaction of the code holds the tenant lock, hence one action
each; what the code reads outside the lock is a step of its own: the checks of a reparse before its
transaction, and the plan of a deletion against its execution. `RemovalRefused` collects the foreign
keys that make the execution fail. Planning and executing are separate commands, so several requests
may be planned before any of them is executed (`plan` is a function over `Requests`); a tenant
deletion needs an account row, with or without exports, and afterwards the ids in the other inventories
name nothing. `lost`, `reread` and `stranded` are history variables. A removed row leaves observations and facts that name a dead id; they
influence nothing, and the model forgets them with the row. The owner of an account is configuration, and a reparse in
progress keeps the mapping its process started with.

**Reconciliation** is `ArchiveReconciler`, a library that no command of the service calls yet: the
snapshots of an account, in order, become histories of revisions and observations with a report for
each snapshot and one over all. A digest is the evidence it is computed from, so that equal digests
are equal evidence. The second half of the module states what a history should be directly on the
snapshots, without the folds. **ArchiveHistories** checks the library against this statement, and
the shared rows of `Archive` against the library.

**ParserRegistry** and **ArchiveIntake** are the pure algorithms: registration, compatibility and
the order of versions; the inspection of a ZIP file entry by entry with its running totals (in words
of `WordMax`), and the extraction in chunks with its own limits, because an entry may inflate to
another size than it declares. A path is the sequence of its components. Every refusal of an
extraction is one failure, whatever its error kind, and the removal of a failed extraction's directory
succeeds, where the code ignores its error. **OrderedFold** is the loop
over a sequence that both use; `Turns` is the function of its intermediate results, about which the
proofs speak.

**Migration** is `parser-migrate`: the exports are listed, each is planned (row, bytes,
inspection, choice of parser, reading), a dry run ends there; apply makes its checks outside the
lock, begins a transaction, checks again, writes and commits, archive by archive; at the end one
report per operation is inserted unless one exists. A reading is about conversations and projects
(`Records`), and `Persisted` writes both; what is compared, reported and part of an execution's
identity is the `Projection` to the conversations, as in `compare`. Imports, a deployment of another
build, deletions, failures, lost commit answers and crashes interleave. `build` stands for the registry's
fingerprint, `clock` for the transaction times that order reparse runs; an import is older than
every reparse of its archive. `Blocked` is an open deletion of the archive. Uploads start stored: how they got there is `Receipt`. The production
registry has one parser, so a migration needs a deployed build with several (`Deploy`).

The broker, the database session, the crash of a process, Knowledge and Edge are marked external
in the map.

## Runs

Passing runs:

| Run | Instance | Shows |
| --- | --- | --- |
| `BlobOneTenant` | one tenant, two exports that share bytes, two requests, two executors, one fault | no row without bytes, no bytes without account |
| `BlobLiveness` | two tenants that share bytes, three digests, one fault, session loss | bytes are accounted for across tenants, requests that removed their rows complete, registrations end |
| `PipelineReports` | three uploads of one archive, two of them a Platform upload and its retry, worker, deletions, one fault | one export per archive, honest answers, bound operations, reports that agree with runs and name no erased export, no state change beside `ImportState` but the worker's last one, interrupted runs settle, accepted operations are reported |
| `OutboxErasure` | two facts, two deletions, failed and unconfirmed commits, session loss, expiry of the duplicate window | every copy of a deleted fact is named or carried, published rows record their copies, obligations survive later deletions |
| `OutboxFaults` | one deletion, two faults of any kind, one oversized row | nothing is published after its deletion while the session lives, copies are erased, tombstones acknowledged |
| `Archive` | one conversation of four messages (one hidden, one unnamed) in one project, three uploads, two parsers, two owners, two deletions that may be planned at the same time | rows show what the remaining exports presented, references are live, messages and parts follow their evidence, Knowledge forgets the deleted and keeps the survivors, facts are whole; reconciliation against its statement on about eight hundred sequences of up to three snapshots, and the rows against reconciliation |
| `Migration` | two archives of two conversations and a project, two builds, two commands towards two releases, one deletion, one fault | inspection and extraction against the rules of the intake specification on about eleven hundred files, order of versions under every order of registration, honest reports, one report per operation, no writes for an erased archive, no evidence taken by a reparse |

Five runs show that the code does less than one of its documents says; `findings` in
`PROJECT.json` quotes the lines.

| Run | Shows |
| --- | --- |
| `BlobWriteSkew` | two tenants that remove the last two references to a blob at the same time both keep it, and nothing lists it any more |
| `ReceiptTruncated` | the resume of a run whose handler ended mid-stream publishes the prefix that reached the disk |
| `ArchiveLeftover` | the fact of a survivor, announced last by an archive that stays, keeps a message only the deleted archive presented |
| `ArchiveStalePlan` | an import between plan and execution of a deletion: what the new export holds too is removed |
| `ArchiveOrphan` | two deletions planned before either is executed each retain the conversation their exports share, and it stays without any export |

### Conditions of the passing runs

These are switched off, or kept out of the promise, in the runs above. They are limits of what
the passing runs claim.

* Equal bytes are referenced by equal references. `blob_is_referenced` compares whole references,
  media type included, while the store is keyed by the digest.
* Safety of the blob protocol assumes that an eraser keeps its session between the re-check and
  the removal of the file. The locks live in the session, the file does not. Liveness is checked
  with session loss.
* `BlobLiveness` has one request: with concurrent requests of two tenants
  `UnerasedBlobsAreAccounted` fails, which is `BlobWriteSkew`.
* Convergence of a deletion is claimed once its rows are gone. Before that, an import that
  commits after planning makes the foreign keys refuse the row deletion (`RemoveRowsRefused`).
* `OnlyTheWorkerSkipsStages` excepts the step from `stored` to `completed` or `partial`, which the
  import worker writes directly and `advance` refuses.
* A bind that the foreign key refuses leaves its run `hashed` until the next start, and a staging
  file may outlive a crash after the run settled. The properties allow both.
* `DeletedCopiesAreNamed` is claimed without lost acknowledgements and without a crash of the
  pump between acknowledgement and commit.
* A resent tombstone is a new message: the resend interval (600 s by default) is longer than the
  broker's duplicate window (120 s).
* In `Archive`, properties of messages except conversations that lost evidence to a stale plan
  (`lost`), which is `ArchiveStalePlan`. The exception covers the later exports of the conversation
  too: one that presents the content the row already names is only observed (`ReadAgain`), so
  the message that the plan took stays missing. Parts that a reparse of a remaining export replaced may stay
  (`reread`); a message whose parts became empty keeps its earlier ones, as `persist_parts` does.
* `RowsShowEvidence` and `MessagesFollowTheirEvidence` except conversations that two deletions left
  without an export (`stranded`), which is `ArchiveOrphan`. They stay excepted when an export presents
  them again: it finds its digest in the row and keeps no snapshot.
* `FactsAreWhole` lets a message be a root although a represented ancestor exists, when an unnamed
  message is nearer.
* `SurvivorsStayKnown` is claimed when every remaining export of the record was announced: a repair
  names the earliest one and is skipped when that one was never announced.
* `RowsMatchTheReconciliation` is claimed before the first reparse and the first deletion: both
  change rows in place, and reconciliation starts again from the snapshots. A snapshot may list a
  conversation or a project twice. Every listing of a project observes its instructions, so
  `ReconciliationIsFaithful` speaks of listings there (`ListingsIn`), not of snapshots.
* `ReportsAreHonest` takes changed and unchanged to be about conversations.
* `ReparseUpgrades` and `ReportsAreHonest` compare with the state the plan saw. Two concurrent
  migrations to different targets may commit in either order, since the order of versions is not
  checked again under the lock; the older target can then be the last one written.

### Bounds

`MaxFaults` bounds crashes, disconnects, lost acknowledgements and errors; one fault reaches every
single-failure case, and `OutboxFaults` uses two. `MaxCopies` is the number of facts plus one; a
second copy of a fact needs a fault or an expired window. Two digests are the smallest number with
a lock order and two tenants the smallest that does not share the tenant lock; three uploads are an
upload, its retry and a competitor. In `Archive` three exports give the shortest histories in which
a content is presented, replaced and presented again and the middle export is deleted; its bodies
cover an edit, a message without parts, one that is gone, one too large to announce, a hidden
message between two others, an unnamed one likewise, a project too large to announce, and files the
second parser reads as another version. `MaxInputs` = 5 bounds receipts, changes of owner, reparses and
deletions together: three imports and two deletions, or two imports, a reparse and two deletions, fit. In `Migration` two archives are the smallest report
with one failed entry; the limits of the inspection are small numbers, so that every sum and ratio
meets its bound from both sides, and `WordMax` is just above them. Facts that hold in every state
(the inspection, the extraction, the order of versions, reconciliation) are evaluated in the initial state
(`Fresh`). The MC modules define each table of an instance apart from the name the configuration
uses, because TLC evaluates a replaced constant at every use. Runs may stop when every upload, request and command is done, so those configurations do
not check for deadlock; the outbox runs do. Symmetry permutes the executors, the owners and the
operators, in runs without liveness.

### Fairness

Advisory locks queue their waiters, hence strong fairness for the processes of `BlobProtocol`.
The runtime polls every handler and the supervisor restarts the process, hence weak fairness in
`Receipt`. The worker and the pump are loops; a row that stays due is selected again and again,
hence strong fairness of a full batch. `Archive` and `Migration` depend on commands of an operator
and assume no fairness. No fairness is assumed for clients, faults or new
deletions. The operator is assumed to execute an unfinished request again, as the code asks.

## Proofs

Every theorem holds for every value of the constants that the named assumptions of its module
admit: any number of processes, uploads, rows, archives, digests and faults. The invariants of the
runs are seldom inductive; each group of theorems rests on one invariant that is, which was
model-checked on the instance of the run before it was proved.

### Blobs (`ProtocolConstants`)

In `BlobProofs`:

* `TypeCorrect`: `Spec => []TypeOK`.
* `NoMissingBlob`: under `RefsAgree` (equal bytes have equal references) and without session loss,
  `Spec => []NoRowReferencesMissingBlob`.
* `NoForgottenBlob`: under `DeletionsShareNothing` (requests of different tenants are about
  different references), `Spec => []UnerasedBlobsAreAccounted`.

`ProtocolInv` adds three facts to the first property. A registrar that has proved its blobs holds
their digest locks and their objects exist; a registrar of an existing export holds the tenant lock
and its rows are still there (`RegistrarSafe`). An executor past the digest lock holds it, once
cleared no row references its item, and while it removes rows it holds the tenant lock
(`EraserSafe`). A scope names only rows of the tenant of its request (`ScopesAreOwned`).
`QuietStep` carries the steps that change no row and remove no bytes: only the process that moves
has to be looked at. Three steps remain. `RegistrarCommits` uses that a cleared executor and a
proved registrar cannot hold the same digest lock. `RowsGo` uses the tenant lock. `BytesGo` uses
the digest lock and `RefsAgree`.

`AccountInv` follows the bytes instead. Its facts are the locks again (`RegistrarHolds`), what an
executor knows of its request (`ExecutorKnows`: the plan stands and its inventory is complete while
it removes rows, what it decided to keep is referenced outside its scope, its work list has every
item that is still to be erased, what it erased is gone) and what the items of a request cover
(`RequestCovers`). `RemovalAccounts` is the step that needs the condition: an item is retained for
a row of another export, which stays only because the deletion that could remove it waits for the
same tenant lock or is about other references. `BlobWriteSkew` is the behaviour without the
condition. The condition holds in both passing runs, in `BlobOneTenant` because there is one tenant
and in `BlobLiveness` because there is one request. Neither `RefsAgree` nor a lasting session is
needed here.

### Receipt, worker and reports (`ReceiptConstants`)

In `PipelineProofs`, about `PipelineSpec`, hence with the worker and deletions beside the receipt:

* `TypesHold`: `PipelineTypeOK`.
* `NoSecondExport`: `OneExportPerArchive`.
* `AcknowledgedBytes`: `AcknowledgedBytesAreTheUpload`.
* `HonestReports`: `ReportsAgreeWithRuns`.
* `ReportsDieWithTheExport`: `NoReportOfErasedExport`.
* `AcceptedStaysBound`: under `OneArchivePerOperation`, `AcceptedOperationIsBound`.
* `ReceiptImplementsTheStateMachine`: about `Spec` of `Receipt`, without the worker, the refinement
  of `ImportState` (`Spec => Machine!Spec`).
* `OnlyTheWorkerSkips`: `OnlyTheWorkerSkipsStages`.

`ReceiptInv` ties the program counter of a handler to the state of its run, and says that an
answer, a found duplicate or a handler that settles stands for a run of the same account with the
digest of the whole body. A resumed run may settle a prefix (`ReceiptTruncated`), so the fact about
the body is claimed only while the listener is up and only for handlers that have a client.
`PipelineInv` adds where the worker stands, that what it read for a late report still holds, and
that an operation has exactly the report its run calls for. `OneArchivePerOperation` is needed
because the code binds with `ON CONFLICT DO NOTHING` and does not compare: a retry that sends
another archive is accepted for an export its operation is not bound to, and a deletion of the
first export unbinds the operation.

### Outbox (`OutboxConstants`, `CommandsAreOwn`)

In `OutboxProofs`:

* `OutboxTypes`: `TypeOK`.
* `LockCoversThePublication`: the action property `NothingPublishedAfterDeletion`.
* `NoObligationIsLost`: `ObligationsSurviveDeletions`, with every fault.
* `OnlyOrphansEscape`: with every fault, the copies that no command names, no row records and no
  carry holds are the orphans, whose acknowledgement was lost or whose carry died with the process.
* `DeletedCopiesStayNamed` and `PublishedCopiesStayRecorded`: without lost acknowledgements and
  crashes, `DeletedCopiesAreNamed` and `PublishedRowsRecordTheirCopies`.

`PumpInv` says which row the pump holds at each step and that only sequences the stream has given
are known anywhere. `Ledger` says for every copy where its sequence is known (the row, the carry,
a command once the row is gone, or nowhere: an orphan), that the rescue command of a fact comes
after its row is gone for good, and that a published command is still on the bus or has been obeyed.
`CommandsAreOwn` says that no two deletions or rescues write the same command; the deduplication
key of a command is built from its request or event.

### Intake (`IntakeConstants`, `FilesAreZips`, `DeclarationsAreTyped`)

In `IntakeProofs`, about the loops of the inspector, the extractor and the registry:

* `ExtractionStaysBounded`: `Spec => []ExtractionIsBounded`, for every set of files, every limit and
  every size of the chunks.
* `ReleasesStandInOrder`: under `ReleasesFollowVersions`, `Spec => []VersionsAreOrdered`.

The assumptions say that the limits are numbers that fit the word of the running totals, that a file
is a sequence of entries and a build a sequence of declarations. `ReleasesFollowVersions` says that
a later release of a parser has a higher version and that no two texts of one version are declared,
as `1.0` and `01.0` would be.

The loops are recursive functions, and what they compute is proved by induction over the number of
elements taken. The induction theorems of the library cannot be used, because the provers do not
instantiate an operator parameter; `LoopProofs` derives induction for a set of numbers from
the fact that every nonempty set of naturals has a least element, and gives a loop over a sequence
in that form (`Iterates`). Each loop then has one lemma about its intermediate results. For the
inspection, a file is refused after n entries exactly when one of the first n is unsafe or their
totals exceed a limit; the totals of the remaining entries only add to them, so the order in which
limits are met does not matter. For the extraction, the bytes on disk after n entries are within the
limit, and as long as nothing failed they are at most what the first n entries declare. For the registry,
the identities stay distinct under every order of registration, and `CompatibleVersions` is a
permutation of the compatible ones that is sorted by `IdLess`. That `IdLess` is a strict total order on
distinct identities is proved from `PartLess`, for versions of any length
(`VersionLessTransitive`, `VersionLessTotal`).

### Migration (`ArchivesAreOrdered`, `SomeBuild`, `ParsersAreReal`, `TargetsAreReal`, `NoReportIsNone`, and those of the intake)

In `MigrationProofs`:

* `ErasedStayErased`: `Spec => []ErasedArchivesStayErased`.
* `EvidenceStays`: `Spec => OnlyDeletionTakesEvidence`.
* `MigrationTypes`: `TypeOK`.
* `CallersAlwaysAgree`: `CallersAgree`.
* `ReportsStayHonest`: `ReportsAreHonest`.
* `ReparseAlwaysUpgrades`: under `ReleasesFollowVersions` and `OneParserPerFile`, `ReparseUpgrades`.
* `OnlySafeFilesAreEverRead`: `OnlySafeFilesAreRead`.

The assumptions say what the constants are: archives are numbers, there is a build, and `None` is no
parser, target or report. Nothing is assumed about readings or about the number of deletions.

The first two come from `EvidenceInv`. The checks of a reparse precede its lock, so a command may
hold the plan of an archive that was erased meanwhile, and neither property is inductive. `RowsOK`
says that only an imported archive has a parser, observations and runs. `CommandOK` says what a
command still knows when it writes: the archive it reads and the archives it has plans for were
imported when it looked, and only planned archives are eligible. An archive that was imported is
imported or erased ever after (`Settled`), so at the commit the presence of the row, which the
foreign key demands, is enough: the archive is imported (`WriteKeeps`). `EvidenceStays` then needs
that `Persisted` keeps what the parser does not read, and that only `RemoveRows` takes observations.

The others come from `ReportInv`. A report repeats the entries of its command, and a command takes
an entry from runs another command committed. `ArchiveOK` therefore ties every run and every
recorded parser to the projection that was written with it, `Informed` every entry of a command in
progress to such a projection, and `ReportsOK` the reports and the answers. The history only grows,
so what an entry was shown to be stays shown. `ReparseAlwaysUpgrades` adds the order of the listed
versions, from `IntakeProofs`. `OneParserPerFile` says that the parsers of a build that can read
one archive are releases of one parser: the list puts the releases of one parser in order, and
parsers of different names one after the other.

`OnlySafeFilesAreEverRead` needs `AcceptedInv`, that an imported archive was accepted by the
inspection, and from `EvidenceInv` that only an imported archive has observations. With
`InspectionIsTheRules`, that the inspection accepts exactly the safe files, this gives the property.

### Archive (`VersionConstants`, `FactsConstants`, `ArchiveConstants`, `AbsentRows`)

In `ArchiveProofs`, about any number of exports, entities, messages, versions, parsers and owners:

* `ArchiveTypes`: `TypeOK`.
* `RowsAlwaysShowEvidence`: `RowsShowEvidence`.
* `MessagesAlwaysFollow`: `MessagesFollowTheirEvidence`.
* `ReferencesStayLive`: `ReferencesAreLive`.
* `DeletedIsForgotten`: `KnowledgeForgetsTheDeleted`.
* `FactsStayWhole`: `FactsAreWhole`.

The assumptions say that identifiers of different kinds differ and `None` is none of them, that
there are finitely many messages, and that a reading places a conversation only in a project it
lists, which is what `project_of_conversation` does.

`ArchiveInv` (in `ArchiveInvariants`) has a part for each thing a transaction reads. `RecordInv` is
about one record: without a row there is nothing, and every reference is an import. `KeptInv` says that
the snapshots are exactly the versions that exports present and that a conversation that has a row has
an observer; `VersionsInv` claims it, and `HistoriesInv` the next, of every record that is not
stranded. `HistoryInv` is about its messages and parts; `LinksInv` about projects; `FactsInv` says that what
Knowledge holds for an owner was announced to that owner, under an archive that was announced
to the same owner, so that the tombstones reach it; `JobInv` and `PlanInv` about the reparse and
the deletions in progress. A deletion works from an inventory that may be stale, and nothing checks it
again: the plan of another deletion may have been executed meanwhile, or an import or reparse
committed. The proof therefore uses nothing of an inventory but that it keeps no row it removes
(`InventoryOK`), and what the foreign keys refuse (`RemovalRefused`). What a deletion takes that a
retained export holds is recorded in `lost`, what it leaves without an export in `stranded`.

`VersionProofs` has the lemmas about one record: what observing, keeping a snapshot, appending a
revision, persisting and restoring preserve. A restored conversation is replayed export by export;
by induction over the exports, after export e the draft reads as the last version held up to e,
whatever versions were skipped as repetitions (`Drafted`), so the row reads as the newest one. `ArchiveProofs` lifts them to
the actions. `FactsStayWhole` uses that the walk to the nearest represented parent stops at the
first ancestor with the property, and that a cycle among the parents returns to messages the walk
has seen.

### Model-checked only

* Liveness, which is outside the prover's reach.
* `ReconciliationIsFaithful` and `RowsMatchTheReconciliation`: reconciliation nests five folds of the
  community modules, whose definitions choose their recursive function; what each level keeps would
  have to be proved by induction for each of them, and has not been.
* `SurvivorsStayKnown`: the condition under which a survivor stays known is stated for the
  instance. With several owners and a reparse between plan and execution more has to be
  assumed about who was announced what.

## What the model says beside its properties

Behaviour of the code that the modelling met and that no run is about:

* A fact is compared with the last one of its subject, and its identifier is derived from its
  content: after A, B, A the second B has the identifier of the first and is not announced.
* A message that becomes a root keeps the parent an earlier export gave it.
* A reparse of an older export may rewrite the shared row of a conversation whose own observation it
  reports as unchanged.
* A receipt between the plan of a tenant deletion and its execution makes every execution fail: the
  account still has rows, and the plan of the request is fixed.
* The version `1.10-b` sorts after `1.10`.

Places where the code does other than its documents say, and where a property states what the code
does:

* `receipt/state.rs:3` says that every writer of a run's state validates through `advance`, and
  `import-state/spec.md:10` accepts no other transition. `persist_initial_plan`
  (`initial_import.rs:282`) takes a stored run to completed or partial. `OnlyTheWorkerSkipsStages`
  shows that this is the only step of the kind.
* `contract_projection/messages.rs:208` promises the nearest ancestor that is represented. The search
  ends without a parent at an ancestor whose id is refused, although a higher one may be represented.
* `parser_migration.rs:29` and `archive-reparse/spec.md:45` speak of unchanged evidence. `compare` looks
  at conversations only: a reparse that changes just projects writes them and reports `unchanged`.
* Reconciliation of a snapshot that lists a project twice (`reconciliation/core.rs:202`) gives an
  instruction of one listing a present and a missing observation from the same snapshot.
* `reconciliation/report.rs:18` describes `new_revisions` as the revisions created and
  `reused_revisions` as the present observations that reused one, without exception. The code counts
  new revisions of conversations and messages and reused ones of messages only; `ReportsAddUp` states
  it that way.
* `DEVELOPMENT.md:73` names one residual of the stream erasure, a crash between acknowledgement and
  commit. A publish acknowledgement that is lost without a crash orphans a copy too (`AckLoss` in
  `Outbox`); `OnlyOrphansEscape` proves that there is no third way.

## Not modelled

* Portable export: writes no state of the service. It reads provenance, projects, conversations and
  assets in four statements outside a transaction, so an export beside an import may mix two states;
  this is in the list of hazards.
* The parsers of the synthetic schema and the classification of entries: decoding of one file
  without state. `Reading` stands for what they return.
* The publication of extracted files: `ArchiveExtractor` is used by tests; the service reads entries
  into memory (`Readable`).
* Assets and message relations: they are removed and restored with the messages they belong to.
* Fixture admission, configuration, authentication, admin, telemetry, shutdown: no protocol state.
