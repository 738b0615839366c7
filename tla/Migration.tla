------------------------------ MODULE Migration ------------------------------
(***************************************************************************)
(* One tenant's archives are imported by the parser the running build      *)
(* selects; operators then run parser-migrate: a plan that reads every     *)
(* archive with the target parser, an apply that reparses the eligible     *)
(* ones each in a transaction of its own, and one durable report.          *)
(* Commands interleave with each other, with imports and with a deletion.  *)
(* The uploads have been received (module Receipt).                        *)
(***************************************************************************)
EXTENDS ParserRegistry, ArchiveIntake, FiniteSets

CONSTANTS
    Archives,         \* identities, numbers: a report lists them in order
    Conversations, Projects, Operators, Operations, Targets, None,
    Builds,           \* the parser declarations of each deployed build
    Mode,             \* the acquisition mode of the uploads
    Upload,           \* the file of each archive
    Files,            \* the files the inspection is compared on
    Reading,          \* Reading[a][version]: a digest or None per record, or None
    Release,          \* the number of each version in order of release
    MaxCommands, MaxDeletions, MaxFaults

VARIABLES
    build,            \* the deployed build
    export,           \* stored, imported, failed or erased
    blob,             \* the raw bytes are in the store
    parser,           \* the import run's parser, or None
    seen,             \* per archive and record, the observed digest
    runs,             \* per archive, the committed reparse runs
    deletion,         \* per deletion request, its archive and stage while it is open, or None
    command,          \* per operator, the command in progress
    reports,          \* per operation, the durable report, or None
    clock,            \* the number of transactions begun
    started, deleted, faults,
    reads,            \* history: every projection written
    returned          \* history: what commands returned

vars == <<build, export, blob, parser, seen, runs, deletion, command, reports, clock,
          started, deleted, faults, reads, returned>>

Idle == [pc |-> "idle"]
Records == Conversations \cup Projects
Requests == 1..MaxDeletions
Nothing == [x \in Records |-> None]
Declarations == [b \in DOMAIN Builds |-> Registry(Builds[b])]
Inventory == [a \in Archives |-> Inspected(Upload[a])]
Compatibles == [b \in DOMAIN Builds |-> [a \in Archives |->
                   CompatibleVersions(Declarations[b], Inventory[a].signals, Mode)]]
Chosen == [b \in DOMAIN Builds |-> [a \in Archives |->
              Selected(Declarations[b], Inventory[a].signals, Mode)]]

ASSUME FilesAreZips ==
    (\A zip \in Files : zip \in Seq(EntryType)) /\ \A a \in Archives : Upload[a] \in Seq(EntryType)
ASSUME ArchivesAreOrdered == Archives \subseteq Nat
ASSUME DeclarationsAreTyped == \A b \in DOMAIN Builds : Builds[b] \in Seq(DeclarationType)
ASSUME SomeBuild == Len(Builds) \in Nat \ {0} /\ DOMAIN Builds = 1..Len(Builds)
ASSUME ParsersAreReal ==
    \A b \in DOMAIN Builds, a \in Archives :
        \A i \in DOMAIN Compatibles[b][a] : Compatibles[b][a][i] # None
ASSUME TargetsAreReal == None \notin Targets

\* What a report says of an archive.
Outcomes == {"privacy_blocked", "already_current", "raw_missing", "failed_inspection",
             "unsupported", "applied", "unchanged", "failed"}
Reports == [target : Targets, entries : UNION {[S -> Outcomes] : S \in SUBSET Archives},
            status : {"completed", "partial"}]

ASSUME NoReportIsNone == None \notin Reports

Present(a) == export[a] \in {"stored", "imported", "failed"}

\* current_parser: the newest of the import and the reparse runs.  A run is
\* as old as the beginning of its transaction.
Current(a) ==
    IF runs[a] = {} THEN parser[a]
    ELSE (CHOOSE r \in runs[a] : \A s \in runs[a] : s.stamp <= r.stamp).target

\* current_projection: the conversations.  What an archive shows of projects is
\* neither compared nor part of an execution identity.
Projection(evidence) == [c \in Conversations |-> evidence[c]]

\* compare: whether a conversation is added or changed.
Changes(old, new) == {c \in Conversations : new[c] # None /\ new[c] # old[c]}

\* Mutant: one unchanged conversation makes the archive unchanged.
OutcomeAny(old, new) ==
    IF \E c \in Conversations : new[c] = old[c] THEN "unchanged" ELSE "applied"

\* The entry of a reparse that succeeded.
Outcome(old, new) == IF Changes(old, new) = {} THEN "unchanged" ELSE "applied"

\* Mutant: the projection becomes what the parser read.
PersistedAlone(old, new) == new

\* persist_projection, for the observations of the archive: a project or
\* conversation that is not read stays observed.  The shared rows it writes
\* beside them are the subject of module Archive.
Persisted(old, new) == [x \in Records |-> IF new[x] = None THEN old[x] ELSE new[x]]

Init ==
    /\ build = 1
    /\ export = [a \in Archives |-> "stored"]
    /\ blob = [a \in Archives |-> TRUE]
    /\ parser = [a \in Archives |-> None]
    /\ seen = [a \in Archives |-> Nothing]
    /\ runs = [a \in Archives |-> {}]
    /\ deletion = [i \in Requests |-> None]
    /\ command = [o \in Operators |-> Idle]
    /\ reports = [p \in Operations |-> None]
    /\ clock = 0 /\ started = 0 /\ deleted = 0 /\ faults = 0
    /\ reads = {} /\ returned = {}

-----------------------------------------------------------------------------
(* The service *)

\* build_initial_plan: the file passes the inspection, one parser matches it
\* and the parser reads it.
Importable(a) ==
    /\ ~Inventory[a].refused /\ Readable(Upload[a])
    /\ \E id \in Chosen[build][a] :
           /\ Runnable(Declarations[build], id, Inventory[a].signals, Mode)
           /\ Reading[a][id.version] # None

Import(a) ==
    /\ export[a] = "stored"
    /\ IF Importable(a)
       THEN LET id == CHOOSE id \in Chosen[build][a] : TRUE
                new == Reading[a][id.version]
            IN /\ export' = [export EXCEPT ![a] = "imported"]
               /\ parser' = [parser EXCEPT ![a] = id]
               /\ seen' = [seen EXCEPT ![a] = new]
               /\ reads' = reads \cup {[archive |-> a, target |-> id, planned |-> None,
                                        from |-> None, input |-> Projection(Nothing), old |-> Nothing,
                                        after |-> new]}
       ELSE /\ export' = [export EXCEPT ![a] = "failed"]
            /\ UNCHANGED <<parser, seen, reads>>
    /\ UNCHANGED <<build, blob, runs, deletion, command, reports, clock, started, deleted,
                   faults, returned>>

Deploy ==
    /\ build < Len(Builds)
    /\ build' = build + 1
    /\ UNCHANGED <<export, blob, parser, seen, runs, deletion, command, reports, clock, started,
                   deleted, faults, reads, returned>>

\* The stages of the privacy deletions that a migration can see; several may
\* be open.
PlanDeletion(a) ==
    /\ deleted < MaxDeletions /\ Present(a)
    /\ deletion' = [deletion EXCEPT ![deleted + 1] = [archive |-> a, stage |-> "planned"]]
    /\ deleted' = deleted + 1
    /\ UNCHANGED <<build, export, blob, parser, seen, runs, command, reports, clock, started,
                   faults, reads, returned>>

RemoveRows(i) ==
    /\ deletion[i] # None /\ deletion[i].stage = "planned"
    /\ LET a == deletion[i].archive
       IN /\ export' = [export EXCEPT ![a] = "erased"]
          /\ parser' = [parser EXCEPT ![a] = None]
          /\ seen' = [seen EXCEPT ![a] = Nothing]
          /\ runs' = [runs EXCEPT ![a] = {}]
    /\ deletion' = [deletion EXCEPT ![i].stage = "rows_removed"]
    /\ UNCHANGED <<build, blob, command, reports, clock, started, deleted, faults, reads, returned>>

EraseBytes(i) ==
    /\ deletion[i] # None /\ deletion[i].stage = "rows_removed"
    /\ blob' = [blob EXCEPT ![deletion[i].archive] = FALSE]
    /\ deletion' = [deletion EXCEPT ![i] = None]
    /\ UNCHANGED <<build, export, parser, seen, runs, command, reports, clock, started, deleted,
                   faults, reads, returned>>

\* privacy_blocked: some request is not completed.
Blocked == \E i \in Requests : deletion[i] # None

-----------------------------------------------------------------------------
(* The operators' commands *)

Cmd(o) == command[o]
Set(o, c) == command' = [command EXCEPT ![o] = c]

\* run_parser_migrate, and the first read of ParserMigrationEngine::plan.
Start(o, p, target) ==
    /\ Cmd(o).pc = "idle" /\ started < MaxCommands
    /\ started' = started + 1
    /\ Set(o, [pc |-> "list", operation |-> p, target |-> target, build |-> build,
               blocked |-> Blocked, entries |-> <<>>, plans |-> <<>>, from |-> None,
               stamp |-> 0])
    /\ UNCHANGED <<build, export, blob, parser, seen, runs, deletion, reports, clock, deleted,
                   faults, reads, returned>>

\* The second read: every export of the tenant, with its parser.
ListExports(o) ==
    /\ Cmd(o).pc = "list"
    /\ Set(o, [Cmd(o) EXCEPT !.pc = "plan", !.entries =
           [a \in {a \in Archives : Present(a)} |->
               IF Cmd(o).blocked THEN "privacy_blocked"
               ELSE IF Current(a) = Cmd(o).target THEN "already_current" ELSE "unplanned"]])
    /\ UNCHANGED <<build, export, blob, parser, seen, runs, deletion, reports, clock, started,
                   deleted, faults, reads, returned>>

\* The archives in order: the first one with the given status.
Waiting(o, status) == {a \in DOMAIN Cmd(o).entries : Cmd(o).entries[a] = status}
Turn(o, status, a) == a \in Waiting(o, status) /\ \A b \in Waiting(o, status) : a <= b
Entered(o, a, status, pc) == [Cmd(o) EXCEPT !.pc = pc, !.entries[a] = status]

\* ReparseEngine::plan: the privacy check and the export row.
PlanRow(o, a) ==
    /\ Cmd(o).pc = "plan" /\ Turn(o, "unplanned", a)
    /\ IF Blocked \/ ~Present(a) THEN Set(o, Entered(o, a, "unsupported", "plan"))
       ELSE Set(o, [Cmd(o) EXCEPT !.pc = "read", !.from = Current(a)])
    /\ UNCHANGED <<build, export, blob, parser, seen, runs, deletion, reports, clock, started,
                   deleted, faults, reads, returned>>

\* Mutant: the target need only differ from the current parser.
TargetIsOther(o, a) ==
    LET ids == Compatibles[Cmd(o).build][a]
    IN /\ Cmd(o).from \in Range(ids) /\ Cmd(o).target \in Range(ids)
       /\ Cmd(o).from # Cmd(o).target

\* The target comes after the recorded parser among the compatible ones.
TargetIsNewer(o, a) ==
    LET ids == Compatibles[Cmd(o).build][a]
    IN \E i, j \in DOMAIN ids : i < j /\ ids[i] = Cmd(o).from /\ ids[j] = Cmd(o).target

WithPlan(plans, a, plan) == [b \in DOMAIN plans \cup {a} |-> IF b = a THEN plan ELSE plans[b]]

\* The rest of ReparseEngine::plan: verify, inspect, choose, parse, compare.
PlanRead(o, a) ==
    LET c == Cmd(o)
        reading == Reading[a][c.target.version]
        status == IF ~blob[a] THEN "raw_missing"
                  ELSE IF Inventory[a].refused THEN "failed_inspection"
                  ELSE IF \/ ~TargetIsNewer(o, a)
                          \/ ~Runnable(Declarations[c.build], c.target, Inventory[a].signals, Mode)
                          \/ ~Readable(Upload[a])
                       THEN "unsupported"
                  ELSE IF reading = None THEN "failed_inspection" ELSE "eligible"
    IN /\ c.pc = "read" /\ Turn(o, "unplanned", a)
       /\ IF status # "eligible" THEN Set(o, Entered(o, a, status, "plan"))
          ELSE Set(o, [Entered(o, a, status, "plan") EXCEPT !.plans =
                   WithPlan(c.plans, a, [input |-> Projection(seen[a]), parsed |-> reading, from |-> c.from])])
       /\ UNCHANGED <<build, export, blob, parser, seen, runs, deletion, reports, clock, started,
                      deleted, faults, reads, returned>>

\* The store or the database fails while an archive is planned or applied.
PlanFails(o, a) ==
    /\ Cmd(o).pc = "read" /\ Turn(o, "unplanned", a) /\ faults < MaxFaults
    /\ faults' = faults + 1
    /\ \E status \in {"raw_missing", "failed_inspection", "unsupported"} :
           Set(o, Entered(o, a, status, "plan"))
    /\ UNCHANGED <<build, export, blob, parser, seen, runs, deletion, reports, clock, started,
                   deleted, reads, returned>>

\* A dry run prints the plan and ends; otherwise ParserMigrationEngine::apply
\* returns the report the operation already has, or goes on.
Planned(o) == Cmd(o).pc = "plan" /\ Waiting(o, "unplanned") = {}

DryRun(o) ==
    /\ Planned(o)
    /\ Set(o, Idle)
    /\ UNCHANGED <<build, export, blob, parser, seen, runs, deletion, reports, clock, started,
                   deleted, faults, reads, returned>>

BeginApply(o) ==
    /\ Planned(o)
    /\ LET prior == reports[Cmd(o).operation]
       IN IF prior = None THEN Set(o, [Cmd(o) EXCEPT !.pc = "apply"]) /\ UNCHANGED returned
          ELSE Set(o, Idle) /\ returned' = returned \cup {<<Cmd(o).operation, prior>>}
    /\ UNCHANGED <<build, export, blob, parser, seen, runs, deletion, reports, clock, started,
                   deleted, faults, reads>>

\* prior_report: the run with this plan's execution identity, if any.  The
\* build stands for the registry fingerprint; the raw digest is the archive's.
Prior(o, a) ==
    {r \in runs[a] : r.target = Cmd(o).target /\ r.build = Cmd(o).build
                      /\ r.input = Cmd(o).plans[a].input}

PriorOutcome(o, a) == LET r == CHOOSE r \in Prior(o, a) : TRUE IN Outcome(r.input, r.parsed)

\* ReparseEngine::apply up to the transaction: none of it is locked.
ApplyChecks(o, a) ==
    /\ Cmd(o).pc = "apply" /\ Turn(o, "eligible", a)
    /\ Set(o, IF Blocked THEN Entered(o, a, "failed", "apply")
              ELSE IF Prior(o, a) # {} THEN Entered(o, a, PriorOutcome(o, a), "apply")
              ELSE IF Projection(seen[a]) # Cmd(o).plans[a].input \/ ~Present(a) \/ ~blob[a]
                   THEN Entered(o, a, "failed", "apply")
              ELSE [Cmd(o) EXCEPT !.pc = "begin"])
    /\ UNCHANGED <<build, export, blob, parser, seen, runs, deletion, reports, clock, started,
                   deleted, faults, reads, returned>>

\* The artifacts are stored and the transaction begins; now() is fixed.
BeginTransaction(o) ==
    /\ Cmd(o).pc = "begin"
    /\ clock' = clock + 1
    /\ Set(o, [Cmd(o) EXCEPT !.pc = "commit", !.stamp = clock + 1])
    /\ UNCHANGED <<build, export, blob, parser, seen, runs, deletion, reports, started, deleted,
                   faults, reads, returned>>

\* The run row, the artifacts and the projection.
WriteReparse(o, a) ==
    LET c == Cmd(o)
        plan == c.plans[a]
        after == Persisted(seen[a], plan.parsed)
    IN /\ runs' = [runs EXCEPT ![a] = @ \cup {[target |-> c.target, build |-> c.build,
                      input |-> plan.input, parsed |-> plan.parsed, stamp |-> c.stamp]}]
       /\ seen' = [seen EXCEPT ![a] = after]
       /\ reads' = reads \cup {[archive |-> a, target |-> c.target, planned |-> plan.from,
                                from |-> Current(a), input |-> plan.input, old |-> seen[a],
                                after |-> after]}

\* Mutant: the run row does not need its export.
CommitReparseOrphan(o, a) ==
    /\ Cmd(o).pc = "commit" /\ Turn(o, "eligible", a)
    /\ IF Prior(o, a) # {}
       THEN /\ Set(o, Entered(o, a, PriorOutcome(o, a), "apply"))
            /\ UNCHANGED <<runs, seen, reads>>
       ELSE /\ Set(o, Entered(o, a, Outcome(Cmd(o).plans[a].input, Cmd(o).plans[a].parsed), "apply"))
            /\ WriteReparse(o, a)
    /\ UNCHANGED <<build, export, blob, parser, deletion, reports, clock, started, deleted,
                   faults, returned>>

\* The transaction under the tenant's lock: the identity again, then the
\* writes.  The foreign key refuses the run row of an export that is gone.
CommitReparse(o, a) ==
    /\ Cmd(o).pc = "commit" /\ Turn(o, "eligible", a)
    /\ IF Prior(o, a) # {} \/ ~Present(a)
       THEN /\ Set(o, Entered(o, a, IF Present(a) THEN PriorOutcome(o, a) ELSE "failed", "apply"))
            /\ UNCHANGED <<runs, seen, reads>>
       ELSE /\ Set(o, Entered(o, a, Outcome(Cmd(o).plans[a].input, Cmd(o).plans[a].parsed), "apply"))
            /\ WriteReparse(o, a)
    /\ UNCHANGED <<build, export, blob, parser, deletion, reports, clock, started, deleted,
                   faults, returned>>

\* The commit takes effect and its answer is lost: apply returns the error.
CommitUnanswered(o, a) ==
    /\ Cmd(o).pc = "commit" /\ Turn(o, "eligible", a) /\ faults < MaxFaults
    /\ Prior(o, a) = {} /\ Present(a)
    /\ faults' = faults + 1
    /\ Set(o, Entered(o, a, "failed", "apply"))
    /\ WriteReparse(o, a)
    /\ UNCHANGED <<build, export, blob, parser, deletion, reports, clock, started, deleted,
                   returned>>

ApplyFails(o, a) ==
    /\ Cmd(o).pc \in {"begin", "commit"} /\ Turn(o, "eligible", a) /\ faults < MaxFaults
    /\ faults' = faults + 1
    /\ Set(o, Entered(o, a, "failed", "apply"))
    /\ UNCHANGED <<build, export, blob, parser, seen, runs, deletion, reports, clock, started,
                   deleted, reads, returned>>

\* finished
Finished(c) ==
    [target |-> c.target, entries |-> c.entries,
     status |-> IF "failed" \in Range(c.entries) THEN "partial" ELSE "completed"]

\* Mutant: the command returns the report it made.
FinishOwn(o) ==
    LET c == Cmd(o)
        p == c.operation
        report == Finished(c)
    IN /\ c.pc = "apply" /\ Waiting(o, "eligible") = {}
       /\ reports' = [reports EXCEPT ![p] = IF @ = None THEN report ELSE @]
       /\ returned' = returned \cup {<<p, report>>}
       /\ Set(o, Idle)
       /\ UNCHANGED <<build, export, blob, parser, seen, runs, deletion, clock, started, deleted,
                      faults, reads>>

\* Mutant: the report is written while archives are still eligible.
FinishEarly(o) ==
    LET c == Cmd(o)
        p == c.operation
        report == IF reports[p] = None THEN Finished(c) ELSE reports[p]
    IN /\ c.pc = "apply"
       /\ reports' = [reports EXCEPT ![p] = report]
       /\ returned' = returned \cup {<<p, report>>}
       /\ Set(o, Idle)
       /\ UNCHANGED <<build, export, blob, parser, seen, runs, deletion, clock, started, deleted,
                      faults, reads>>

\* The report is inserted unless the operation has one, and read back.
Finish(o) ==
    LET c == Cmd(o)
        p == c.operation
        report == IF reports[p] = None THEN Finished(c) ELSE reports[p]
    IN /\ c.pc = "apply" /\ Waiting(o, "eligible") = {}
       /\ reports' = [reports EXCEPT ![p] = report]
       /\ returned' = returned \cup {<<p, report>>}
       /\ Set(o, Idle)
       /\ UNCHANGED <<build, export, blob, parser, seen, runs, deletion, clock, started, deleted,
                      faults, reads>>

\* The process ends anywhere; an open transaction is rolled back.
Crash(o) ==
    /\ Cmd(o).pc # "idle" /\ faults < MaxFaults
    /\ faults' = faults + 1
    /\ Set(o, Idle)
    /\ UNCHANGED <<build, export, blob, parser, seen, runs, deletion, reports, clock, started,
                   deleted, reads, returned>>

Next ==
    \/ Deploy
    \/ \E i \in Requests : RemoveRows(i) \/ EraseBytes(i)
    \/ \E a \in Archives : Import(a) \/ PlanDeletion(a)
    \/ \E o \in Operators :
          \/ \E p \in Operations, t \in Targets : Start(o, p, t)
          \/ ListExports(o) \/ DryRun(o) \/ BeginApply(o) \/ BeginTransaction(o)
          \/ Finish(o) \/ Crash(o)
          \/ \E a \in Archives :
                \/ PlanRow(o, a) \/ PlanRead(o, a) \/ PlanFails(o, a) \/ ApplyChecks(o, a)
                \/ CommitReparse(o, a) \/ CommitUnanswered(o, a) \/ ApplyFails(o, a)

Spec == Init /\ [][Next]_vars

-----------------------------------------------------------------------------
(* Properties *)

\* The states of an export, of a command (parser_migration.rs) and of a report.
TypeOK ==
    /\ build \in DOMAIN Builds
    /\ export \in [Archives -> {"stored", "imported", "failed", "erased"}]
    /\ \A i \in Requests : deletion[i] = None \/ deletion[i].stage \in {"planned", "rows_removed"}
    /\ \A o \in Operators : Cmd(o).pc \in {"idle", "list", "plan", "read", "apply", "begin", "commit"}
    /\ \A p \in Operations : reports[p] = None \/ reports[p] \in Reports

\* Files the rules of openspec/specs/safe-archive-intake/spec.md allow, stated
\* on the file as a whole.
Inside(name) ==
    /\ name # <<>> /\ name[1] # ""
    /\ \A i \in DOMAIN name : name[i] # ".." /\ name[i] \notin Drives
    /\ \E i \in DOMAIN name : name[i] \notin {"", "."}
SamePlace(n, m) == Without(n, {"", "."}) = Without(m, {"", "."})
Safe(zip) ==
    /\ Len(zip) <= MaxEntries
    /\ \A i \in DOMAIN zip :
          /\ Inside(zip[i].name) /\ ~zip[i].special
          /\ zip[i].decompressed <= MaxEntry
          /\ zip[i].decompressed <= MaxRatio * zip[i].compressed
          /\ \A j \in DOMAIN zip : i # j => ~SamePlace(zip[i].name, zip[j].name)
    /\ Total([i \in DOMAIN zip |-> zip[i].compressed]) <= MaxCompressed
    /\ Total([i \in DOMAIN zip |-> zip[i].decompressed]) <= MaxDecompressed

\* What does not depend on the state is evaluated where nothing has happened.
Fresh == build = 1 /\ started = 0 /\ deleted = 0 /\ \A a \in Archives : export[a] = "stored"

\* inspect_zip (archive.rs) accepts exactly the safe files, whatever the order
\* of the entries that exhaust a limit, and no parser reads another one: every
\* observed project and conversation comes from a safe file.
OnlySafeFilesAreRead ==
    /\ Fresh =>
          \A zip \in Files : ~Inspected(zip).refused <=> Safe(zip)
    /\ \A a \in Archives : seen[a] # Nothing => Safe(Upload[a])

\* extract_entries (archive.rs) never puts more on disk than the limits allow,
\* whatever the entries inflate to; it succeeds on exactly the safe archives
\* that read_artifacts (reparse.rs) can read, and otherwise nothing stays.
ExtractionIsBounded ==
    Fresh => \A zip \in Files :
        LET done == Extracted(zip, Inspected(zip))
            files == Without(zip, {e \in Range(zip) : e.directory})
        IN /\ done.total <= MaxDecompressed
           /\ ~done.failed <=> Safe(zip) /\ Readable(zip)
           /\ done.staged = IF done.failed THEN <<>> ELSE files

\* compatible_versions (parser_registry.rs) lists a parser's releases oldest
\* first, in whatever order the build registers them.
VersionsAreOrdered ==
    Fresh =>
        \A b \in DOMAIN Builds, a \in Archives :
            LET declarations == Builds[b]
            IN \A order \in Bijection(DOMAIN declarations, DOMAIN declarations) :
                  LET shuffled == [i \in DOMAIN declarations |-> declarations[order[i]]]
                      ids == CompatibleVersions(Registry(shuffled), Inventory[a].signals, Mode)
                  IN \A i, j \in DOMAIN ids :
                        i < j /\ ids[i].name = ids[j].name
                            => Release[ids[i].version] < Release[ids[j].version]

\* A reparse goes to a newer release (archive-reparse/spec.md, "is newer than
\* the parser recorded for the current projection"), unless another command
\* changed the recorded parser after the plan read it.
ReparseUpgrades ==
    \A r \in reads : r.from = r.planned /\ r.from # None =>
        Release[r.from.version] < Release[r.target.version]

\* The durable report of parser_migration.rs tells what happened to the
\* conversations: the target parser changed those of an archive it calls
\* applied, it read those of one it calls unchanged and changed none, it had
\* read those of one it calls current, and a completed migration has no failed
\* archive.  Crashes, a second command with the same operation and a lost commit
\* do not change that; only another command between the check and the lock does.
\* Of projects the report says nothing, against parser_migration.rs, where
\* unchanged means that the "normalized evidence was identical": compare does
\* not look at them, and the reparse of an archive that is called unchanged may
\* have written other evidence of a project.
ReportsAreHonest ==
    \A p \in Operations : reports[p] # None =>
        LET report == reports[p]
            By(a) == {r \in reads : r.archive = a /\ r.target = report.target}
            Told(a, status) == report.entries[a] = status
            Changed(r) == Projection(r.after) # Projection(r.old)
        IN /\ report.status = "completed" <=> ~\E a \in DOMAIN report.entries : Told(a, "failed")
           /\ \A a \in DOMAIN report.entries :
                 /\ Told(a, "applied") => \E r \in By(a) : Projection(r.old) = r.input => Changed(r)
                 /\ Told(a, "unchanged") => \E r \in By(a) : Projection(r.old) = r.input => ~Changed(r)
                 /\ Told(a, "already_current") => By(a) # {}

\* Every command of one operation that returns a report returns the durable
\* one (parser_migration.rs, apply), whichever command wrote it.
CallersAgree == \A answer \in returned : reports[answer[1]] = answer[2]

\* A reparse that was planned before a privacy deletion writes nothing for the
\* deleted archive (reparse.rs, the checks before the lock and the foreign key).
ErasedArchivesStayErased ==
    \A a \in Archives : export[a] = "erased" => seen[a] = Nothing /\ runs[a] = {}

\* A parser that no longer reads a project or conversation takes no evidence
\* away: only a deletion does (reparse.rs, compare and persist_projection).
OnlyDeletionTakesEvidence ==
    [][\A a \in Archives, x \in Records :
          seen[a][x] # None /\ seen'[a][x] = None => export'[a] = "erased"]_vars
=============================================================================
