--------------------------- MODULE MigrationProofs ---------------------------
(***************************************************************************)
(* What Migration keeps of the evidence, for every set of archives, every  *)
(* registry and any number of concurrent commands; what the rows of an     *)
(* archive say of the history of its projections; what the durable report  *)
(* of a migration tells; and that only accepted files are read.            *)
(***************************************************************************)
EXTENDS MigrationInvariants, IntakeProofs

\* Few leaves need arithmetic; those name the SMT solver.
USE Zenon

-----------------------------------------------------------------------------
\* Nothing is imported and no command has run.
LEMMA EvidenceInit == Init => EvidenceInv
<1>1. 1 \in DOMAIN Builds
  BY SomeBuild, SMT DEF SomeBuild
<1>2. QED
  BY <1>1 DEF Init, EvidenceInv, RowsOK, CommandOK

\* A command that does not move keeps what it knows.
LEMMA OtherCommand ==
  ASSUME NEW o \in Operators, CommandOK(o), command'[o] = command[o],
         \A a \in Archives : Settled(a) => Settled(a)'
  PROVE  CommandOK(o)'
  BY DEF CommandOK, Turn, Waiting, Cmd

\* A step that changes no row keeps the rows and what is settled.
LEMMA RowsStay ==
  ASSUME RowsOK, UNCHANGED <<build, export, parser, seen, runs, deletion>>
  PROVE  RowsOK' /\ \A a \in Archives : Settled(a) => Settled(a)'
  BY DEF RowsOK, Settled
\* A step of one command that leaves the rows alone.
LEMMA CommandMoves ==
  ASSUME EvidenceInv, NEW o \in Operators, NEW c,
         command' = [command EXCEPT ![o] = c],
         UNCHANGED <<build, export, parser, seen, runs, deletion>>,
         CommandOK(o)'
  PROVE  EvidenceInv'
<1>1. RowsOK' /\ \A a \in Archives : Settled(a) => Settled(a)'
  BY RowsStay DEF EvidenceInv
<1>2. \A p \in Operators : CommandOK(p)'
  BY <1>1, OtherCommand DEF EvidenceInv
<1>3. QED
  BY <1>1, <1>2 DEF EvidenceInv

-----------------------------------------------------------------------------
(* The steps of a command before it writes *)

\* A new command (migrate) knows nothing yet.
LEMMA StartKeeps ==
  ASSUME EvidenceInv, NEW o \in Operators, NEW p \in Operations, NEW t \in Targets, Start(o, p, t)
  PROVE  EvidenceInv'
<1>1. CommandOK(o)'
  BY SMT DEF EvidenceInv, RowsOK, CommandOK, Start, Set, Fields
<1>2. QED
  BY <1>1, CommandMoves DEF Start, Set

\* The command keeps its plans, has no new eligible archive and reads none.
LEMMA PlansStay ==
  ASSUME NEW o \in Operators, CommandOK(o), command[o] # Idle, UNCHANGED export,
         DOMAIN command'[o] = Fields, command'[o].pc # "read",
         command'[o].build = command[o].build, command'[o].plans = command[o].plans,
         \A a \in Archives : a \in DOMAIN command'[o].entries /\ command'[o].entries[a] = "eligible"
            => a \in DOMAIN command[o].entries /\ command[o].entries[a] = "eligible"
  PROVE  CommandOK(o)'
  BY DEF CommandOK, Settled

\* The command enters the status of one archive.
LEMMA EnteredKeeps ==
  ASSUME EvidenceInv, NEW o \in Operators, NEW a \in Archives, NEW status, NEW pc,
         command[o] # Idle, a \in DOMAIN command[o].entries,
         status # "eligible", pc # "read",
         command' = [command EXCEPT ![o] = Entered(o, a, status, pc)], UNCHANGED export
  PROVE  CommandOK(o)'
<1>1. DOMAIN command[o] = Fields /\ CommandOK(o)
  BY DEF EvidenceInv, CommandOK
<1>2. command'[o] = [command[o] EXCEPT !.pc = pc, !.entries[a] = status]
  BY DEF EvidenceInv, Entered, Cmd
<1>3. /\ DOMAIN command'[o] = Fields
      /\ command'[o].pc = pc
      /\ command'[o].build = command[o].build
      /\ command'[o].plans = command[o].plans
      /\ command'[o].entries = [command[o].entries EXCEPT ![a] = status]
  <2>1. {"pc", "build", "plans", "entries"} \subseteq DOMAIN command[o]
    BY <1>1 DEF Fields
  <2>2. DOMAIN command'[o] = Fields /\ command'[o].pc = pc
    BY <1>1, <1>2, <2>1
  <2>3. command'[o].build = command[o].build /\ command'[o].plans = command[o].plans
    BY <1>2, <2>1
  <2>4. command'[o].entries = [command[o].entries EXCEPT ![a] = status]
    BY <1>2, <2>1
  <2>5. QED
    BY <2>2, <2>3, <2>4
<1>4. QED
  BY <1>1, <1>3, PlansStay

\* The listing of the exports (parser_migration.rs, migrate) only enters
\* statuses of archives that cannot be read.
LEMMA ListExportsKeeps ==
  ASSUME EvidenceInv, NEW o \in Operators, ListExports(o)
  PROVE  EvidenceInv'
<1>1. CommandOK(o) /\ command[o] # Idle /\ DOMAIN command[o] = Fields
  BY SMT DEF EvidenceInv, CommandOK, ListExports, Cmd, Idle
<1>2. /\ DOMAIN command'[o] = Fields
      /\ command'[o].pc = "plan"
      /\ command'[o].build = command[o].build
      /\ command'[o].plans = command[o].plans
      /\ \A a \in DOMAIN command'[o].entries : command'[o].entries[a] # "eligible"
  BY <1>1 DEF EvidenceInv, ListExports, Set, Cmd, Fields
<1>3. CommandOK(o)'
  BY <1>1, <1>2, PlansStay DEF ListExports
<1>4. QED
  BY <1>3, CommandMoves DEF ListExports, Set

\* The command ends.
LEMMA IdleKeeps ==
  ASSUME EvidenceInv, NEW o \in Operators, Set(o, Idle),
         UNCHANGED <<build, export, parser, seen, runs, deletion>>
  PROVE  EvidenceInv'
<1>1. CommandOK(o)'
  BY DEF EvidenceInv, CommandOK, Set
<1>2. QED
  BY <1>1, CommandMoves DEF Set

\* The command goes on to another stage that reads nothing.
LEMMA StageKeeps ==
  ASSUME EvidenceInv, NEW o \in Operators, command[o] # Idle, NEW pc, NEW stamp, pc # "read",
         Set(o, [command[o] EXCEPT !.pc = pc]) \/ Set(o, [command[o] EXCEPT !.pc = pc, !.stamp = stamp]),
         UNCHANGED <<build, export, parser, seen, runs, deletion>>
  PROVE  EvidenceInv'
<1>1. CommandOK(o) /\ DOMAIN command[o] = Fields
  BY DEF EvidenceInv, CommandOK
<1>2. /\ DOMAIN command'[o] = Fields
      /\ command'[o].pc = pc
      /\ command'[o].build = command[o].build
      /\ command'[o].plans = command[o].plans
      /\ command'[o].entries = command[o].entries
  BY <1>1 DEF EvidenceInv, Set, Fields
<1>3. CommandOK(o)'
  BY <1>1, <1>2, PlansStay
<1>4. QED
  BY <1>3, CommandMoves DEF Set

\* A command whose turn it is works on an archive of its list.
LEMMA AtWork ==
  ASSUME NEW o, NEW a, NEW status, command[o].pc # "idle", Turn(o, status, a)
  PROVE  command[o] # Idle /\ a \in DOMAIN command[o].entries
<1>1. command[o] # Idle
  BY SMT DEF Idle
<1>2. a \in DOMAIN command[o].entries
  BY DEF Turn, Waiting, Cmd
<1>3. QED
  BY <1>1, <1>2

\* The command enters a status that is not eligible and goes on.
LEMMA StatusKeeps ==
  ASSUME EvidenceInv, NEW o \in Operators, NEW a \in Archives, NEW status, NEW pc,
         command[o] # Idle, a \in DOMAIN command[o].entries, status # "eligible", pc # "read",
         Set(o, Entered(o, a, status, pc)),
         UNCHANGED <<build, export, parser, seen, runs, deletion>>
  PROVE  EvidenceInv'
<1>1. CommandOK(o)'
  BY EnteredKeeps DEF Set
<1>2. QED
  BY <1>1, CommandMoves DEF Set

\* Only an imported archive has a parser.
LEMMA ParserOfImported ==
  ASSUME RowsOK, NEW a \in Archives, Current(a) # None
  PROVE  Settled(a)
  BY DEF RowsOK, Current, Settled

\* The row a plan starts from (reparse.rs, plan) names an imported archive.
LEMMA PlanRowKeeps ==
  ASSUME EvidenceInv, NEW o \in Operators, NEW a \in Archives, PlanRow(o, a)
  PROVE  EvidenceInv'
<1>1. /\ CommandOK(o) /\ command[o] # Idle /\ DOMAIN command[o] = Fields
      /\ a \in DOMAIN command[o].entries /\ Turn(o, "unplanned", a)
  <2>1. command[o].pc = "plan" /\ Turn(o, "unplanned", a)
    BY DEF PlanRow, Cmd
  <2>2. QED
    BY <2>1, AtWork DEF EvidenceInv, CommandOK
<1>2. CASE Set(o, Entered(o, a, "unsupported", "plan"))
  BY <1>1, <1>2, StatusKeeps DEF PlanRow
<1>3. CASE Set(o, [Cmd(o) EXCEPT !.pc = "read", !.from = Current(a)])
  <2>1. /\ DOMAIN command'[o] = Fields
        /\ command'[o].from = Current(a)
        /\ command'[o].build = command[o].build
        /\ command'[o].plans = command[o].plans
        /\ command'[o].entries = command[o].entries
    BY <1>1, <1>3 DEF EvidenceInv, Set, Cmd, Fields
  <2>2. Current(a) # None => Settled(a)
    BY ParserOfImported DEF EvidenceInv
  <2>3. \A b \in Archives : Turn(o, "unplanned", b)' => b = a
    <3> SUFFICES ASSUME NEW b \in Archives, Turn(o, "unplanned", b)'
                 PROVE  b = a
      OBVIOUS
    <3>1. Turn(o, "unplanned", b)
      BY <2>1 DEF Turn, Waiting, Cmd
    <3>2. a <= b /\ b <= a
      BY <1>1, <3>1 DEF Turn
    <3>3. QED
      BY <3>2, ArchivesAreOrdered, SMT DEF ArchivesAreOrdered
  <2>4. \A b \in Archives : Settled(b)' <=> Settled(b)
    BY DEF PlanRow, Settled
  <2>5. CommandOK(o)'
    BY <1>1, <2>1, <2>2, <2>3, <2>4 DEF CommandOK
  <2>6. QED
    BY <1>3, <2>5, CommandMoves DEF PlanRow, Set
<1>4. QED
  BY <1>2, <1>3 DEF PlanRow

\* The parser a plan started from was one of the build's.
LEMMA NewerThanSome ==
  ASSUME NEW o \in Operators, NEW a \in Archives, TargetIsNewer(o, a),
         command[o].build \in DOMAIN Builds
  PROVE  command[o].from # None
  BY ParsersAreReal DEF ParsersAreReal, TargetIsNewer, Cmd

\* A plan that was read and parsed (reparse.rs, plan) makes its archive
\* eligible, and that archive was imported.
LEMMA PlanReadKeeps ==
  ASSUME EvidenceInv, NEW o \in Operators, NEW a \in Archives, PlanRead(o, a)
  PROVE  EvidenceInv'
<1>1. /\ CommandOK(o) /\ command[o] # Idle /\ DOMAIN command[o] = Fields
      /\ a \in DOMAIN command[o].entries /\ Turn(o, "unplanned", a)
      /\ command[o].pc = "read" /\ command[o].build \in DOMAIN Builds
  <2>1. command[o].pc = "read" /\ Turn(o, "unplanned", a)
    BY DEF PlanRead, Cmd
  <2>2. QED
    BY <2>1, AtWork DEF EvidenceInv, CommandOK
<1>2. UNCHANGED <<build, export, parser, seen, runs, deletion>>
  BY DEF PlanRead
<1>3. CASE \E status \in {"raw_missing", "failed_inspection", "unsupported"} :
              Set(o, Entered(o, a, status, "plan"))
  BY <1>1, <1>2, <1>3, StatusKeeps
<1>4. CASE /\ TargetIsNewer(o, a)
           /\ \E plan : Set(o, [Entered(o, a, "eligible", "plan") EXCEPT !.plans = WithPlan(command[o].plans, a, plan)])
  <2>1. PICK plan : Set(o, [Entered(o, a, "eligible", "plan") EXCEPT !.plans = WithPlan(command[o].plans, a, plan)])
    BY <1>4
  <2> DEFINE e == Entered(o, a, "eligible", "plan")
  <2>2. /\ DOMAIN e = Fields /\ e.pc = "plan" /\ e.build = command[o].build
        /\ e.plans = command[o].plans
        /\ e.entries = [command[o].entries EXCEPT ![a] = "eligible"]
    BY <1>1 DEF Entered, Cmd, Fields
  <2>3. command'[o] = [e EXCEPT !.plans = WithPlan(command[o].plans, a, plan)]
    BY <2>1 DEF EvidenceInv, Set
  <2> HIDE DEF e
  <2>4. /\ DOMAIN command'[o] = Fields
        /\ command'[o].pc = "plan"
        /\ command'[o].build = command[o].build
        /\ command'[o].plans = WithPlan(command[o].plans, a, plan)
        /\ command'[o].entries = [command[o].entries EXCEPT ![a] = "eligible"]
    BY <2>2, <2>3 DEF Fields
  <2>5. DOMAIN command'[o].plans = {a} \cup DOMAIN command[o].plans
    BY <2>4 DEF WithPlan
  <2>6. Settled(a)
    BY <1>1, <1>4, NewerThanSome DEF CommandOK
  <2>7. \A b \in Archives : Settled(b)' <=> Settled(b)
    BY <1>2 DEF Settled
  <2>8. CommandOK(o)'
    BY <1>1, <2>4, <2>5, <2>6, <2>7 DEF CommandOK
  <2>9. QED
    BY <1>2, <2>1, <2>8, CommandMoves DEF Set
<1>5. QED
  BY <1>3, <1>4 DEF PlanRead, Cmd

\* A plan that fails enters a failure and no plan.
LEMMA PlanFailsKeeps ==
  ASSUME EvidenceInv, NEW o \in Operators, NEW a \in Archives, PlanFails(o, a)
  PROVE  EvidenceInv'
<1>1. command[o] # Idle /\ a \in DOMAIN command[o].entries
  <2>1. command[o].pc = "read" /\ Turn(o, "unplanned", a)
    BY DEF PlanFails, Cmd
  <2>2. QED
    BY <2>1, AtWork
<1>2. QED
  BY <1>1, StatusKeeps DEF PlanFails

\* The command turns from planning to applying (migrate).
LEMMA BeginApplyKeeps ==
  ASSUME EvidenceInv, NEW o \in Operators, BeginApply(o)
  PROVE  EvidenceInv'
<1>1. command[o] # Idle
  BY SMT DEF BeginApply, Planned, Cmd, Idle
<1>2. CASE Set(o, Idle)
  BY <1>2, IdleKeeps DEF BeginApply
<1>3. CASE Set(o, [command[o] EXCEPT !.pc = "apply"])
  BY <1>1, <1>3, StageKeeps DEF BeginApply
<1>4. QED
  BY <1>2, <1>3 DEF BeginApply, Cmd

\* The outcome of a reparse is never "eligible".
LEMMA OutcomesDiffer ==
  ASSUME NEW o, NEW a
  PROVE  PriorOutcome(o, a) # "eligible"
  BY DEF PriorOutcome, Outcome

\* The checks of apply, made before the tenant lock, write no row.
LEMMA ApplyChecksKeeps ==
  ASSUME EvidenceInv, NEW o \in Operators, NEW a \in Archives, ApplyChecks(o, a)
  PROVE  EvidenceInv'
<1>1. command[o] # Idle /\ a \in DOMAIN command[o].entries
  <2>1. command[o].pc = "apply" /\ Turn(o, "eligible", a)
    BY DEF ApplyChecks, Cmd
  <2>2. QED
    BY <2>1, AtWork
<1>2. UNCHANGED <<build, export, parser, seen, runs, deletion>>
  BY DEF ApplyChecks
<1>3. CASE Set(o, Entered(o, a, "failed", "apply"))
  BY <1>1, <1>2, <1>3, StatusKeeps
<1>4. CASE Set(o, Entered(o, a, PriorOutcome(o, a), "apply"))
  BY <1>1, <1>2, <1>4, StatusKeeps, OutcomesDiffer
<1>5. CASE Set(o, [command[o] EXCEPT !.pc = "begin"])
  BY <1>1, <1>2, <1>5, StageKeeps
<1>6. QED
  BY <1>3, <1>4, <1>5 DEF ApplyChecks, Cmd

\* The transaction of apply takes the tenant lock and writes no row yet.
LEMMA BeginTransactionKeeps ==
  ASSUME EvidenceInv, NEW o \in Operators, BeginTransaction(o)
  PROVE  EvidenceInv'
<1>1. command[o] # Idle
  BY SMT DEF BeginTransaction, Cmd, Idle
<1>2. QED
  BY <1>1, StageKeeps DEF BeginTransaction, Cmd

\* A failed apply rolls back and enters the failure.
LEMMA ApplyFailsKeeps ==
  ASSUME EvidenceInv, NEW o \in Operators, NEW a \in Archives, ApplyFails(o, a)
  PROVE  EvidenceInv'
<1>1. command[o] # Idle /\ a \in DOMAIN command[o].entries
  <2>1. command[o].pc \in {"begin", "commit"} /\ Turn(o, "eligible", a)
    BY DEF ApplyFails, Cmd
  <2>2. QED
    BY <2>1, AtWork
<1>2. QED
  BY <1>1, StatusKeeps DEF ApplyFails

-----------------------------------------------------------------------------
(* The steps that change rows *)

\* A step of the service: no command moves and nothing settled is unsettled.
LEMMA ServiceKeeps ==
  ASSUME EvidenceInv, RowsOK', UNCHANGED command,
         \A a \in Archives : Settled(a) => Settled(a)'
  PROVE  EvidenceInv'
<1>1. \A o \in Operators : CommandOK(o)'
  BY OtherCommand DEF EvidenceInv
<1>2. QED
  BY <1>1 DEF EvidenceInv

\* The initial import settles an archive (initial_import.rs).
LEMMA ImportKeeps ==
  ASSUME EvidenceInv, NEW a \in Archives, Import(a)
  PROVE  EvidenceInv'
<1>1. RowsOK' /\ \A b \in Archives : Settled(b) => Settled(b)'
  <2>1. CASE export' = [export EXCEPT ![a] = "imported"]
    BY <2>1 DEF EvidenceInv, RowsOK, Import, Settled
  <2>2. CASE export' = [export EXCEPT ![a] = "failed"] /\ UNCHANGED <<parser, seen, reads>>
    BY <2>2 DEF EvidenceInv, RowsOK, Import, Settled
  <2>3. QED
    BY <2>1, <2>2 DEF Import
<1>2. QED
  BY <1>1, ServiceKeeps DEF Import

\* A deletion takes the rows of an archive and records that it did (rows.rs).
LEMMA RemoveRowsKeeps ==
  ASSUME EvidenceInv, NEW i \in Requests, RemoveRows(i)
  PROVE  EvidenceInv'
<1>1. RowsOK' /\ \A b \in Archives : Settled(b) => Settled(b)'
  <2>1. /\ deletion[i].archive \in Archives /\ DOMAIN deletion' = Requests
        /\ \A j \in Requests : deletion'[j] # None => deletion'[j].archive \in Archives
    BY SMT DEF EvidenceInv, RowsOK, RemoveRows
  <2>2. QED
    BY <2>1 DEF EvidenceInv, RowsOK, RemoveRows, Settled
<1>2. QED
  BY <1>1, ServiceKeeps DEF RemoveRows

\* The other steps of the service touch no row of an archive.
LEMMA OtherServiceKeeps ==
  ASSUME EvidenceInv, Deploy \/ (\E i \in Requests : EraseBytes(i)) \/ \E a \in Archives : PlanDeletion(a)
  PROVE  EvidenceInv'
<1>1. RowsOK' /\ \A b \in Archives : Settled(b) => Settled(b)'
  <2>1. CASE Deploy
    BY <2>1, SomeBuild, SMT DEF SomeBuild, EvidenceInv, RowsOK, Deploy, Settled
  <2>2. CASE \E i \in Requests : EraseBytes(i)
    BY <2>2 DEF EvidenceInv, RowsOK, EraseBytes, Settled
  <2>3. CASE \E a \in Archives : PlanDeletion(a)
    BY <2>3, SMT DEF EvidenceInv, RowsOK, PlanDeletion, Settled
  <2>4. QED
    BY <2>1, <2>2, <2>3
<1>2. QED
  BY <1>1, ServiceKeeps DEF Deploy, EraseBytes, PlanDeletion

\* A reparse that is written finds its archive imported: it has a plan, and
\* its row is there.
LEMMA WriteKeeps ==
  ASSUME EvidenceInv, NEW o \in Operators, NEW a \in Archives, NEW status,
         command[o] # Idle, Turn(o, "eligible", a), Present(a), status # "eligible",
         Set(o, Entered(o, a, status, "apply")), WriteReparse(o, a),
         UNCHANGED <<build, export, parser, deletion>>
  PROVE  EvidenceInv' /\ export[a] = "imported"
<1>1. CommandOK(o) /\ a \in DOMAIN command[o].entries /\ a \in DOMAIN command[o].plans
  BY DEF EvidenceInv, CommandOK, Turn, Waiting, Cmd
<1>2. export[a] = "imported"
  BY <1>1 DEF CommandOK, Settled, Present
<1>3. RowsOK' /\ \A b \in Archives : Settled(b) => Settled(b)'
  BY <1>2 DEF EvidenceInv, RowsOK, WriteReparse, Settled
<1>4. CommandOK(o)'
  BY <1>1, EnteredKeeps DEF Set
<1>5. \A p \in Operators : CommandOK(p)'
  BY <1>3, <1>4, OtherCommand DEF EvidenceInv, Set
<1>6. QED
  BY <1>2, <1>3, <1>5 DEF EvidenceInv, Set

\* A commit of a reparse, acknowledged or not, keeps the invariant.
LEMMA CommitKeeps ==
  ASSUME EvidenceInv, NEW o \in Operators, NEW a \in Archives,
         CommitReparse(o, a) \/ CommitUnanswered(o, a)
  PROVE  EvidenceInv'
<1>1. command[o] # Idle /\ Turn(o, "eligible", a) /\ a \in DOMAIN command[o].entries
  <2>1. command[o].pc = "commit" /\ Turn(o, "eligible", a)
    BY DEF CommitReparse, CommitUnanswered, Cmd
  <2>2. QED
    BY <2>1, AtWork
<1>2. CASE CommitReparse(o, a) /\ (Prior(o, a) # {} \/ ~Present(a))
  <2>1. CASE Set(o, Entered(o, a, PriorOutcome(o, a), "apply"))
    BY <1>1, <1>2, <2>1, StatusKeeps, OutcomesDiffer DEF CommitReparse
  <2>2. CASE Set(o, Entered(o, a, "failed", "apply"))
    BY <1>1, <1>2, <2>2, StatusKeeps DEF CommitReparse
  <2>3. QED
    BY <1>2, <2>1, <2>2 DEF CommitReparse
<1>3. CASE CommitReparse(o, a) /\ ~(Prior(o, a) # {} \/ ~Present(a))
  <2>1. Outcome(Cmd(o).plans[a].input, Cmd(o).plans[a].parsed) # "eligible"
    BY DEF Outcome
  <2>2. QED
    BY <1>1, <1>3, <2>1, WriteKeeps DEF CommitReparse
<1>4. CASE CommitUnanswered(o, a)
  BY <1>1, <1>4, WriteKeeps DEF CommitUnanswered
<1>5. QED
  BY <1>2, <1>3, <1>4

-----------------------------------------------------------------------------
\* Every step keeps the invariant: one case for each action.
LEMMA EvidenceNext == EvidenceInv /\ [Next]_vars => EvidenceInv'
<1> SUFFICES ASSUME EvidenceInv, [Next]_vars
             PROVE  EvidenceInv'
  OBVIOUS
<1>1. CASE UNCHANGED vars
  <2>1. RowsOK' /\ \A a \in Archives : Settled(a) => Settled(a)'
    BY <1>1, RowsStay DEF EvidenceInv, vars
  <2>2. QED
    BY <1>1, <2>1, ServiceKeeps DEF vars
<1>2. CASE Deploy \/ (\E i \in Requests : EraseBytes(i)) \/ \E a \in Archives : PlanDeletion(a)
  BY <1>2, OtherServiceKeeps
<1>3. CASE \E i \in Requests : RemoveRows(i)
  BY <1>3, RemoveRowsKeeps
<1>4. CASE \E a \in Archives : Import(a)
  BY <1>4, ImportKeeps
<1>5. ASSUME NEW o \in Operators,
             \/ \E p \in Operations, t \in Targets : Start(o, p, t)
             \/ ListExports(o) \/ BeginApply(o) \/ BeginTransaction(o)
      PROVE  EvidenceInv'
  BY <1>5, StartKeeps, ListExportsKeeps, BeginApplyKeeps, BeginTransactionKeeps
<1>6. ASSUME NEW o \in Operators, DryRun(o) \/ Finish(o) \/ Crash(o)
      PROVE  EvidenceInv'
  BY <1>6, IdleKeeps DEF DryRun, Finish, Crash
<1>7. ASSUME NEW o \in Operators, NEW a \in Archives,
             \/ PlanRow(o, a) \/ PlanRead(o, a) \/ PlanFails(o, a) \/ ApplyChecks(o, a)
             \/ CommitReparse(o, a) \/ CommitUnanswered(o, a) \/ ApplyFails(o, a)
      PROVE  EvidenceInv'
  BY <1>7, PlanRowKeeps, PlanReadKeeps, PlanFailsKeeps, ApplyChecksKeeps, CommitKeeps, ApplyFailsKeeps
<1>8. QED
  BY <1>1, <1>2, <1>3, <1>4, <1>5, <1>6, <1>7 DEF Next

\* The inductive invariant holds in every reachable state.
LEMMA EvidenceAlways == Spec => []EvidenceInv
<1>1. QED
  BY EvidenceInit, EvidenceNext, PTL DEF Spec

\* A reparse never writes for an archive that a deletion erased, although it
\* checks for deletions before it takes the lock (reparse.rs, apply).
THEOREM ErasedStayErased == Spec => []ErasedArchivesStayErased
<1>1. EvidenceInv => ErasedArchivesStayErased
  BY DEF EvidenceInv, RowsOK, ErasedArchivesStayErased
<1>2. QED
  BY <1>1, EvidenceAlways, PTL

-----------------------------------------------------------------------------
\* What an action does to the evidence of one archive.
Kept(a, x) == seen[a][x] # None /\ seen'[a][x] = None => export'[a] = "erased"

LEMMA WriteTakesNothing ==
  ASSUME EvidenceInv, NEW o \in Operators, NEW b \in Archives, WriteReparse(o, b)
  PROVE  \A a \in Archives, x \in Records : Kept(a, x)
  BY DEF EvidenceInv, RowsOK, WriteReparse, Persisted, Kept

LEMMA EvidenceIsKept ==
  ASSUME EvidenceInv, Next
  PROVE  \A a \in Archives, x \in Records : Kept(a, x)
<1>1. CASE UNCHANGED seen
  BY <1>1 DEF Kept
<1>2. CASE \E b \in Archives : Import(b)
  <2>1. PICK b \in Archives : Import(b)
    BY <1>2
  <2>2. seen[b] = Nothing
    BY <2>1 DEF EvidenceInv, RowsOK, Import
  <2>3. \A a \in Archives : a # b => seen'[a] = seen[a]
    BY <2>1 DEF EvidenceInv, RowsOK, Import
  <2>4. QED
    BY <2>2, <2>3 DEF Kept, Nothing
<1>3. CASE \E i \in Requests : RemoveRows(i)
  BY <1>3 DEF EvidenceInv, RowsOK, RemoveRows, Kept
<1>4. CASE \E o \in Operators, b \in Archives : WriteReparse(o, b)
  BY <1>4, WriteTakesNothing
<1>5. QED
  <2>1. CASE \E o \in Operators, b \in Archives : CommitReparse(o, b) \/ CommitUnanswered(o, b)
    BY <1>1, <1>4, <2>1 DEF CommitReparse, CommitUnanswered
  <2>2. CASE Deploy \/ (\E i \in Requests : EraseBytes(i)) \/ \E a \in Archives : PlanDeletion(a)
    BY <1>1, <2>2 DEF Deploy, EraseBytes, PlanDeletion
  <2>3. ASSUME NEW o \in Operators,
               \/ \E p \in Operations, t \in Targets : Start(o, p, t)
               \/ ListExports(o) \/ DryRun(o) \/ BeginApply(o) \/ BeginTransaction(o)
               \/ Finish(o) \/ Crash(o)
        PROVE  UNCHANGED seen
    BY <2>3 DEF Start, ListExports, DryRun, BeginApply, BeginTransaction, Finish, Crash
  <2>4. ASSUME NEW o \in Operators, NEW b \in Archives,
               PlanRow(o, b) \/ PlanRead(o, b) \/ PlanFails(o, b) \/ ApplyChecks(o, b) \/ ApplyFails(o, b)
        PROVE  UNCHANGED seen
    BY <2>4 DEF PlanRow, PlanRead, PlanFails, ApplyChecks, ApplyFails
  <2>5. QED
    BY <1>1, <1>2, <1>3, <2>1, <2>2, <2>3, <2>4 DEF Next

\* A parser that no longer reads a project or conversation takes no evidence
\* away: only a deletion does (reparse.rs, compare and persist_projection).
THEOREM EvidenceStays == Spec => OnlyDeletionTakesEvidence
<1>1. EvidenceInv /\ [Next]_vars =>
        [\A a \in Archives, x \in Records :
            seen[a][x] # None /\ seen'[a][x] = None => export'[a] = "erased"]_vars
  BY EvidenceIsKept DEF Kept
<1>2. QED
  BY <1>1, EvidenceAlways, PTL DEF Spec, OnlyDeletionTakesEvidence

-----------------------------------------------------------------------------
(* What the history shows, it shows for good *)

\* More history shows no less.
LEMMA ShownGrows ==
  ASSUME NEW rs, NEW more, rs \subseteq more, NEW entries, NEW t, Shown(rs, entries, t)
  PROVE  Shown(more, entries, t)
  BY SMT DEF Shown, ShownAt, By

\* A command that does not move stays informed.
LEMMA InformedGrows ==
  ASSUME NEW rs, NEW more, rs \subseteq more, NEW now \in Nat, NEW later \in Nat, now <= later,
         NEW c, InformedCommand(rs, now, c)
  PROVE  InformedCommand(more, later, c)
<1>1. c.pc # "list" => Shown(more, c.entries, c.target)
  BY ShownGrows DEF InformedCommand
<1>2. c.pc = "commit" => c.stamp \in Nat /\ c.stamp <= later
  BY SMT DEF InformedCommand
<1> QED
  BY <1>1, <1>2 DEF InformedCommand

\* A report stays true.
LEMMA ReportGrows ==
  ASSUME NEW rs, NEW more, rs \subseteq more, NEW report, ReportOK(rs, report)
  PROVE  ReportOK(more, report)
  BY ShownGrows DEF ReportOK

\* A run stays recorded.
LEMMA RunGrows ==
  ASSUME NEW rs, NEW more, rs \subseteq more, NEW now \in Nat, NEW later \in Nat, now <= later,
         NEW a, NEW run, RunIsRead(rs, now, a, run)
  PROVE  RunIsRead(more, later, a, run)
<1>1. run.stamp \in Nat /\ run.stamp <= later
  BY SMT DEF RunIsRead
<1>2. \E r \in By(more, a, run.target) :
         r.input = run.input /\ r.after = Persisted(r.old, run.parsed)
  BY DEF RunIsRead, By
<1> QED
  BY <1>1, <1>2 DEF RunIsRead

\* compare and persist_projection agree: a reparse is unchanged exactly when
\* what the archive shows of its conversations is.
LEMMA OutcomeIsTrue ==
  ASSUME NEW old, NEW new
  PROVE  /\ Outcome(Projection(old), new) = "applied" => Projection(Persisted(old, new)) # Projection(old)
         /\ Outcome(Projection(old), new) = "unchanged" => Projection(Persisted(old, new)) = Projection(old)
<1>1. \A c \in Conversations : Projection(old)[c] = old[c]
  BY DEF Projection
<1>2. \A c \in Conversations :
         Projection(Persisted(old, new))[c] = IF new[c] = None THEN old[c] ELSE new[c]
  BY DEF Projection, Persisted, Records
<1>3. CASE Changes(Projection(old), new) = {}
  <2>1. \A c \in Conversations : Projection(Persisted(old, new))[c] = old[c]
    BY <1>1, <1>2, <1>3 DEF Changes
  <2>2. Projection(Persisted(old, new)) = Projection(old)
    <3>1. \A e, g : (\A c \in Conversations : Projection(e)[c] = Projection(g)[c]) => Projection(e) = Projection(g)
      BY DEF Projection
    <3> QED
      BY <1>1, <2>1, <3>1
  <2> QED
    BY <1>3, <2>2 DEF Outcome
<1>4. CASE Changes(Projection(old), new) # {}
  <2>1. PICK c \in Conversations : new[c] # None /\ new[c] # Projection(old)[c]
    BY <1>4 DEF Changes
  <2> QED
    BY <1>2, <1>4, <2>1 DEF Outcome
<1> QED
  BY <1>3, <1>4

\* What a run says of its archive is what happened when it was committed.
LEMMA RunShows ==
  ASSUME NEW rs, NEW now, NEW a, NEW run, RunIsRead(rs, now, a, run)
  PROVE  /\ ShownAt(rs, a, run.target, Outcome(run.input, run.parsed))
         /\ Outcome(run.input, run.parsed) \in {"applied", "unchanged"}
<1>1. PICK r \in By(rs, a, run.target) :
         r.input = run.input /\ r.after = Persisted(r.old, run.parsed)
  BY DEF RunIsRead
<1>2. Outcome(run.input, run.parsed) \in {"applied", "unchanged"}
  BY DEF Outcome
<1>3. Projection(r.old) = r.input => /\ Outcome(run.input, run.parsed) = "applied" => Changed(r)
                                     /\ Outcome(run.input, run.parsed) = "unchanged" => ~Changed(r)
  <2>1. /\ Outcome(Projection(r.old), run.parsed) = "applied" =>
              Projection(Persisted(r.old, run.parsed)) # Projection(r.old)
        /\ Outcome(Projection(r.old), run.parsed) = "unchanged" =>
              Projection(Persisted(r.old, run.parsed)) = Projection(r.old)
    BY OutcomeIsTrue
  <2>2. Changed(r) <=> Projection(Persisted(r.old, run.parsed)) # Projection(r.old)
    BY <1>1 DEF Changed
  <2> QED
    BY <1>1, <2>1, <2>2
<1> QED
  BY <1>1, <1>2, <1>3 DEF ShownAt

\* The parser an archive is listed with has read it.
LEMMA CurrentIsRead ==
  ASSUME HistoryOK, NEW a \in Archives, Current(a) # None
  PROVE  By(reads, a, Current(a)) # {}
<1>1. ArchiveOK(a)
  BY DEF HistoryOK
<1>2. CASE runs[a] = {}
  BY <1>1, <1>2 DEF ArchiveOK, Current
<1>3. CASE runs[a] # {}
  <2> DEFINE newest == CHOOSE r \in runs[a] : \A s \in runs[a] : s.stamp <= r.stamp
  <2>1. \E r \in runs[a] : \A s \in runs[a] : s.stamp <= r.stamp
    BY <1>1, <1>3 DEF ArchiveOK, HasNewest
  <2>2. newest \in runs[a]
    BY <2>1
  <2>3. Current(a) = newest.target
    BY <1>3 DEF Current
  <2> HIDE DEF newest
  <2> QED
    BY <1>1, <2>2, <2>3 DEF ArchiveOK, RunIsRead
<1> QED
  BY <1>2, <1>3

-----------------------------------------------------------------------------
(* What a step leaves alone *)

\* The history grows and time does not go back.
Advances == reads \subseteq reads' /\ clock' \in Nat /\ clock <= clock'

\* The history and the time may also stay.
LEMMA NothingElapses ==
  ASSUME ReportInv, UNCHANGED <<reads, clock>>
  PROVE  Advances
<1>1. clock \in Nat
  BY DEF ReportInv, Accounts, HistoryOK
<1> QED
  BY <1>1, SMT DEF Advances

\* An archive whose rows do not change.
LEMMA ArchiveStays ==
  ASSUME HistoryOK, Advances, NEW a \in Archives,
         parser'[a] = parser[a], runs'[a] = runs[a]
  PROVE  ArchiveOK(a)'
<1>1. ArchiveOK(a) /\ clock \in Nat
  BY DEF HistoryOK
<1>2. HasNewest(runs'[a])
  BY <1>1 DEF ArchiveOK
<1>3. parser'[a] # None => By(reads', a, parser'[a]) # {}
  BY <1>1 DEF ArchiveOK, By, Advances
<1>4. \A run \in runs'[a] : RunIsRead(reads', clock', a, run)
  BY <1>1, RunGrows DEF ArchiveOK, Advances
<1> QED
  BY <1>2, <1>3, <1>4 DEF ArchiveOK

\* No row changes.
LEMMA HistoryStays ==
  ASSUME HistoryOK, UNCHANGED <<export, deletion, parser, seen, runs, reads>>, Advances
  PROVE  HistoryOK'
<1>1. \A a \in Archives : ArchiveOK(a)'
  BY ArchiveStays
<1> QED
  BY <1>1 DEF HistoryOK, Advances

\* A command that does not move.
LEMMA OtherInformed ==
  ASSUME HistoryOK, Advances, NEW o \in Operators, Informed(o), command'[o] = command[o]
  PROVE  Informed(o)'
<1>1. clock \in Nat
  BY DEF HistoryOK
<1> QED
  BY <1>1, InformedGrows DEF Informed, Advances

\* No report is written and none is returned.
LEMMA ReportsStay ==
  ASSUME ReportsOK, reads \subseteq reads', UNCHANGED <<reports, returned>>
  PROVE  ReportsOK'
  BY ReportGrows DEF ReportsOK

\* A step of one command that changes no row.
LEMMA CommandAccounts ==
  ASSUME ReportInv, NEW o \in Operators, NEW c, Set(o, c),
         UNCHANGED <<export, deletion, parser, seen, runs, reads>>, Advances,
         c = Idle \/ InformedCommand(reads, clock', c)
  PROVE  HistoryOK' /\ \A p \in Operators : Informed(p)'
<1>1. HistoryOK /\ DOMAIN command = Operators /\ \A p \in Operators : Informed(p)
  BY DEF ReportInv, EvidenceInv, Accounts
<1>2. HistoryOK'
  BY <1>1, HistoryStays
<1>3. Informed(o)'
  BY <1>1 DEF Informed, Set
<1>4. \A p \in Operators : p # o => Informed(p)'
  BY <1>1, OtherInformed DEF Set
<1> QED
  BY <1>2, <1>3, <1>4

\* A step of the service: no command moves and no report is written.
LEMMA ServiceAccounts ==
  ASSUME ReportInv, Advances, HistoryOK', UNCHANGED <<command, reports, returned>>
  PROVE  Accounts'
<1>1. \A p \in Operators : Informed(p)'
  BY OtherInformed DEF ReportInv, Accounts
<1>2. ReportsOK'
  BY ReportsStay DEF ReportInv, Accounts, Advances
<1> QED
  BY <1>1, <1>2 DEF Accounts

\* A command that enters what it was shown.
LEMMA EnteredInforms ==
  ASSUME NEW rs, NEW now, NEW c, DOMAIN c = Fields, InformedCommand(rs, now, c), c.pc # "list",
         NEW a \in DOMAIN c.entries, NEW status \in Statuses, NEW pc,
         \/ pc = "plan"
         \/ pc = "apply" /\ c.pc \in {"apply", "begin", "commit"} /\ status # "unplanned",
         ShownAt(rs, a, c.target, status)
  PROVE  InformedCommand(rs, now, [c EXCEPT !.pc = pc, !.entries[a] = status])
<1> DEFINE d == [c EXCEPT !.pc = pc, !.entries[a] = status]
<1>1. /\ d.operation = c.operation /\ d.target = c.target /\ d.pc = pc
      /\ d.plans = c.plans /\ d.build = c.build
      /\ d.entries = [c.entries EXCEPT ![a] = status]
  BY DEF Fields
<1> HIDE DEF d
<1>2. DOMAIN d.entries = DOMAIN c.entries
  BY <1>1
<1>3. \A b \in DOMAIN d.entries : d.entries[b] = IF b = a THEN status ELSE c.entries[b]
  BY <1>1
<1>4. d.entries \in [DOMAIN d.entries -> Statuses]
  BY <1>1, <1>2, <1>3 DEF InformedCommand
<1>5. Shown(rs, d.entries, d.target)
  BY <1>1, <1>2, <1>3 DEF InformedCommand, Shown
<1>6. pc = "apply" => \A b \in DOMAIN d.entries : d.entries[b] # "unplanned"
  BY <1>2, <1>3 DEF InformedCommand
<1>7. InformedCommand(rs, now, d)
  BY <1>1, <1>2, <1>4, <1>5, <1>6 DEF InformedCommand
<1> QED
  BY <1>7 DEF d

\* A command at work, and what the invariant says of it.
LEMMA CommandAtWork ==
  ASSUME ReportInv, NEW o \in Operators, command[o].pc # "idle"
  PROVE  DOMAIN command[o] = Fields /\ InformedCommand(reads, clock, command[o])
         /\ command[o].build \in DOMAIN Builds
<1>1. command[o] # Idle
  BY SMT DEF Idle
<1> QED
  BY <1>1 DEF ReportInv, EvidenceInv, Accounts, CommandOK, Informed

\* A command enters a status that it was shown, and changes no row.
LEMMA StatusAccounts ==
  ASSUME ReportInv, NEW o \in Operators, NEW a, NEW b, NEW status \in Statuses, NEW pc,
         command[o].pc \notin {"idle", "list"}, Turn(o, b, a),
         \/ pc = "plan"
         \/ pc = "apply" /\ command[o].pc \in {"apply", "begin", "commit"} /\ status # "unplanned",
         ShownAt(reads, a, command[o].target, status),
         Set(o, Entered(o, a, status, pc)),
         UNCHANGED <<export, deletion, parser, seen, runs, reads, clock, reports, returned>>
  PROVE  Accounts'
<1>1. DOMAIN command[o] = Fields /\ InformedCommand(reads, clock, command[o])
  BY CommandAtWork
<1>2. a \in DOMAIN command[o].entries
  BY DEF Turn, Waiting, Cmd
<1>3. InformedCommand(reads, clock, Entered(o, a, status, pc))
  BY <1>1, <1>2, EnteredInforms DEF Entered, Cmd
<1>4. Advances
  BY NothingElapses
<1>5. HistoryOK' /\ \A p \in Operators : Informed(p)'
  BY <1>3, <1>4, CommandAccounts
<1>6. ReportsOK'
  BY ReportsStay DEF ReportInv, Accounts
<1> QED
  BY <1>5, <1>6 DEF Accounts

\* A command goes on to another stage, and changes no row.
LEMMA StageAccounts ==
  ASSUME ReportInv, NEW o \in Operators, NEW c, Set(o, c), Advances,
         c = Idle \/ InformedCommand(reads, clock', c),
         UNCHANGED <<export, deletion, parser, seen, runs, reads, reports, returned>>
  PROVE  Accounts'
<1>1. HistoryOK' /\ \A p \in Operators : Informed(p)'
  BY CommandAccounts
<1>2. ReportsOK'
  BY ReportsStay DEF ReportInv, Accounts
<1> QED
  BY <1>1, <1>2 DEF Accounts

-----------------------------------------------------------------------------
(* The service *)

\* Nothing has happened.
LEMMA ReportInit == Init => ReportInv
<1> SUFFICES ASSUME Init
             PROVE  ReportInv
  OBVIOUS
<1>1. \A a \in Archives : ArchiveOK(a)
  BY DEF Init, ArchiveOK, HasNewest
<1>2. HistoryOK
  BY <1>1 DEF Init, HistoryOK
<1>3. (\A o \in Operators : Informed(o)) /\ ReportsOK
  BY DEF Init, Informed, ReportsOK
<1> QED
  BY <1>2, <1>3, EvidenceInit DEF ReportInv, Accounts

\* The initial import records the parser with the projection (initial_import.rs).
LEMMA ImportAccounts ==
  ASSUME ReportInv, NEW a \in Archives, Import(a)
  PROVE  Accounts'
<1>1. HistoryOK /\ RowsOK
  BY DEF ReportInv, EvidenceInv, Accounts
<1>2. Advances
  <2>1. reads \subseteq reads' /\ clock' = clock
    BY DEF Import
  <2> QED
    BY <1>1, <2>1, SMT DEF Advances, HistoryOK
<1>3. \A b \in Archives : b # a => ArchiveOK(b)'
  <2>1. \A b \in Archives : b # a => parser'[b] = parser[b] /\ runs'[b] = runs[b]
    BY <1>1 DEF RowsOK, Import
  <2> QED
    BY <1>1, <1>2, <2>1, ArchiveStays
<1>4. ArchiveOK(a)' /\ \A r \in reads' : WentForward(r)
  <2>1. CASE Importable(a)
    <3> DEFINE id == CHOOSE x \in Chosen[build][a] : TRUE
    <3> DEFINE new == Reading[a][id.version]
    <3> DEFINE r == [archive |-> a, target |-> id, planned |-> None, from |-> None,
                     input |-> Projection(Nothing), old |-> Nothing, after |-> new]
    <3>1. /\ parser' = [parser EXCEPT ![a] = id] /\ reads' = reads \cup {r} /\ runs' = runs
      BY <2>1 DEF Import
    <3>2. r.archive = a /\ r.target = id /\ r.planned = None
      OBVIOUS
    <3> HIDE DEF id, new, r
    <3>3. runs[a] = {}
      BY <1>1 DEF RowsOK, Import
    <3>4. parser'[a] = id /\ runs'[a] = {}
      BY <1>1, <3>1, <3>3 DEF RowsOK
    <3>5. r \in By(reads', a, id)
      BY <3>1, <3>2 DEF By
    <3>6. ArchiveOK(a)'
      BY <3>4, <3>5 DEF ArchiveOK, HasNewest
    <3>7. \A x \in reads' : WentForward(x)
      BY <1>1, <3>1, <3>2 DEF HistoryOK, WentForward
    <3> QED
      BY <3>6, <3>7
  <2>2. CASE ~Importable(a)
    <3>1. UNCHANGED <<parser, seen, reads, runs>>
      BY <2>2 DEF Import
    <3> QED
      BY <1>1, <1>2, <3>1, ArchiveStays DEF HistoryOK
  <2> QED
    BY <2>1, <2>2
<1>5. export' \in [Archives -> {"stored", "imported", "failed", "erased"}]
  BY <1>1 DEF Import, HistoryOK
<1>6. HistoryOK'
  BY <1>1, <1>3, <1>4, <1>5 DEF HistoryOK, Import
<1> QED
  BY <1>2, <1>6, ServiceAccounts DEF Import

\* A deletion leaves no row of its archive, so none that needs a history.
LEMMA RemoveRowsAccounts ==
  ASSUME ReportInv, NEW i \in Requests, RemoveRows(i)
  PROVE  Accounts'
<1>1. HistoryOK /\ RowsOK
  BY DEF ReportInv, EvidenceInv, Accounts
<1>2. Advances
  BY NothingElapses DEF RemoveRows
<1>3. PICK a \in Archives : a = deletion[i].archive
  BY <1>1 DEF RowsOK, RemoveRows
<1>4. /\ parser'[a] = None /\ runs'[a] = {}
      /\ \A b \in Archives : b # a =>
            parser'[b] = parser[b] /\ runs'[b] = runs[b]
  BY <1>1, <1>3 DEF RowsOK, RemoveRows
<1>5. export' \in [Archives -> {"stored", "imported", "failed", "erased"}]
  BY <1>1 DEF RemoveRows, HistoryOK
<1>6. \A j \in Requests : deletion'[j] # None =>
         DOMAIN deletion'[j] = {"archive", "stage"} /\ deletion'[j].stage \in {"planned", "rows_removed"}
  BY <1>1, SMT DEF RemoveRows, HistoryOK, RowsOK
<1>7. ArchiveOK(a)'
  BY <1>4 DEF ArchiveOK, HasNewest
<1>8. \A b \in Archives : b # a => ArchiveOK(b)'
  BY <1>1, <1>2, <1>4, ArchiveStays
<1>9. HistoryOK'
  BY <1>1, <1>5, <1>6, <1>7, <1>8 DEF HistoryOK, RemoveRows
<1> QED
  BY <1>2, <1>9, ServiceAccounts DEF RemoveRows

\* The other steps of the service touch no row of an archive.
LEMMA OtherServiceAccounts ==
  ASSUME ReportInv, Deploy \/ (\E i \in Requests : EraseBytes(i)) \/ \E a \in Archives : PlanDeletion(a)
  PROVE  Accounts'
<1>1. /\ UNCHANGED <<export, parser, seen, runs, reads, clock, command, reports, returned>>
      /\ \A i \in Requests : \/ deletion'[i] = deletion[i] \/ deletion'[i] = None
                             \/ \E a \in Archives : deletion'[i] = [archive |-> a, stage |-> "planned"]
  BY DEF Deploy, EraseBytes, PlanDeletion, ReportInv, EvidenceInv, RowsOK
<1>2. HistoryOK
  BY DEF ReportInv, Accounts
<1>3. Advances
  BY <1>1, NothingElapses
<1>4. \A a \in Archives : ArchiveOK(a)'
  BY <1>1, <1>2, <1>3, ArchiveStays
<1>5. ASSUME NEW i \in Requests, deletion'[i] # None
      PROVE  DOMAIN deletion'[i] = {"archive", "stage"} /\ deletion'[i].stage \in {"planned", "rows_removed"}
  <2>1. CASE deletion'[i] = deletion[i]
    BY <1>2, <1>5, <2>1 DEF HistoryOK
  <2>2. CASE \E a \in Archives : deletion'[i] = [archive |-> a, stage |-> "planned"]
    BY <2>2, SMT
  <2> QED
    BY <1>1, <1>5, <2>1, <2>2
<1>6. HistoryOK'
  BY <1>1, <1>2, <1>4, <1>5 DEF HistoryOK
<1> QED
  BY <1>1, <1>3, <1>6, ServiceAccounts

-----------------------------------------------------------------------------
(* The commands *)

\* A new command has entered nothing.
LEMMA StartAccounts ==
  ASSUME ReportInv, NEW o \in Operators, NEW p \in Operations, NEW t \in Targets, Start(o, p, t)
  PROVE  Accounts'
<1> DEFINE c == [pc |-> "list", operation |-> p, target |-> t, build |-> build,
                 blocked |-> Blocked, entries |-> <<>>, plans |-> <<>>, from |-> None,
                 stamp |-> 0]
<1>1. InformedCommand(reads, clock', c)
  BY SMT DEF InformedCommand
<1>2. Set(o, c) /\ UNCHANGED <<export, deletion, parser, seen, runs, reads, clock, reports, returned>>
  BY DEF Start
<1>3. Advances
  BY <1>2, NothingElapses
<1> HIDE DEF c
<1> QED
  BY <1>1, <1>2, <1>3, StageAccounts

\* The listing calls current what the target parser has read.
LEMMA ListExportsAccounts ==
  ASSUME ReportInv, NEW o \in Operators, ListExports(o)
  PROVE  Accounts'
<1> DEFINE listed == [a \in {a \in Archives : Present(a)} |->
                         IF Cmd(o).blocked THEN "privacy_blocked"
                         ELSE IF Current(a) = Cmd(o).target THEN "already_current" ELSE "unplanned"]
<1> DEFINE c == [command[o] EXCEPT !.pc = "plan", !.entries = listed]
<1>1. DOMAIN command[o] = Fields /\ InformedCommand(reads, clock, command[o])
  BY CommandAtWork DEF ListExports, Cmd
<1>2. /\ Set(o, c)
      /\ UNCHANGED <<export, deletion, parser, seen, runs, reads, clock, reports, returned>>
  BY DEF ListExports, Cmd
<1>3. Advances
  BY <1>2, NothingElapses
<1>4. DOMAIN listed \subseteq Archives /\ listed \in [DOMAIN listed -> Statuses]
  BY DEF Statuses, Outcomes
<1>5. ASSUME NEW a \in DOMAIN listed
      PROVE  ShownAt(reads, a, command[o].target, listed[a])
  <2>1. listed[a] \in {"privacy_blocked", "already_current", "unplanned"}
    OBVIOUS
  <2>2. listed[a] = "already_current" => Current(a) = command[o].target /\ a \in Archives
    BY DEF Cmd
  <2>3. command[o].target # None
    BY <1>1, TargetsAreReal DEF TargetsAreReal, InformedCommand
  <2>4. listed[a] = "already_current" => By(reads, a, command[o].target) # {}
    BY <2>2, <2>3, CurrentIsRead DEF ReportInv, Accounts
  <2> HIDE DEF listed
  <2> QED
    BY <2>1, <2>4 DEF ShownAt
<1> HIDE DEF listed
<1>6. /\ c.operation = command[o].operation /\ c.target = command[o].target /\ c.pc = "plan"
      /\ c.plans = command[o].plans /\ c.build = command[o].build /\ c.entries = listed
  BY <1>1 DEF Fields
<1> HIDE DEF c
<1>7. Shown(reads, c.entries, c.target)
  BY <1>5, <1>6 DEF Shown
<1>8. InformedCommand(reads, clock', c)
  BY <1>1, <1>4, <1>6, <1>7 DEF InformedCommand
<1> QED
  BY <1>2, <1>3, <1>8, StageAccounts

\* Statuses that say nothing of the projection.
Silent == {"privacy_blocked", "raw_missing", "failed_inspection", "unsupported", "failed", "eligible"}

LEMMA SilentIsShown ==
  ASSUME NEW rs, NEW a, NEW t, NEW status \in Silent
  PROVE  ShownAt(rs, a, t, status) /\ status \in Statuses /\ status # "unplanned"
  BY DEF ShownAt, Silent, Statuses, Outcomes

\* A command changes only its stage.
LEMMA StageInforms ==
  ASSUME NEW rs, NEW now, NEW c, NEW d, InformedCommand(rs, now, c), c.pc # "list",
         d.operation = c.operation, d.target = c.target, d.plans = c.plans,
         d.build = c.build, d.entries = c.entries,
         d.pc \in {"plan", "read", "apply", "begin", "commit"},
         d.pc \in {"apply", "begin", "commit"} =>
            \A a \in DOMAIN c.entries : c.entries[a] # "unplanned",
         d.pc = "commit" => d.stamp \in Nat /\ d.stamp <= now
  PROVE  InformedCommand(rs, now, d)
  BY DEF InformedCommand

\* The row a plan starts from.
LEMMA PlanRowAccounts ==
  ASSUME ReportInv, NEW o \in Operators, NEW a \in Archives, PlanRow(o, a)
  PROVE  Accounts'
<1>1. /\ command[o].pc = "plan" /\ Turn(o, "unplanned", a)
      /\ UNCHANGED <<export, deletion, parser, seen, runs, reads, clock, reports, returned>>
  BY DEF PlanRow, Cmd
<1>2. DOMAIN command[o] = Fields /\ InformedCommand(reads, clock, command[o])
  BY <1>1, CommandAtWork
<1>3. Advances
  BY <1>1, NothingElapses
<1>4. CASE Set(o, Entered(o, a, "unsupported", "plan"))
  <2>1. "unsupported" \in Silent
    BY DEF Silent
  <2> QED
    BY <1>1, <1>4, <2>1, SilentIsShown, StatusAccounts
<1>5. CASE Set(o, [Cmd(o) EXCEPT !.pc = "read", !.from = Current(a)])
  <2> DEFINE c == [command[o] EXCEPT !.pc = "read", !.from = Current(a)]
  <2>1. /\ c.operation = command[o].operation /\ c.target = command[o].target /\ c.pc = "read"
        /\ c.plans = command[o].plans /\ c.build = command[o].build
        /\ c.entries = command[o].entries
    BY <1>2 DEF Fields
  <2>2. Set(o, c)
    BY <1>5 DEF Cmd
  <2> HIDE DEF c
  <2>3. InformedCommand(reads, clock', c)
    BY <1>1, <1>2, <2>1, StageInforms
  <2> QED
    BY <1>1, <1>3, <2>2, <2>3, StageAccounts
<1> QED
  BY <1>4, <1>5 DEF PlanRow

\* A plan that is read goes forward among the compatible versions.
LEMMA PlanReadAccounts ==
  ASSUME ReportInv, NEW o \in Operators, NEW a \in Archives, PlanRead(o, a)
  PROVE  Accounts'
<1>1. /\ command[o].pc = "read" /\ Turn(o, "unplanned", a)
      /\ UNCHANGED <<export, deletion, parser, seen, runs, reads, clock, reports, returned>>
  BY DEF PlanRead, Cmd
<1>2. DOMAIN command[o] = Fields /\ InformedCommand(reads, clock, command[o])
  BY <1>1, CommandAtWork
<1>3. Advances
  BY <1>1, NothingElapses
<1>4. CASE \E status \in {"raw_missing", "failed_inspection", "unsupported"} :
              Set(o, Entered(o, a, status, "plan"))
  <2>1. PICK status \in {"raw_missing", "failed_inspection", "unsupported"} :
           Set(o, Entered(o, a, status, "plan"))
    BY <1>4
  <2>2. status \in Silent
    BY DEF Silent
  <2> QED
    BY <1>1, <2>1, <2>2, SilentIsShown, StatusAccounts
<1>5. CASE /\ TargetIsNewer(o, a)
           /\ \E plan : /\ plan.from = command[o].from
                        /\ Set(o, [Entered(o, a, "eligible", "plan") EXCEPT !.plans = WithPlan(command[o].plans, a, plan)])
  <2> DEFINE e == Entered(o, a, "eligible", "plan")
  <2>1. PICK plan : /\ plan.from = command[o].from
                    /\ Set(o, [e EXCEPT !.plans = WithPlan(command[o].plans, a, plan)])
    BY <1>5
  <2> DEFINE c == [e EXCEPT !.plans = WithPlan(command[o].plans, a, plan)]
  <2>2. a \in DOMAIN command[o].entries /\ "eligible" \in Silent
    BY <1>1 DEF Turn, Waiting, Cmd, Silent
  <2>3. InformedCommand(reads, clock, e)
    BY <1>1, <1>2, <2>2, SilentIsShown, EnteredInforms DEF Entered, Cmd
  <2>4. /\ DOMAIN e = Fields /\ e.pc = "plan" /\ e.build = command[o].build
        /\ e.target = command[o].target /\ e.plans = command[o].plans
    BY <1>2 DEF Entered, Cmd, Fields
  <2> HIDE DEF e
  <2>5. /\ c.operation = e.operation /\ c.target = e.target /\ c.pc = "plan"
        /\ c.build = e.build /\ c.entries = e.entries
        /\ c.plans = WithPlan(command[o].plans, a, plan)
    BY <2>4 DEF Fields
  <2>6. Set(o, c)
    BY <2>1
  <2> HIDE DEF c
  <2>7. Forward(plan.from, c.target, c.build, a)
    BY <1>5, <2>1, <2>4, <2>5 DEF TargetIsNewer, Forward, Cmd
  <2>8. \A b \in DOMAIN c.plans : b \in Archives => Forward(c.plans[b].from, c.target, c.build, b)
    <3>1. \A b \in DOMAIN e.plans : b \in Archives => Forward(e.plans[b].from, c.target, c.build, b)
      BY <2>3, <2>5 DEF InformedCommand
    <3>2. \A b \in DOMAIN c.plans : \/ b = a /\ c.plans[b] = plan
                                    \/ b \in DOMAIN e.plans /\ c.plans[b] = e.plans[b]
      BY <2>4, <2>5 DEF WithPlan
    <3> QED
      BY <2>7, <3>1, <3>2
  <2>9. InformedCommand(reads, clock', c)
    BY <1>1, <2>3, <2>4, <2>5, <2>8 DEF InformedCommand
  <2> QED
    BY <1>1, <1>3, <2>6, <2>9, StageAccounts
<1>6. CASE \/ \E status \in {"raw_missing", "failed_inspection", "unsupported"} :
                 Set(o, Entered(o, a, status, "plan"))
           \/ /\ TargetIsNewer(o, a)
              /\ Set(o, [Entered(o, a, "eligible", "plan") EXCEPT !.plans =
                   WithPlan(command[o].plans, a, [input |-> Projection(seen[a]),
                       parsed |-> Reading[a][command[o].target.version], from |-> command[o].from])])
  BY <1>4, <1>5, <1>6
<1> QED
  BY <1>6 DEF PlanRead, Cmd

\* A plan that fails enters the failure.
LEMMA PlanFailsAccounts ==
  ASSUME ReportInv, NEW o \in Operators, NEW a \in Archives, PlanFails(o, a)
  PROVE  Accounts'
<1>1. /\ command[o].pc = "read" /\ Turn(o, "unplanned", a)
      /\ UNCHANGED <<export, deletion, parser, seen, runs, reads, clock, reports, returned>>
  BY DEF PlanFails, Cmd
<1>2. PICK status \in {"raw_missing", "failed_inspection", "unsupported"} :
         Set(o, Entered(o, a, status, "plan"))
  BY DEF PlanFails
<1>3. status \in Silent
  BY DEF Silent
<1> QED
  BY <1>1, <1>2, <1>3, SilentIsShown, StatusAccounts

\* A command that ends without a report.
LEMMA IdleAccounts ==
  ASSUME ReportInv, NEW o \in Operators, DryRun(o) \/ Crash(o)
  PROVE  Accounts'
<1>1. /\ Set(o, Idle)
      /\ UNCHANGED <<export, deletion, parser, seen, runs, reads, clock, reports, returned>>
  BY DEF DryRun, Crash
<1>2. Advances
  BY <1>1, NothingElapses
<1> QED
  BY <1>1, <1>2, StageAccounts

\* A command that ends with the report its operation has.
LEMMA BeginApplyAccounts ==
  ASSUME ReportInv, NEW o \in Operators, BeginApply(o)
  PROVE  Accounts'
<1> DEFINE p == command[o].operation
<1>1. /\ command[o].pc = "plan" /\ Waiting(o, "unplanned") = {}
      /\ UNCHANGED <<export, deletion, parser, seen, runs, reads, clock, reports>>
  BY DEF BeginApply, Planned, Cmd
<1>2. DOMAIN command[o] = Fields /\ InformedCommand(reads, clock, command[o])
  BY <1>1, CommandAtWork
<1>3. Advances
  BY <1>1, NothingElapses
<1>4. CASE reports[p] = None
  <2> DEFINE c == [command[o] EXCEPT !.pc = "apply"]
  <2>1. Set(o, c) /\ UNCHANGED returned
    BY <1>4 DEF BeginApply, Cmd
  <2>2. /\ c.operation = p /\ c.target = command[o].target /\ c.pc = "apply"
        /\ c.plans = command[o].plans /\ c.build = command[o].build
        /\ c.entries = command[o].entries
    BY <1>2 DEF Fields
  <2> HIDE DEF c
  <2>3. \A a \in DOMAIN command[o].entries : command[o].entries[a] # "unplanned"
    BY <1>1 DEF Waiting, Cmd
  <2>4. InformedCommand(reads, clock', c)
    BY <1>1, <1>2, <2>2, <2>3, StageInforms
  <2> QED
    BY <1>1, <1>3, <2>1, <2>4, StageAccounts
<1>5. CASE reports[p] # None
  <2>1. Set(o, Idle) /\ returned' = returned \cup {<<p, reports[p]>>}
    BY <1>5 DEF BeginApply, Cmd
  <2>2. HistoryOK' /\ \A q \in Operators : Informed(q)'
    BY <1>1, <1>3, <2>1, CommandAccounts
  <2>3. p \in Operations /\ ReportsOK
    BY <1>2 DEF InformedCommand, ReportInv, Accounts
  <2> HIDE DEF p
  <2>4. \A answer \in returned' :
           answer[1] \in Operations /\ reports[answer[1]] # None /\ reports[answer[1]] = answer[2]
    BY <1>5, <2>1, <2>3, SMT DEF ReportsOK
  <2>5. ReportsOK'
    BY <1>1, <2>3, <2>4 DEF ReportsOK
  <2> QED
    BY <2>2, <2>5 DEF Accounts
<1> QED
  BY <1>4, <1>5

\* What an earlier run with the same identity says, it says of this archive.
LEMMA PriorShows ==
  ASSUME ReportInv, NEW o \in Operators, NEW a \in Archives, Prior(o, a) # {}
  PROVE  /\ ShownAt(reads, a, command[o].target, PriorOutcome(o, a))
         /\ PriorOutcome(o, a) \in Statuses /\ PriorOutcome(o, a) # "unplanned"
<1> DEFINE run == CHOOSE r \in Prior(o, a) : TRUE
<1>1. run \in Prior(o, a)
  OBVIOUS
<1>2. PriorOutcome(o, a) = Outcome(run.input, run.parsed)
  BY DEF PriorOutcome
<1> HIDE DEF run
<1>3. run \in runs[a] /\ run.target = command[o].target
  BY <1>1 DEF Prior, Cmd
<1>4. RunIsRead(reads, clock, a, run)
  BY <1>3 DEF ReportInv, Accounts, HistoryOK, ArchiveOK
<1>5. /\ ShownAt(reads, a, run.target, Outcome(run.input, run.parsed))
      /\ Outcome(run.input, run.parsed) \in {"applied", "unchanged"}
  BY <1>4, RunShows
<1> QED
  BY <1>2, <1>3, <1>5 DEF Statuses, Outcomes

\* The checks before the transaction.
LEMMA ApplyChecksAccounts ==
  ASSUME ReportInv, NEW o \in Operators, NEW a \in Archives, ApplyChecks(o, a)
  PROVE  Accounts'
<1>1. /\ command[o].pc = "apply" /\ Turn(o, "eligible", a)
      /\ UNCHANGED <<export, deletion, parser, seen, runs, reads, clock, reports, returned>>
  BY DEF ApplyChecks, Cmd
<1>2. DOMAIN command[o] = Fields /\ InformedCommand(reads, clock, command[o])
  BY <1>1, CommandAtWork
<1>3. Advances
  BY <1>1, NothingElapses
<1>4. CASE Set(o, Entered(o, a, "failed", "apply"))
  <2>1. "failed" \in Silent
    BY DEF Silent
  <2> QED
    BY <1>1, <1>4, <2>1, SilentIsShown, StatusAccounts
<1>5. CASE Prior(o, a) # {} /\ Set(o, Entered(o, a, PriorOutcome(o, a), "apply"))
  BY <1>1, <1>5, PriorShows, StatusAccounts
<1>6. CASE Set(o, [command[o] EXCEPT !.pc = "begin"])
  <2> DEFINE c == [command[o] EXCEPT !.pc = "begin"]
  <2>1. /\ c.operation = command[o].operation /\ c.target = command[o].target /\ c.pc = "begin"
        /\ c.plans = command[o].plans /\ c.build = command[o].build
        /\ c.entries = command[o].entries
    BY <1>2 DEF Fields
  <2> HIDE DEF c
  <2>2. \A b \in DOMAIN command[o].entries : command[o].entries[b] # "unplanned"
    BY <1>1, <1>2 DEF InformedCommand
  <2>3. InformedCommand(reads, clock', c)
    BY <1>1, <1>2, <2>1, <2>2, StageInforms
  <2>4. Set(o, c)
    BY <1>6 DEF c
  <2> QED
    BY <1>1, <1>3, <2>3, <2>4, StageAccounts
<1> QED
  BY <1>4, <1>5, <1>6 DEF ApplyChecks, Cmd

\* A transaction begins; its run will be no newer than now.
LEMMA BeginTransactionAccounts ==
  ASSUME ReportInv, NEW o \in Operators, BeginTransaction(o)
  PROVE  Accounts'
<1> DEFINE c == [command[o] EXCEPT !.pc = "commit", !.stamp = clock + 1]
<1>1. /\ command[o].pc = "begin" /\ clock' = clock + 1 /\ Set(o, c)
      /\ UNCHANGED <<export, deletion, parser, seen, runs, reads, reports, returned>>
  BY DEF BeginTransaction, Cmd
<1>2. DOMAIN command[o] = Fields /\ InformedCommand(reads, clock, command[o])
  BY <1>1, CommandAtWork
<1>3. clock \in Nat
  BY DEF ReportInv, Accounts, HistoryOK
<1>4. Advances
  BY <1>1, <1>3, SMT DEF Advances
<1>5. InformedCommand(reads, clock', command[o])
  BY <1>2, <1>3, <1>4, InformedGrows DEF Advances
<1>6. /\ c.operation = command[o].operation /\ c.target = command[o].target /\ c.pc = "commit"
      /\ c.plans = command[o].plans /\ c.build = command[o].build
      /\ c.entries = command[o].entries /\ c.stamp = clock + 1
  BY <1>2 DEF Fields
<1> HIDE DEF c
<1>7. \A b \in DOMAIN command[o].entries : command[o].entries[b] # "unplanned"
  BY <1>1, <1>2 DEF InformedCommand
<1>8. c.stamp \in Nat /\ c.stamp <= clock'
  BY <1>1, <1>3, <1>6, SMT
<1>9. InformedCommand(reads, clock', c)
  BY <1>1, <1>5, <1>6, <1>7, <1>8, StageInforms
<1> QED
  BY <1>1, <1>4, <1>9, StageAccounts

\* A failed apply enters the failure.
LEMMA ApplyFailsAccounts ==
  ASSUME ReportInv, NEW o \in Operators, NEW a \in Archives, ApplyFails(o, a)
  PROVE  Accounts'
<1>1. /\ command[o].pc \in {"begin", "commit"} /\ Turn(o, "eligible", a)
      /\ UNCHANGED <<export, deletion, parser, seen, runs, reads, clock, reports, returned>>
      /\ Set(o, Entered(o, a, "failed", "apply"))
  BY DEF ApplyFails, Cmd
<1>2. "failed" \in Silent
  BY DEF Silent
<1> QED
  BY <1>1, <1>2, SilentIsShown, StatusAccounts

-----------------------------------------------------------------------------
(* The commit and the report *)

\* Of a run and older ones, one is the newest.
LEMMA NewestOfMore ==
  ASSUME NEW rows, NEW run, HasNewest(rows), run.stamp \in Nat,
         \A other \in rows : other.stamp \in Nat
  PROVE  HasNewest(rows \cup {run})
<1>1. CASE rows = {}
  BY <1>1, SMT DEF HasNewest
<1>2. CASE rows # {}
  <2>1. PICK newest \in rows : \A other \in rows : other.stamp <= newest.stamp
    BY <1>2 DEF HasNewest
  <2>2. CASE newest.stamp <= run.stamp
    <3>1. \A other \in rows \cup {run} : other.stamp <= run.stamp
      BY <2>1, <2>2, SMT
    <3> QED
      BY <3>1 DEF HasNewest
  <2>3. CASE run.stamp <= newest.stamp
    <3>1. \A other \in rows \cup {run} : other.stamp <= newest.stamp
      BY <2>1, <2>3
    <3> QED
      BY <3>1 DEF HasNewest
  <2> QED
    BY <2>1, <2>2, <2>3, SMT
<1> QED
  BY <1>1, <1>2

\* The run, the projection and the history change together.
LEMMA WriteAccounts ==
  ASSUME ReportInv, NEW o \in Operators, NEW a \in Archives, NEW status,
         command[o].pc = "commit", Turn(o, "eligible", a), WriteReparse(o, a),
         status \in {"failed", Outcome(command[o].plans[a].input, command[o].plans[a].parsed)},
         Set(o, Entered(o, a, status, "apply")),
         UNCHANGED <<export, parser, deletion, clock, reports, returned>>
  PROVE  Accounts'
<1> DEFINE c == command[o]
<1> DEFINE plan == c.plans[a]
<1> DEFINE after == Persisted(seen[a], plan.parsed)
<1> DEFINE run == [target |-> c.target, build |-> c.build, input |-> plan.input,
                   parsed |-> plan.parsed, stamp |-> c.stamp]
<1> DEFINE r == [archive |-> a, target |-> c.target, planned |-> plan.from, from |-> Current(a),
                 input |-> plan.input, old |-> seen[a], after |-> after]
<1>1. /\ DOMAIN c = Fields /\ InformedCommand(reads, clock, c) /\ c.build \in DOMAIN Builds
      /\ HistoryOK /\ RowsOK /\ CommandOK(o) /\ ReportsOK /\ DOMAIN command = Operators
      /\ \A q \in Operators : Informed(q)
  BY CommandAtWork DEF ReportInv, EvidenceInv, Accounts
<1>2. /\ runs' = [runs EXCEPT ![a] = @ \cup {run}] /\ seen' = [seen EXCEPT ![a] = after]
      /\ reads' = reads \cup {r}
  BY DEF WriteReparse, Cmd
<1>3. /\ r.archive = a /\ r.target = c.target /\ r.planned = plan.from /\ r.input = plan.input
      /\ r.old = seen[a] /\ r.after = after
  OBVIOUS
<1>4. run.target = c.target /\ run.input = plan.input /\ run.parsed = plan.parsed /\ run.stamp = c.stamp
  OBVIOUS
<1>5. after = Persisted(seen[a], plan.parsed)
  OBVIOUS
<1>6. a \in DOMAIN c.entries /\ a \in DOMAIN c.plans
  <2>1. a \in DOMAIN c.entries /\ c.entries[a] = "eligible"
    BY DEF Turn, Waiting, Cmd
  <2> QED
    BY <1>1, <2>1, AtWork DEF CommandOK
<1>7. Forward(plan.from, c.target, c.build, a) /\ c.stamp \in Nat /\ c.stamp <= clock
  <2>1. c.pc = "commit" /\ InformedCommand(reads, clock, c)
    BY <1>1
  <2> HIDE DEF c
  <2> QED
    BY <1>6, <2>1 DEF InformedCommand
<1>8. Entered(o, a, status, "apply") = [c EXCEPT !.pc = "apply", !.entries[a] = status]
  BY DEF Entered, Cmd
<1> HIDE DEF c, plan, after, run, r
<1>9. Advances
  BY <1>1, <1>2, SMT DEF Advances, HistoryOK
<1>10. r \in By(reads', a, c.target)
  BY <1>2, <1>3 DEF By
<1>11. ArchiveOK(a) /\ clock \in Nat
  BY <1>1 DEF HistoryOK
<1>12. RunIsRead(reads', clock', a, run)
  <2>1. r.after = Persisted(r.old, run.parsed) /\ r.input = run.input
    BY <1>3, <1>4, <1>5
  <2>2. run.stamp \in Nat /\ run.stamp <= clock' /\ r \in By(reads', a, run.target)
    BY <1>4, <1>7, <1>10
  <2> QED
    BY <2>1, <2>2 DEF RunIsRead
<1>13. ArchiveOK(a)'
  <2>1. runs'[a] = runs[a] \cup {run}
    BY <1>1, <1>2 DEF RowsOK
  <2>2. parser'[a] # None => By(reads', a, parser'[a]) # {}
    BY <1>9, <1>11 DEF ArchiveOK, By, Advances
  <2>3. \A x \in runs[a] : RunIsRead(reads', clock', a, x)
    BY <1>9, <1>11, RunGrows DEF ArchiveOK, Advances
  <2>4. HasNewest(runs'[a])
    <3>1. HasNewest(runs[a]) /\ \A x \in runs[a] : x.stamp \in Nat
      BY <1>11 DEF ArchiveOK, RunIsRead
    <3> QED
      BY <1>4, <1>7, <2>1, <3>1, NewestOfMore, SMT
  <2> QED
    BY <1>12, <2>1, <2>2, <2>3, <2>4 DEF ArchiveOK
<1>14. \A b \in Archives : b # a => ArchiveOK(b)'
  <2>1. \A b \in Archives : b # a => runs'[b] = runs[b]
    BY <1>1, <1>2 DEF RowsOK
  <2> QED
    BY <1>1, <1>9, <2>1, ArchiveStays
<1>15. \A x \in reads' : WentForward(x)
  <2>1. WentForward(r)
    BY <1>1, <1>3, <1>7 DEF WentForward
  <2> QED
    BY <1>1, <1>2, <2>1 DEF HistoryOK
<1>16. HistoryOK'
  BY <1>1, <1>13, <1>14, <1>15 DEF HistoryOK
<1>17. ShownAt(reads', a, c.target, status) /\ status \in Statuses /\ status # "unplanned"
  <2>1. CASE status = "failed"
    BY <2>1 DEF ShownAt, Statuses, Outcomes
  <2>2. CASE status = Outcome(plan.input, plan.parsed)
    <3>1. /\ ShownAt(reads', a, run.target, Outcome(run.input, run.parsed))
          /\ Outcome(run.input, run.parsed) \in {"applied", "unchanged"}
      BY <1>12, RunShows
    <3> QED
      BY <1>4, <2>2, <3>1 DEF Statuses, Outcomes
  <2> QED
    BY <2>1, <2>2 DEF plan, c
<1>18. InformedCommand(reads', clock', c)
  BY <1>1, <1>9, <1>11, InformedGrows DEF Advances
<1>19. InformedCommand(reads', clock', Entered(o, a, status, "apply"))
  <2>1. c.pc = "commit"
    BY DEF c
  <2>2. DOMAIN c = Fields /\ a \in DOMAIN c.entries
    BY <1>1, <1>6
  <2>3. InformedCommand(reads', clock', [c EXCEPT !.pc = "apply", !.entries[a] = status])
    BY <1>17, <1>18, <2>1, <2>2, EnteredInforms
  <2> QED
    BY <1>8, <2>3
<1>20. Informed(o)'
  BY <1>1, <1>19 DEF Informed, Set
<1>21. \A q \in Operators : q # o => Informed(q)'
  BY <1>1, <1>9, OtherInformed DEF Set
<1>22. ReportsOK'
  BY <1>1, <1>9, ReportsStay DEF Advances
<1> QED
  BY <1>16, <1>20, <1>21, <1>22 DEF Accounts

\* The commit of a reparse (reparse.rs, apply), answered or not.
LEMMA CommitAccounts ==
  ASSUME ReportInv, NEW o \in Operators, NEW a \in Archives,
         CommitReparse(o, a) \/ CommitUnanswered(o, a)
  PROVE  Accounts'
<1>1. /\ command[o].pc = "commit" /\ Turn(o, "eligible", a)
      /\ UNCHANGED <<export, parser, deletion, clock, reports, returned>>
  BY DEF CommitReparse, CommitUnanswered, Cmd
<1>2. CASE Prior(o, a) # {} /\ UNCHANGED <<runs, seen, reads>>
           /\ Set(o, Entered(o, a, PriorOutcome(o, a), "apply"))
  BY <1>1, <1>2, PriorShows, StatusAccounts
<1>3. CASE UNCHANGED <<runs, seen, reads>> /\ Set(o, Entered(o, a, "failed", "apply"))
  <2>1. "failed" \in Silent
    BY DEF Silent
  <2> QED
    BY <1>1, <1>3, <2>1, SilentIsShown, StatusAccounts
<1>4. CASE WriteReparse(o, a) /\ Set(o, Entered(o, a, "failed", "apply"))
  BY <1>1, <1>4, WriteAccounts
<1>5. CASE /\ WriteReparse(o, a)
           /\ Set(o, Entered(o, a, Outcome(Cmd(o).plans[a].input, Cmd(o).plans[a].parsed), "apply"))
  BY <1>1, <1>5, WriteAccounts DEF Cmd
<1> QED
  BY <1>2, <1>3, <1>4, <1>5 DEF CommitReparse, CommitUnanswered

\* A finished command's report is what it entered.
LEMMA FinishedReport ==
  ASSUME NEW rs, NEW now, NEW c, InformedCommand(rs, now, c), c.pc = "apply",
         \A a \in DOMAIN c.entries : c.entries[a] # "eligible"
  PROVE  ReportOK(rs, Finished(c)) /\ Finished(c) # None
<1> DEFINE f == Finished(c)
<1>1. /\ f.target = c.target /\ f.entries = c.entries
      /\ f.status = IF "failed" \in Range(c.entries) THEN "partial" ELSE "completed"
  BY DEF Finished
<1>2. DOMAIN c.entries \in SUBSET Archives /\ c.entries \in [DOMAIN c.entries -> Outcomes]
  BY DEF InformedCommand, Statuses
<1>3. c.entries \in UNION {[S -> Outcomes] : S \in SUBSET Archives}
  BY <1>2
<1>4. f \in Reports
  <2>1. c.target \in Targets
    BY DEF InformedCommand
  <2> QED
    BY <1>3, <2>1 DEF Reports, Finished
<1>5. Shown(rs, f.entries, f.target)
  BY <1>1 DEF InformedCommand
<1> HIDE DEF f
<1>6. ReportOK(rs, f)
  BY <1>1, <1>4, <1>5 DEF ReportOK
<1>7. f # None
  BY <1>4, NoReportIsNone DEF NoReportIsNone
<1> QED
  BY <1>6, <1>7 DEF f

\* The report is inserted unless there is one, and the durable one is returned.
LEMMA FinishAccounts ==
  ASSUME ReportInv, NEW o \in Operators, Finish(o)
  PROVE  Accounts'
<1> DEFINE p == command[o].operation
<1> DEFINE report == IF reports[p] = None THEN Finished(command[o]) ELSE reports[p]
<1>1. /\ command[o].pc = "apply" /\ Waiting(o, "eligible") = {} /\ Set(o, Idle)
      /\ reports' = [reports EXCEPT ![p] = report]
      /\ returned' = returned \cup {<<p, report>>}
      /\ UNCHANGED <<export, deletion, parser, seen, runs, reads, clock>>
  BY DEF Finish, Cmd
<1>2. InformedCommand(reads, clock, command[o]) /\ ReportsOK
  BY <1>1, CommandAtWork DEF ReportInv, Accounts
<1>3. Advances
  BY <1>1, NothingElapses
<1>4. p \in Operations
  BY <1>2 DEF InformedCommand
<1>5. ReportOK(reads, report) /\ report # None
  <2>1. \A a \in DOMAIN command[o].entries : command[o].entries[a] # "eligible"
    BY <1>1 DEF Waiting, Cmd
  <2>2. ReportOK(reads, Finished(command[o])) /\ Finished(command[o]) # None
    BY <1>1, <1>2, <2>1, FinishedReport
  <2>3. reports[p] # None => ReportOK(reads, reports[p])
    BY <1>2, <1>4 DEF ReportsOK
  <2> HIDE DEF p
  <2> QED
    BY <2>2, <2>3
<1>6. HistoryOK' /\ \A q \in Operators : Informed(q)'
  BY <1>1, <1>3, CommandAccounts
<1>7. reports[p] # None => report = reports[p]
  OBVIOUS
<1> HIDE DEF p, report
<1>8. /\ DOMAIN reports' = Operations /\ reports'[p] = report
      /\ \A q \in Operations : q # p => reports'[q] = reports[q]
  BY <1>1, <1>2, <1>4 DEF ReportsOK
<1>9. \A q \in Operations : reports'[q] # None => ReportOK(reads', reports'[q])
  BY <1>1, <1>2, <1>5, <1>8 DEF ReportsOK
<1>10. ASSUME NEW answer \in returned
       PROVE  /\ answer[1] \in Operations /\ reports'[answer[1]] # None
              /\ reports'[answer[1]] = answer[2]
  <2>1. answer[1] \in Operations /\ reports[answer[1]] # None /\ reports[answer[1]] = answer[2]
    BY <1>2 DEF ReportsOK
  <2> QED
    BY <1>7, <1>8, <2>1
<1>11. \A answer \in returned' : /\ answer[1] \in Operations /\ reports'[answer[1]] # None
                                 /\ reports'[answer[1]] = answer[2]
  BY <1>1, <1>4, <1>5, <1>8, <1>10, SMT
<1>12. ReportsOK'
  BY <1>8, <1>9, <1>11 DEF ReportsOK
<1> QED
  BY <1>6, <1>12 DEF Accounts

-----------------------------------------------------------------------------
\* Every step keeps the invariant: one case for each action.
LEMMA ReportNext == ReportInv /\ [Next]_vars => ReportInv'
<1> SUFFICES ASSUME ReportInv, [Next]_vars
             PROVE  ReportInv'
  OBVIOUS
<1>1. EvidenceInv'
  BY EvidenceNext DEF ReportInv
<1>2. CASE UNCHANGED vars
  <2>1. UNCHANGED <<export, deletion, parser, seen, runs, reads, clock, command, reports, returned>>
    BY <1>2 DEF vars
  <2>2. Advances /\ HistoryOK
    BY <2>1, NothingElapses DEF ReportInv, Accounts
  <2>3. HistoryOK'
    BY <2>1, <2>2, HistoryStays
  <2>4. Accounts'
    BY <2>1, <2>2, <2>3, ServiceAccounts
  <2> QED
    BY <1>1, <2>4 DEF ReportInv
<1>3. CASE Deploy \/ (\E i \in Requests : EraseBytes(i)) \/ \E a \in Archives : PlanDeletion(a)
  BY <1>1, <1>3, OtherServiceAccounts DEF ReportInv
<1>4. CASE \E i \in Requests : RemoveRows(i)
  BY <1>1, <1>4, RemoveRowsAccounts DEF ReportInv
<1>5. CASE \E a \in Archives : Import(a)
  BY <1>1, <1>5, ImportAccounts DEF ReportInv
<1>6. ASSUME NEW o \in Operators, \E p \in Operations, t \in Targets : Start(o, p, t)
      PROVE  Accounts'
  BY <1>6, StartAccounts
<1>7. ASSUME NEW o \in Operators,
             \/ ListExports(o) \/ DryRun(o) \/ BeginApply(o) \/ BeginTransaction(o)
             \/ Finish(o) \/ Crash(o)
      PROVE  Accounts'
  BY <1>7, ListExportsAccounts, IdleAccounts, BeginApplyAccounts, BeginTransactionAccounts,
     FinishAccounts
<1>8. ASSUME NEW o \in Operators, NEW a \in Archives,
             \/ PlanRow(o, a) \/ PlanRead(o, a) \/ PlanFails(o, a) \/ ApplyChecks(o, a)
             \/ CommitReparse(o, a) \/ CommitUnanswered(o, a) \/ ApplyFails(o, a)
      PROVE  Accounts'
  BY <1>8, PlanRowAccounts, PlanReadAccounts, PlanFailsAccounts, ApplyChecksAccounts,
     CommitAccounts, ApplyFailsAccounts
<1> QED
  BY <1>1, <1>2, <1>3, <1>4, <1>5, <1>6, <1>7, <1>8 DEF Next, ReportInv

\* The inductive invariant holds in every reachable state.
LEMMA ReportAlways == Spec => []ReportInv
<1> QED
  BY ReportInit, ReportNext, PTL DEF Spec

\* An export, a command and a durable report of parser_migration.rs are never
\* in a state that has no name.
THEOREM MigrationTypes == Spec => []TypeOK
<1>1. ReportInv => TypeOK
  <2> SUFFICES ASSUME ReportInv
               PROVE  TypeOK
    OBVIOUS
  <2>1. build \in DOMAIN Builds
    BY DEF ReportInv, EvidenceInv, RowsOK
  <2>2. /\ export \in [Archives -> {"stored", "imported", "failed", "erased"}]
        /\ \A i \in Requests : deletion[i] = None \/ deletion[i].stage \in {"planned", "rows_removed"}
    BY DEF ReportInv, Accounts, HistoryOK
  <2>3. \A o \in Operators :
           Cmd(o).pc \in {"idle", "list", "plan", "read", "apply", "begin", "commit"}
    <3>1. \A o \in Operators : command[o] = Idle \/ InformedCommand(reads, clock, command[o])
      BY DEF ReportInv, Accounts, Informed
    <3>2. Idle.pc = "idle"
      BY DEF Idle
    <3> QED
      BY <3>1, <3>2 DEF InformedCommand, Cmd
  <2>4. \A p \in Operations : reports[p] = None \/ reports[p] \in Reports
    BY DEF ReportInv, Accounts, ReportsOK, ReportOK
  <2> QED
    BY <2>1, <2>2, <2>3, <2>4 DEF TypeOK
<1> QED
  BY <1>1, ReportAlways, PTL

\* Commands with one operation identity, run one after the other or at once,
\* crashed or not, all return the report that is stored (parser_migration.rs,
\* apply).
THEOREM CallersAlwaysAgree == Spec => []CallersAgree
<1>1. ReportInv => CallersAgree
  BY DEF ReportInv, Accounts, ReportsOK, CallersAgree
<1> QED
  BY <1>1, ReportAlways, PTL

\* A durable report tells what happened to the conversations of every archive
\* it lists, and nothing of its projects, which compare leaves out, whatever
\* other commands, deletions and lost commits came between (parser_migration.rs
\* and reparse.rs).
THEOREM ReportsStayHonest == Spec => []ReportsAreHonest
<1>1. ASSUME ReportInv
      PROVE  ReportsAreHonest
  <2> SUFFICES ASSUME NEW p \in Operations, reports[p] # None
               PROVE  LET report == reports[p]
                          Of(a) == {r \in reads : r.archive = a /\ r.target = report.target}
                          Moved(r) == Projection(r.after) # Projection(r.old)
                          Told(a, status) == report.entries[a] = status
                      IN /\ report.status = "completed"
                               <=> ~\E a \in DOMAIN report.entries : Told(a, "failed")
                         /\ \A a \in DOMAIN report.entries :
                               /\ Told(a, "applied") =>
                                     \E r \in Of(a) : Projection(r.old) = r.input => Moved(r)
                               /\ Told(a, "unchanged") =>
                                     \E r \in Of(a) : Projection(r.old) = r.input => ~Moved(r)
                               /\ Told(a, "already_current") => Of(a) # {}
    BY DEF ReportsAreHonest
  <2>1. ReportOK(reads, reports[p])
    BY <1>1 DEF ReportInv, Accounts, ReportsOK
  <2>2. reports[p].status = "completed"
           <=> ~\E a \in DOMAIN reports[p].entries : reports[p].entries[a] = "failed"
    BY <2>1 DEF ReportOK, Range
  <2>3. \A a \in DOMAIN reports[p].entries :
           ShownAt(reads, a, reports[p].target, reports[p].entries[a])
    BY <2>1 DEF ReportOK, Shown
  <2> QED
    BY <2>2, <2>3 DEF ShownAt, By, Changed
<1> QED
  BY <1>1, ReportAlways, PTL

\* What compatible_versions promises (parser_registry.rs): the versions of a
\* file, oldest first.
ReleasesAreListedInOrder ==
    \A b \in DOMAIN Builds, a \in Archives :
        LET ids == Compatibles[b][a]
        IN \A i, j \in DOMAIN ids : i < j => Release[ids[i].version] < Release[ids[j].version]

\* Where compatible_versions lists the releases in order, no reparse goes back
\* to an older release, however commands interleave (reparse.rs, plan).
LEMMA ReparseFollowsTheList ==
  ASSUME ReleasesAreListedInOrder
  PROVE  Spec => []ReparseUpgrades
<1>1. ReportInv => ReparseUpgrades
  <2> SUFFICES ASSUME ReportInv, NEW r \in reads, r.from = r.planned, r.from # None
               PROVE  Release[r.from.version] < Release[r.target.version]
    BY DEF ReparseUpgrades
  <2>1. WentForward(r)
    BY DEF ReportInv, Accounts, HistoryOK
  <2>2. r.archive \in Archives /\ \E b \in DOMAIN Builds : Forward(r.from, r.target, b, r.archive)
    BY <2>1 DEF WentForward
  <2> QED
    BY <2>2, ReleasesAreListedInOrder DEF ReleasesAreListedInOrder, Forward
<1> QED
  BY <1>1, ReportAlways, PTL

\* Where a later release has a higher version and the parsers of a file are
\* releases of one, no reparse goes back to an older release, however commands
\* interleave (reparse.rs, plan).
THEOREM ReparseAlwaysUpgrades ==
    ASSUME ReleasesFollowVersions, OneParserPerFile
    PROVE Spec => []ReparseUpgrades
<1>1. ASSUME NEW b \in DOMAIN Builds, NEW a \in Archives
      PROVE InReleaseOrder(Compatibles[b][a])
  <2>1. Builds[b] \in Seq(DeclarationType)
      BY DeclarationsAreTyped
  <2>2. \A k \in DOMAIN Builds[b] : Builds[b][k] \in Range(Builds[b])
      BY DEF Range
  <2>3. InReleaseOrder(CompatibleVersions(Registry(Builds[b]), Inventory[a].signals, Mode))
      BY <2>1, <2>2, ListedInReleaseOrder
  <2> QED
      BY <2>3 DEF Compatibles, Declarations
<1>2. ASSUME NEW b \in DOMAIN Builds, NEW a \in Archives
      PROVE LET ids == Compatibles[b][a]
            IN \A i, j \in DOMAIN ids : i < j => Release[ids[i].version] < Release[ids[j].version]
  <2>1. PICK ids : ids = Compatibles[b][a]
      OBVIOUS
  <2>2. InReleaseOrder(ids) /\ \A i, j \in DOMAIN ids : ids[i].name = ids[j].name
      BY <1>1, <2>1, OneParserPerFile DEF OneParserPerFile
  <2>3. \A i, j \in DOMAIN ids : i < j => Release[ids[i].version] < Release[ids[j].version]
      BY <2>2 DEF InReleaseOrder
  <2> QED
      BY <2>1, <2>3
<1>3. ReleasesAreListedInOrder
    BY <1>2 DEF ReleasesAreListedInOrder
<1> QED
    BY <1>3, ReparseFollowsTheList

-----------------------------------------------------------------------------
(* What is read *)

\* An imported export was accepted by the inspection.
AcceptedInv == \A a \in Archives : export[a] = "imported" => ~Inventory[a].refused

\* Only an import (initial_import.rs) makes an export imported, and not a refused one.
LEMMA AcceptedAlways == Spec => []AcceptedInv
<1>1. Init => AcceptedInv
    BY DEF Init, AcceptedInv
<1>2. ASSUME EvidenceInv, AcceptedInv, [Next]_vars
      PROVE AcceptedInv'
  <2>1. CASE UNCHANGED export
      BY <1>2, <2>1 DEF AcceptedInv
  <2>2. DOMAIN export = Archives
      BY <1>2 DEF EvidenceInv, RowsOK
  <2>3. CASE \E a \in Archives : Import(a)
    <3>1. PICK a \in Archives : Import(a)
        BY <2>3
    <3>2. CASE Importable(a)
      <4>1. export' = [export EXCEPT ![a] = "imported"] /\ ~Inventory[a].refused
          BY <3>1, <3>2 DEF Import, Importable
      <4> QED
          BY <1>2, <2>2, <4>1 DEF AcceptedInv
    <3>3. CASE ~Importable(a)
      <4>1. export' = [export EXCEPT ![a] = "failed"]
          BY <3>1, <3>3 DEF Import
      <4> QED
          BY <1>2, <2>2, <4>1 DEF AcceptedInv
    <3> QED
        BY <3>2, <3>3
  <2>4. CASE \E i \in Requests : RemoveRows(i)
    <3>1. PICK a : export' = [export EXCEPT ![a] = "erased"]
        BY <2>4 DEF RemoveRows
    <3> QED
        BY <1>2, <2>2, <3>1 DEF AcceptedInv
  <2>5. CASE UNCHANGED vars
      BY <2>1, <2>5 DEF vars
  <2>6. CASE Deploy \/ (\E i \in Requests : EraseBytes(i)) \/ \E a \in Archives : PlanDeletion(a)
      BY <2>1, <2>6 DEF Deploy, EraseBytes, PlanDeletion
  <2>7. ASSUME NEW o \in Operators,
               \/ \E p \in Operations, t \in Targets : Start(o, p, t)
               \/ ListExports(o) \/ DryRun(o) \/ BeginApply(o) \/ BeginTransaction(o)
               \/ Finish(o) \/ Crash(o)
        PROVE AcceptedInv'
      BY <2>1, <2>7 DEF Start, ListExports, DryRun, BeginApply, BeginTransaction, Finish, Crash
  <2>8. ASSUME NEW o \in Operators, NEW a \in Archives,
               \/ PlanRow(o, a) \/ PlanRead(o, a) \/ PlanFails(o, a) \/ ApplyChecks(o, a)
               \/ CommitReparse(o, a) \/ CommitUnanswered(o, a) \/ ApplyFails(o, a)
        PROVE AcceptedInv'
      BY <2>1, <2>8 DEF PlanRow, PlanRead, PlanFails, ApplyChecks, CommitReparse, CommitUnanswered,
                        ApplyFails
  <2> QED
      BY <1>2, <2>3, <2>4, <2>5, <2>6, <2>7, <2>8 DEF Next
<1> QED
    BY <1>1, <1>2, EvidenceAlways, PTL DEF Spec

\* inspect_zip (archive.rs) accepts exactly the safe files, and every observed
\* project and conversation comes from a safe file, however imports, deletions and
\* reparses interleave.
THEOREM OnlySafeFilesAreEverRead == Spec => []OnlySafeFilesAreRead
<1>1. ASSUME EvidenceInv, AcceptedInv
      PROVE OnlySafeFilesAreRead
  <2>1. \A zip \in Files : ~Inspected(zip).refused <=> Safe(zip)
      BY FilesAreZips, InspectionIsTheRules
  <2>2. ASSUME NEW a \in Archives, seen[a] # Nothing
        PROVE Safe(Upload[a])
    <3>1. ~Inspected(Upload[a]).refused
        BY <1>1, <2>2 DEF EvidenceInv, RowsOK, AcceptedInv, Inventory
    <3> QED
        BY <3>1, FilesAreZips, InspectionIsTheRules
  <2> QED
      BY <2>1, <2>2 DEF OnlySafeFilesAreRead
<1> QED
    BY <1>1, EvidenceAlways, AcceptedAlways, PTL
=============================================================================
