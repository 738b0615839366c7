---------------------------- MODULE ImportPipeline ----------------------------
(***************************************************************************)
(* The receipt composed with the initial import worker and the terminal    *)
(* operation reports.  The worker is one loop in the service process.  It  *)
(* picks one run, builds a plan outside any transaction, and commits the   *)
(* import, the facts and the reports in one transaction under the tenant   *)
(* lock; a privacy deletion may commit between any two of these steps.     *)
(***************************************************************************)
EXTENDS Receipt

VARIABLES
    wpc,      \* program counter of the worker
    wrun,     \* the run the worker picked
    wops,     \* operations a late report has read
    reported, \* operations whose binding carries reported_at
    reports   \* reports[o]: the report rows queued for o, as [run, kind] records

worker == <<wpc, wrun, wops>>
pipelineVars == <<vars, wpc, wrun, wops, reported, reports>>

Report(r, kind) == [run |-> r, kind |-> kind]

Unreported(r) == {o \in Ops : bound[o] = r /\ o \notin reported}

\* Mutant: a run that failed for good is not selected for its reports.
PendingUnfailed(r) ==
    /\ r \in exports
    /\ \/ run[r] = "stored"
       \/ run[r] \in {"completed", "partial"} /\ Unreported(r) # {}

\* The selector of process_pending_once.
Pending(r) ==
    /\ r \in exports
    /\ \/ run[r] = "stored"
       \/ run[r] \in {"completed", "partial", "failed"} /\ Unreported(r) # {}

\* The deduplication key admits one report row per operation.
Enqueue(ops, report) ==
    reports' = [o \in Ops |-> IF o \in ops /\ reports[o] = {} THEN {report} ELSE reports[o]]

Rest ==
    /\ wpc' = "idle" /\ wrun' = NoRun /\ wops' = {}

PipelineInit ==
    /\ Init
    /\ wpc = "idle" /\ wrun = NoRun /\ wops = {}
    /\ reported = {}
    /\ reports = [o \in Ops |-> {}]

-----------------------------------------------------------------------------
\* Mutant: a failed run is reported like an imported one.
PickRunFailedAsLate(r) ==
    /\ phase = "serving" /\ wpc = "idle"
    /\ Pending(r)
    /\ wrun' = r
    /\ wpc' = IF run[r] = "stored" THEN "build" ELSE "lateRead"
    /\ UNCHANGED <<vars, wops, reported, reports>>

\* Runs that owe a report come first.
PickRun(r) ==
    /\ phase = "serving" /\ wpc = "idle"
    /\ Pending(r)
    /\ Unreported(r) = {} => \A o \in Runs : Pending(o) => Unreported(o) = {}
    /\ wrun' = r
    /\ wpc' = IF run[r] = "failed" THEN "failedReport"
              ELSE IF run[r] = "stored" THEN "build" ELSE "lateRead"
    /\ UNCHANGED <<vars, wops, reported, reports>>

\* build_initial_plan: verify, inspect, select a parser, parse.
BuildPlan ==
    /\ wpc = "build"
    /\ wpc' \in {"persist", "permanent"}
    /\ UNCHANGED <<vars, wrun, wops, reported, reports>>

\* Any other error ends the pass; the run is picked again later.
PassFails ==
    /\ wpc # "idle"
    /\ Fault
    /\ Rest
    /\ UNCHANGED <<process, local, client, durable, reported, reports>>

\* persist_initial_plan and project_and_report.
PersistPlan ==
    /\ wpc = "persist"
    /\ run[wrun] \notin {"completed", "partial", "erased"}
    /\ \E state \in {"completed", "partial"} : run' = [run EXCEPT ![wrun] = state]
    /\ Enqueue(Unreported(wrun), Report(wrun, "imported"))
    /\ reported' = reported \cup Unreported(wrun)
    /\ Rest
    /\ UNCHANGED <<process, local, client, hash, staging, exports, bound, faults>>

\* The run is gone or already imported: nothing is written.
PersistNothing ==
    /\ wpc = "persist"
    /\ run[wrun] \in {"completed", "partial", "erased"}
    /\ Rest
    /\ UNCHANGED <<vars, reported, reports>>

\* Mutant: a file that cannot be imported is quarantined, a state the schema
\* lists and no code writes.
MarkPermanentFailureQuarantines ==
    /\ wpc = "permanent"
    /\ run' = [run EXCEPT ![wrun] = IF @ = "stored" THEN "quarantined" ELSE @]
    /\ Enqueue(Unreported(wrun), Report(wrun, "failed"))
    /\ reported' = reported \cup Unreported(wrun)
    /\ Rest
    /\ UNCHANGED <<process, local, client, hash, staging, exports, bound, faults>>

\* mark_permanent_failure and enqueue_failed_reports.
MarkPermanentFailure ==
    /\ wpc = "permanent"
    /\ run' = [run EXCEPT ![wrun] =
                  IF @ \in {"completed", "partial", "failed", "erased"} THEN @ ELSE "failed"]
    /\ Enqueue(Unreported(wrun), Report(wrun, "failed"))
    /\ reported' = reported \cup Unreported(wrun)
    /\ Rest
    /\ UNCHANGED <<process, local, client, hash, staging, exports, bound, faults>>

\* An operation bound to a run that had failed for good.
ReportFailed ==
    /\ wpc = "failedReport"
    /\ Enqueue(Unreported(wrun), Report(wrun, "failed"))
    /\ reported' = reported \cup Unreported(wrun)
    /\ Rest
    /\ UNCHANGED vars

\* enqueue_operation_reports takes no tenant lock: what it reads may be
\* deleted before it writes, and then the foreign key to the export refuses
\* the report row.
ReadLateOperations ==
    /\ wpc = "lateRead"
    /\ wops' = Unreported(wrun)
    /\ wpc' = "lateWrite"
    /\ UNCHANGED <<vars, wrun, reported, reports>>

\* Mutant: no foreign key from the report row to its export.
WriteLateReportsUnbound ==
    /\ wpc = "lateWrite"
    /\ Enqueue(wops, Report(wrun, "imported"))
    /\ reported' = reported \cup wops
    /\ Rest
    /\ UNCHANGED vars

WriteLateReports ==
    /\ wpc = "lateWrite"
    /\ wops # {} => wrun \in exports
    /\ Enqueue(wops, Report(wrun, "imported"))
    /\ reported' = reported \cup wops
    /\ Rest
    /\ UNCHANGED vars

LateReportRefused ==
    /\ wpc = "lateWrite"
    /\ wops # {} /\ wrun \notin exports
    /\ Rest
    /\ UNCHANGED <<vars, reported, reports>>

\* A deletion drops the queued reports of the export and the correlations.
EraseExport(e) ==
    /\ DeleteExport(e)
    /\ reported' = {o \in reported : bound[o] # e}
    /\ reports' = [o \in Ops |-> {m \in reports[o] : m.run # e}]
    /\ UNCHANGED worker

WorkerStep ==
    \/ \E r \in Runs : PickRun(r)
    \/ BuildPlan \/ PersistPlan \/ PersistNothing \/ MarkPermanentFailure
    \/ ReportFailed \/ ReadLateOperations \/ WriteLateReports \/ LateReportRefused

ReceiptStep ==
    /\ \/ \E r \in Runs : CreateRun(r) \/ WriteChunk(r) \/ StreamFailed(r) \/ Work(r)
       \/ Sweep
       \/ \E r \in Runs : Faulty(r)
       \/ SweepUnreadable
    /\ UNCHANGED <<worker, reported, reports>>

CrashAll == Crash /\ Rest /\ UNCHANGED <<reported, reports>>

PipelineNext ==
    \/ ReceiptStep \/ CrashAll
    \/ WorkerStep \/ PassFails
    \/ \E e \in Runs : EraseExport(e)

PipelineSpec == PipelineInit /\ [][PipelineNext]_pipelineVars

(***************************************************************************)
(* The runtime polls every handler, the supervisor restarts the process,   *)
(* and the worker loop runs for as long as the process does: weak fairness *)
(* of their own steps and of the startup sweep.  No fairness for clients,  *)
(* faults or deletions.                                                    *)
(***************************************************************************)
PipelineFairness ==
    /\ WF_pipelineVars(WorkerStep)
    /\ WF_pipelineVars(Sweep /\ UNCHANGED <<worker, reported, reports>>)
    /\ \A r \in Runs : WF_pipelineVars(Work(r) /\ UNCHANGED <<worker, reported, reports>>)

FairPipelineSpec == PipelineSpec /\ PipelineFairness

-----------------------------------------------------------------------------
PipelineTypeOK ==
    /\ TypeOK
    /\ wpc \in {"idle", "build", "persist", "permanent", "failedReport", "lateRead",
                "lateWrite"}
    /\ wrun \in Runs \cup {NoRun}
    /\ wops \subseteq Ops
    /\ reported \subseteq Ops
    /\ \A o \in Ops : reports[o] \subseteq [run : Runs, kind : {"imported", "failed"}]

\* The move advance does not accept: persist_initial_plan takes a stored run
\* to its end with an UPDATE of its own, past inspected, parsed and reconciled,
\* which no code writes.
WorkerEnds ==
    /\ wpc = "persist" /\ run[wrun] = "stored"
    /\ \E state \in {"completed", "partial"} : run' = [run EXCEPT ![wrun] = state]

\* receipt/state.rs says that every writer of a run's state goes through
\* advance, and import-state/spec.md accepts no other transition.  They do, the
\* worker's last step excepted: whatever races, only a stored run is taken out
\* of turn, only by the worker and only to completed or partial, and a
\* terminal state never changes.
OnlyTheWorkerSkipsStages == Machine!Init /\ [][Machine!Next \/ WorkerEnds]_run

\* What Platform is told agrees with the run: a reported operation that is
\* bound to a run has a report row for it, failed exactly when the run failed.
ReportsAgreeWithRuns ==
    \A o \in reported : bound[o] # NoRun =>
        reports[o] = {Report(bound[o], IF run[bound[o]] = "failed" THEN "failed" ELSE "imported")}

\* The privacy deletion leaves no queued report about an erased export.
NoReportOfErasedExport ==
    \A o \in Ops : \A m \in reports[o] : m.run \in exports

\* Every accepted operation is reported unless its export is deleted first:
\* again and again there comes a time when no accepted operation waits.
AcceptedOperationIsReported ==
    []<>(\A r \in Runs :
            answer[r] \in {"stored", "duplicate"} /\ OpOf[r] # NoOp
                => named[r] \notin exports \/ OpOf[r] \in reported)
=============================================================================
