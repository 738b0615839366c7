------------------------------- MODULE Receipt -------------------------------
(***************************************************************************)
(* Archive receipt: one handler per upload, the durable run anchor, the    *)
(* staging file, the duplicate check, the publication of the export with   *)
(* its Platform correlation, and the sweep that resumes interrupted runs   *)
(* when the service starts, before its listener does.                      *)
(*                                                                         *)
(* A run is one upload request.  An export is named by the run that        *)
(* published it.  Contents are represented by their digests; a staging     *)
(* file holds NoDigest (no file), the digest of a proper prefix or the     *)
(* digest of the whole body.  Blob bytes are the subject of BlobProtocol.  *)
(***************************************************************************)
EXTENDS Integers

CONSTANTS
    Runs,       \* upload requests
    Tenants,    \* owning accounts
    Digests,    \* content digests
    Ops,        \* Platform operations
    RunTenant,  \* RunTenant[r]: the account the request is authenticated for
    Body,       \* Body[r]: digest of the whole body the client sends
    CutOf,      \* CutOf[d]: digest of a proper prefix of the content d
    Expected,   \* Expected[r]: the content the declared length and digest admit
    OpOf,       \* OpOf[r]: the Platform operation of the request, or NoOp
    NoDigest, NoOp, NoRun,
    MaxFaults   \* bound on crashes, disconnects and database errors

ASSUME ReceiptConstants ==
    /\ NoDigest \notin Digests /\ NoOp \notin Ops /\ NoRun \notin Runs
    /\ RunTenant \in [Runs -> Tenants]
    /\ Body \in [Runs -> Digests]
    /\ CutOf \in [Digests -> Digests]
    /\ Expected \in [Runs -> Digests \cup {NoDigest}]
    /\ OpOf \in [Runs -> Ops \cup {NoOp}]
    /\ MaxFaults \in Nat

VARIABLES
    phase,    \* the service process: down, sweeping or serving
    swept,    \* runs the sweep has listed and not yet resumed
    pc,       \* pc[r]: program counter of the handler or of the resume of r
    found,    \* found[r]: the export the duplicate check of r found
    answer,   \* answer[r]: what the handler decided to tell its client
    named,    \* named[r]: the export named in a successful answer
    run,      \* run[r]: import_runs.state
    hash,     \* hash[r]: import_runs.sha256_hex
    staging,  \* staging[r]: content of the staging file
    exports,  \* export rows
    bound,    \* bound[o]: the run platform_operation_imports binds o to
    faults    \* number of faults so far

process == <<phase, swept>>
local == <<pc, found>>
client == <<answer, named>>
durable == <<run, hash, staging, exports, bound>>
vars == <<phase, swept, pc, found, answer, named, run, hash, staging, exports,
          bound, faults>>

\* Program counters: "settling" and what follows it is settle_hashed.
Pcs == {"idle", "streaming", "failing", "staged", "settling", "duplicate", "bound",
        "fresh", "published", "cleanup"}

Resumable == {"received", "hashed"}

\* The operation a settlement binds: resume passes None.
Op(r) == IF phase = "serving" THEN OpOf[r] ELSE NoOp

\* Mutant: the duplicate check forgets the digest.
SameAccount(r) == {e \in exports : RunTenant[e] = RunTenant[r]}

\* The unique key (account_id, sha256_hex).
SameArchive(r) == {e \in exports : RunTenant[e] = RunTenant[r] /\ hash[e] = hash[r]}

\* ON CONFLICT (operation_id) DO NOTHING.
Bind(o, e) == bound' = [p \in Ops |-> IF p = o /\ bound[p] = NoRun THEN e ELSE bound[p]]

Goto(r, label) == pc' = [pc EXCEPT ![r] = label]

\* The sweep only logs; a handler answers its client.
Tell(r, what, export) ==
    /\ answer' = IF phase = "serving" THEN [answer EXCEPT ![r] = what] ELSE answer
    /\ named' = IF phase = "serving" THEN [named EXCEPT ![r] = export] ELSE named

Fault == faults < MaxFaults /\ faults' = faults + 1

Init ==
    /\ phase = "serving"
    /\ swept = {}
    /\ pc = [r \in Runs |-> "idle"]
    /\ found = [r \in Runs |-> NoRun]
    /\ answer = [r \in Runs |-> "none"]
    /\ named = [r \in Runs |-> NoRun]
    /\ run = [r \in Runs |-> "absent"]
    /\ hash = [r \in Runs |-> NoDigest]
    /\ staging = [r \in Runs |-> NoDigest]
    /\ exports = {}
    /\ bound = [o \in Ops |-> NoRun]
    /\ faults = 0

-----------------------------------------------------------------------------
(***************************************************************************)
(* receive_inner, up to the recorded digest.                               *)
(***************************************************************************)

\* The anchor exists before the first body byte is read.
CreateRun(r) ==
    /\ phase = "serving" /\ run[r] = "absent"
    /\ run' = [run EXCEPT ![r] = "received"]
    /\ Goto(r, "streaming")
    /\ UNCHANGED <<process, found, client, hash, staging, exports, bound, faults>>

\* The insert commits and its acknowledgement is lost: nothing is streamed.
CreateRunUnacknowledged(r) ==
    /\ phase = "serving" /\ run[r] = "absent"
    /\ Fault
    /\ run' = [run EXCEPT ![r] = "received"]
    /\ Tell(r, "error", NoRun)
    /\ UNCHANGED <<process, local, hash, staging, exports, bound>>

\* stream_to_staging: part of the body is in the file.
WriteChunk(r) ==
    /\ pc[r] = "streaming" /\ staging[r] = NoDigest
    /\ staging' = [staging EXCEPT ![r] = CutOf[Body[r]]]
    /\ UNCHANGED <<process, local, client, run, hash, exports, bound, faults>>

FinishStream(r) ==
    /\ pc[r] = "streaming"
    /\ staging' = [staging EXCEPT ![r] = Body[r]]
    /\ Goto(r, "staged")
    /\ UNCHANGED <<process, found, client, run, hash, exports, bound, faults>>

\* An oversized declaration, an overgrown or broken stream, an I/O error.
StreamFailed(r) ==
    /\ pc[r] = "streaming"
    /\ staging' = [staging EXCEPT ![r] = NoDigest]
    /\ Goto(r, "failing")
    /\ UNCHANGED <<process, found, client, run, hash, exports, bound, faults>>

Admitted(r) == Expected[r] \in {NoDigest, staging[r]}

\* The declared length or the expected digest disagrees with what arrived.
RefuseMismatch(r) ==
    /\ phase = "serving" /\ pc[r] = "staged"
    /\ ~Admitted(r)
    /\ staging' = [staging EXCEPT ![r] = NoDigest]
    /\ Goto(r, "failing")
    /\ UNCHANGED <<process, found, client, run, hash, exports, bound, faults>>

\* Mutant: the failed run's anchor is deleted.
FailRunRemoves(r) ==
    /\ pc[r] = "failing"
    /\ run' = [run EXCEPT ![r] = IF @ \in Resumable THEN "absent" ELSE @]
    /\ Tell(r, "error", NoRun)
    /\ Goto(r, "idle")
    /\ UNCHANGED <<process, found, hash, staging, exports, bound, faults>>

\* fail_run: compare-and-set to failed.
FailRun(r) ==
    /\ pc[r] = "failing"
    /\ run' = [run EXCEPT ![r] = IF @ \in Resumable THEN "failed" ELSE @]
    /\ Tell(r, "error", NoRun)
    /\ Goto(r, "idle")
    /\ UNCHANGED <<process, found, hash, staging, exports, bound, faults>>

\* A database error in fail_run is swallowed.
FailRunLost(r) ==
    /\ pc[r] = "failing"
    /\ Fault
    /\ Tell(r, "error", NoRun)
    /\ Goto(r, "idle")
    /\ UNCHANGED <<process, found, run, hash, staging, exports, bound>>

\* Compare-and-set received -> hashed.  A resumed run skips the expectations:
\* they belong to the request.
RecordHash(r) ==
    /\ pc[r] = "staged"
    /\ phase = "serving" => Admitted(r)
    /\ run[r] = "received"
    /\ run' = [run EXCEPT ![r] = "hashed"]
    /\ hash' = [hash EXCEPT ![r] = staging[r]]
    /\ Goto(r, "settling")
    /\ UNCHANGED <<process, found, client, staging, exports, bound, faults>>

\* record_hash fails, or commits without an acknowledgement: the error returns
\* at once and the file stays.
RecordHashFails(r) ==
    /\ pc[r] = "staged"
    /\ phase = "serving" => Admitted(r)
    /\ Fault
    /\ \/ UNCHANGED <<run, hash>>
       \/ /\ run' = [run EXCEPT ![r] = "hashed"]
          /\ hash' = [hash EXCEPT ![r] = staging[r]]
    /\ Tell(r, "error", NoRun)
    /\ Goto(r, "idle")
    /\ UNCHANGED <<process, found, staging, exports, bound>>

-----------------------------------------------------------------------------
(***************************************************************************)
(* settle_hashed.                                                          *)
(***************************************************************************)
FindExport(r) ==
    /\ pc[r] = "settling"
    /\ \/ /\ SameArchive(r) = {}
          /\ Goto(r, "fresh")
          /\ UNCHANGED found
       \/ \E e \in SameArchive(r) :
             /\ found' = [found EXCEPT ![r] = e]
             /\ Goto(r, "duplicate")
    /\ UNCHANGED <<process, client, durable, faults>>

\* bind_platform_operation: the owning run of the found export takes the
\* operation.
BindOperation(r) ==
    /\ pc[r] = "duplicate" /\ Op(r) # NoOp
    /\ found[r] \in exports
    /\ Bind(Op(r), found[r])
    /\ Goto(r, "bound")
    /\ UNCHANGED <<process, found, client, run, hash, staging, exports, faults>>

\* The export was deleted in between: no owning run, or a foreign key error.
BindRefused(r) ==
    /\ pc[r] = "duplicate" /\ Op(r) # NoOp
    /\ found[r] \notin exports
    /\ Tell(r, "error", NoRun)
    /\ Goto(r, "cleanup")
    /\ UNCHANGED <<process, found, durable, faults>>

\* Mutant: the run is marked before the operation is bound.
MarkDuplicateUnbound(r) ==
    /\ pc[r] \in {"bound", "duplicate"}
    /\ run[r] = "hashed"
    /\ run' = [run EXCEPT ![r] = "duplicate"]
    /\ Tell(r, "duplicate", found[r])
    /\ Goto(r, "cleanup")
    /\ UNCHANGED <<process, found, hash, staging, exports, bound, faults>>

\* Compare-and-set hashed -> duplicate.
MarkDuplicate(r) ==
    /\ pc[r] = "bound" \/ (pc[r] = "duplicate" /\ Op(r) = NoOp)
    /\ run[r] = "hashed"
    /\ run' = [run EXCEPT ![r] = "duplicate"]
    /\ Tell(r, "duplicate", found[r])
    /\ Goto(r, "cleanup")
    /\ UNCHANGED <<process, found, hash, staging, exports, bound, faults>>

\* The mark commits and its acknowledgement is lost.
MarkUnacknowledged(r) ==
    /\ pc[r] = "bound" \/ (pc[r] = "duplicate" /\ Op(r) = NoOp)
    /\ run[r] = "hashed"
    /\ Fault
    /\ run' = [run EXCEPT ![r] = "duplicate"]
    /\ Tell(r, "error", NoRun)
    /\ Goto(r, "cleanup")
    /\ UNCHANGED <<process, found, hash, staging, exports, bound>>

\* publish_staged: the bytes go to the blob store.
PublishStaged(r) ==
    /\ pc[r] = "fresh"
    /\ Goto(r, "published")
    /\ UNCHANGED <<process, found, client, durable, faults>>

\* Mutant: the early duplicate check is trusted.
StoreRowsUnchecked(r) ==
    /\ run[r] = "hashed"
    /\ exports' = exports \cup {r}
    /\ run' = [run EXCEPT ![r] = "stored"]
    /\ Bind(Op(r), r)
    /\ UNCHANGED <<hash, staging>>

\* The rows publish_export commits: export, run and correlation together.
StoreRows(r) ==
    /\ SameArchive(r) = {}
    /\ run[r] = "hashed"
    /\ exports' = exports \cup {r}
    /\ run' = [run EXCEPT ![r] = "stored"]
    /\ Bind(Op(r), r)
    /\ UNCHANGED <<hash, staging>>

PublishExport(r) ==
    /\ pc[r] = "published"
    /\ StoreRows(r)
    /\ Tell(r, "stored", r)
    /\ Goto(r, "cleanup")
    /\ UNCHANGED <<process, found, faults>>

\* The second duplicate check, under the account row lock.
PublishDuplicate(r) ==
    /\ pc[r] = "published"
    /\ \E e \in SameArchive(r) : found' = [found EXCEPT ![r] = e]
    /\ Goto(r, "duplicate")
    /\ UNCHANGED <<process, client, durable, faults>>

\* The transaction commits and its acknowledgement is lost.
PublishUnacknowledged(r) ==
    /\ pc[r] = "published"
    /\ Fault
    /\ StoreRows(r)
    /\ Tell(r, "error", NoRun)
    /\ Goto(r, "cleanup")
    /\ UNCHANGED <<process, found>>

\* A database or storage error anywhere in settle_hashed.
SettleFails(r) ==
    /\ pc[r] \in {"settling", "duplicate", "bound", "fresh", "published"}
    /\ Fault
    /\ Tell(r, "error", NoRun)
    /\ Goto(r, "cleanup")
    /\ UNCHANGED <<process, found, durable>>

\* Whatever the outcome, the staging file goes.
RemoveStaging(r) ==
    /\ pc[r] = "cleanup"
    /\ staging' = [staging EXCEPT ![r] = NoDigest]
    /\ found' = [found EXCEPT ![r] = NoRun]
    /\ Goto(r, "idle")
    /\ UNCHANGED <<process, client, run, hash, exports, bound, faults>>

-----------------------------------------------------------------------------
(***************************************************************************)
(* The process: disconnects, crashes, the startup sweep.                   *)
(***************************************************************************)

\* The client goes away: the handler is dropped where it awaits.
Disconnect(r) ==
    /\ phase = "serving" /\ pc[r] # "idle"
    /\ Fault
    /\ Goto(r, "idle")
    /\ found' = [found EXCEPT ![r] = NoRun]
    /\ UNCHANGED <<process, client, durable>>

Crash ==
    /\ phase # "down"
    /\ Fault
    /\ phase' = "down"
    /\ swept' = {}
    /\ pc' = [r \in Runs |-> "idle"]
    /\ found' = [r \in Runs |-> NoRun]
    /\ UNCHANGED <<client, durable>>

\* Mutant: only hashed runs are listed.
StartSweepHashed ==
    /\ phase = "down"
    /\ phase' = "sweeping"
    /\ swept' = {r \in Runs : run[r] = "hashed"}
    /\ UNCHANGED <<local, client, durable, faults>>

\* sweep_interrupted: list_resumable once.
StartSweep ==
    /\ phase = "down"
    /\ phase' = "sweeping"
    /\ swept' = {r \in Runs : run[r] \in Resumable}
    /\ UNCHANGED <<local, client, durable, faults>>

\* The list cannot be read: the service serves without a sweep.
SweepUnreadable ==
    /\ phase = "down"
    /\ Fault
    /\ phase' = "serving"
    /\ UNCHANGED <<swept, local, client, durable>>

\* resume: one run after the other.
ResumeRun(r) ==
    /\ phase = "sweeping" /\ r \in swept
    /\ \A o \in Runs : pc[o] = "idle"
    /\ swept' = swept \ {r}
    /\ Goto(r, IF run[r] = "received" /\ staging[r] # NoDigest THEN "staged"
               ELSE IF run[r] = "hashed" /\ staging[r] = hash[r] THEN "settling"
               ELSE "failing")
    /\ UNCHANGED <<phase, found, client, durable, faults>>

\* The staging file cannot be read: the run fails although its bytes exist.
ResumeUnreadable(r) ==
    /\ phase = "sweeping" /\ r \in swept
    /\ \A o \in Runs : pc[o] = "idle"
    /\ staging[r] # NoDigest
    /\ Fault
    /\ swept' = swept \ {r}
    /\ Goto(r, "failing")
    /\ UNCHANGED <<phase, found, client, durable>>

\* load_run fails: the sweep goes on with the next run.
ResumeSkipped(r) ==
    /\ phase = "sweeping" /\ r \in swept
    /\ \A o \in Runs : pc[o] = "idle"
    /\ Fault
    /\ swept' = swept \ {r}
    /\ UNCHANGED <<phase, local, client, durable>>

\* The listener starts after the sweep.
Serve ==
    /\ phase = "sweeping" /\ swept = {}
    /\ \A r \in Runs : pc[r] = "idle"
    /\ phase' = "serving"
    /\ UNCHANGED <<swept, local, client, durable, faults>>

\* A privacy deletion removes the export with its run and correlations.
DeleteExport(e) ==
    /\ e \in exports
    /\ exports' = exports \ {e}
    /\ run' = [run EXCEPT ![e] = "erased"]
    /\ bound' = [o \in Ops |-> IF bound[o] = e THEN NoRun ELSE bound[o]]
    /\ UNCHANGED <<process, local, client, hash, staging, faults>>

-----------------------------------------------------------------------------
Work(r) ==
    \/ FinishStream(r) \/ RefuseMismatch(r) \/ FailRun(r) \/ RecordHash(r)
    \/ FindExport(r) \/ BindOperation(r) \/ BindRefused(r) \/ MarkDuplicate(r)
    \/ PublishStaged(r) \/ PublishExport(r) \/ PublishDuplicate(r) \/ RemoveStaging(r)

Sweep == StartSweep \/ Serve \/ \E r \in Runs : ResumeRun(r)

Faulty(r) ==
    \/ CreateRunUnacknowledged(r) \/ FailRunLost(r) \/ RecordHashFails(r)
    \/ MarkUnacknowledged(r) \/ PublishUnacknowledged(r) \/ SettleFails(r)
    \/ Disconnect(r) \/ ResumeUnreadable(r) \/ ResumeSkipped(r)

Next ==
    \/ \E r \in Runs : CreateRun(r) \/ WriteChunk(r) \/ StreamFailed(r) \/ Work(r)
    \/ Sweep
    \/ \E r \in Runs : Faulty(r)
    \/ Crash \/ SweepUnreadable
    \/ \E e \in Runs : DeleteExport(e)

Spec == Init /\ [][Next]_vars

-----------------------------------------------------------------------------
TypeOK ==
    /\ phase \in {"down", "sweeping", "serving"}
    /\ swept \subseteq Runs
    /\ pc \in [Runs -> Pcs]
    /\ found \in [Runs -> Runs \cup {NoRun}]
    /\ answer \in [Runs -> {"none", "stored", "duplicate", "error"}]
    /\ named \in [Runs -> Runs \cup {NoRun}]
    /\ run \in [Runs -> {"absent", "received", "hashed", "stored", "duplicate",
                         "failed", "completed", "partial", "erased"}]
    /\ hash \in [Runs -> Digests \cup {NoDigest}]
    /\ staging \in [Runs -> Digests \cup {NoDigest}]
    /\ exports \subseteq Runs
    /\ bound \in [Ops -> Runs \cup {NoRun}]
    /\ faults \in 0..MaxFaults

\* Two uploads of the same bytes for one account, racing with each other, with
\* a resume or with a deletion, never make two exports (publish_export).
OneExportPerArchive ==
    \A d, e \in exports : RunTenant[d] = RunTenant[e] /\ hash[d] = hash[e] => d = e

\* Acknowledged bytes are the client's bytes: the export a successful answer
\* names carries the digest of the whole body the client sent, and the
\* declared length and digest admit it.
AcknowledgedBytesAreTheUpload ==
    \A r \in Runs : answer[r] \in {"stored", "duplicate"} =>
        /\ RunTenant[named[r]] = RunTenant[r]
        /\ hash[named[r]] = Body[r]
        /\ Expected[r] \in {NoDigest, hash[named[r]]}

\* An accepted Platform upload has its operation bound to the export the
\* answer names for as long as that export exists, so that the import worker
\* can report it; the duplicate path and a racing deletion included.
AcceptedOperationIsBound ==
    \A r \in Runs :
        answer[r] \in {"stored", "duplicate"} /\ OpOf[r] # NoOp /\ named[r] \in exports
            => bound[OpOf[r]] # NoRun

\* The state machine of receipt/state.rs, which the receipt, its sweep and the
\* deletion implement.
Machine == INSTANCE ImportState WITH state <- run

\* What a crash interrupts is settled by the next start: when no further fault
\* happens, there comes a time when no run is received or hashed.
InterruptedRunsSettle ==
    phase = "down" /\ faults = MaxFaults ~> \A r \in Runs : run[r] \notin Resumable

\* A truncated upload fails durably and publishes nothing: an export holds a
\* whole body that the request's declared length and digest admit.
ExportsAreWholeUploads ==
    \A e \in exports : hash[e] = Body[e] /\ Expected[e] \in {NoDigest, hash[e]}
=============================================================================
