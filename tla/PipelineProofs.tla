--------------------------- MODULE PipelineProofs ---------------------------
(***************************************************************************)
(* Proofs about the archive receipt, for any number of uploads, accounts,  *)
(* contents, operations and faults, and about the receipt composed with    *)
(* the import worker and the operation reports.  ReceiptInv says what the  *)
(* step a handler has reached says about its run, and what an export row   *)
(* or an answer says about the run it names.  PipelineInv adds where the   *)
(* worker stands with the run it picked and what the report rows say about *)
(* the run their operation is bound to.                                    *)
(***************************************************************************)
EXTENDS ImportPipeline, TLAPS

\* Few leaves need another prover; those name it.
USE Zenon

\* The states of a run that owns an export row, and of one that did.
Placed == {"stored", "completed", "partial", "failed"}
Settled == Placed \cup {"erased"}

Settling == {"settling", "duplicate", "bound", "fresh", "published"}

Accepted(r) == answer[r] \in {"stored", "duplicate"}

\* e is, or was, an archive of r's account with the digest d.
Holds(e, r, d) ==
    e \in Runs /\ run[e] \in Settled /\ RunTenant[e] = RunTenant[r] /\ hash[e] = d

\* The run of a handler stands where the handler's program counter says.
HandlerOnCourse(r) ==
    /\ pc[r] \in {"streaming", "staged"} => run[r] = "received"
    /\ pc[r] \in Settling => run[r] = "hashed"
    /\ pc[r] \in {"duplicate", "bound"} => Holds(found[r], r, hash[r])
    /\ pc[r] = "bound" => OpOf[r] # NoOp
    /\ pc[r] \in {"streaming", "bound"} => phase = "serving"
    /\ phase = "down" => pc[r] = "idle"

\* While the listener is up a handler settles exactly the body it was sent.
HandlerCarriesTheBody(r) ==
    phase = "serving" =>
        /\ pc[r] = "staged" => staging[r] = Body[r]
        /\ pc[r] \in Settling => hash[r] = Body[r] /\ Expected[r] \in {NoDigest, Body[r]}

AnswerHolds(r) ==
    Accepted(r) => Holds(named[r], r, Body[r]) /\ Expected[r] \in {NoDigest, Body[r]}

ReceiptInv ==
    /\ TypeOK
    /\ \A e \in exports : run[e] \in Placed
    /\ \A r \in Runs : HandlerOnCourse(r)
    /\ \A r \in Runs : HandlerCarriesTheBody(r)
    /\ \A r \in Runs : AnswerHolds(r)
    /\ OneExportPerArchive
    /\ \A o \in Ops : bound[o] # NoRun => bound[o] \in exports

(***************************************************************************)
(* An operation belongs to one upload: its retries send the same archive   *)
(* for the same account.  The code does not compare them.                  *)
(***************************************************************************)
OneArchivePerOperation ==
    \A r, q \in Runs : OpOf[r] # NoOp /\ OpOf[r] = OpOf[q]
        => RunTenant[r] = RunTenant[q] /\ Body[r] = Body[q]

OperationOK(r) ==
    OpOf[r] # NoOp =>
        /\ bound[OpOf[r]] # NoRun => Holds(bound[OpOf[r]], r, Body[r])
        /\ pc[r] = "bound" /\ found[r] \in exports => bound[OpOf[r]] # NoRun
        /\ Accepted(r) /\ named[r] \in exports => bound[OpOf[r]] # NoRun

OperationInv == \A r \in Runs : OperationOK(r)

-----------------------------------------------------------------------------
\* Receiving the body: the run anchor, the staging file, a refused or broken
\* stream and the durable failure mark keep the invariant.
LEMMA StreamingKeeps ==
    ASSUME ReceiptInv, NEW r \in Runs,
           \/ CreateRun(r) \/ CreateRunUnacknowledged(r) \/ WriteChunk(r)
           \/ FinishStream(r) \/ StreamFailed(r) \/ RefuseMismatch(r)
           \/ FailRun(r) \/ FailRunLost(r)
    PROVE  ReceiptInv'
<1>0. Body[r] \in Digests /\ CutOf[Body[r]] \in Digests
  BY ReceiptConstants
<1> USE ReceiptConstants
       DEF ReceiptInv, TypeOK, Pcs, HandlerOnCourse, HandlerCarriesTheBody, AnswerHolds,
           Holds, Accepted, Placed, Settled, Settling, OneExportPerArchive,
           process, local, client, durable,
           Goto, Tell, Fault, Resumable, Admitted
<1>1. CASE CreateRun(r)
  BY <1>1, SMT DEF CreateRun
<1>2. CASE CreateRunUnacknowledged(r)
  BY <1>2, SMT DEF CreateRunUnacknowledged
<1>3. CASE WriteChunk(r)
  BY <1>0, <1>3, SMT DEF WriteChunk
<1>4. CASE FinishStream(r)
  BY <1>0, <1>4, SMT DEF FinishStream
<1>5. CASE StreamFailed(r)
  BY <1>5, SMT DEF StreamFailed
<1>6. CASE RefuseMismatch(r)
  BY <1>6, SMT DEF RefuseMismatch
<1>7. CASE FailRun(r)
  BY <1>7, SMT DEF FailRun
<1>8. CASE FailRunLost(r)
  BY <1>8, SMT DEF FailRunLost
<1> HIDE DEF ReceiptInv
<1> QED
  BY <1>1, <1>2, <1>3, <1>4, <1>5, <1>6, <1>7, <1>8

\* Recording the digest keeps the invariant: only a received run takes a
\* digest, so no export and no answer changes under its owner.
LEMMA HashingKeeps ==
    ASSUME ReceiptInv, NEW r \in Runs,
           \/ RecordHash(r) \/ RecordHashFails(r)
    PROVE  ReceiptInv'
<1> USE ReceiptConstants
       DEF ReceiptInv, TypeOK, Pcs, HandlerOnCourse, HandlerCarriesTheBody, AnswerHolds,
           Holds, Accepted, Placed, Settled, Settling, OneExportPerArchive,
           process, local, client, durable,
           Goto, Tell, Fault, Admitted
<1>1. CASE RecordHash(r)
  BY <1>1, SMT DEF RecordHash
<1>2. CASE RecordHashFails(r)
  BY <1>2, SMT DEF RecordHashFails
<1> HIDE DEF ReceiptInv
<1> QED
  BY <1>1, <1>2

\* The duplicate branch of settle_hashed keeps the invariant: the export found
\* may be deleted before the mark, its digest and account stay those of r.
LEMMA DuplicateKeeps ==
    ASSUME ReceiptInv, NEW r \in Runs,
           \/ FindExport(r) \/ BindOperation(r) \/ BindRefused(r)
           \/ MarkDuplicate(r) \/ MarkUnacknowledged(r) \/ PublishDuplicate(r)
    PROVE  ReceiptInv'
<1> USE ReceiptConstants
       DEF ReceiptInv, TypeOK, Pcs, HandlerOnCourse, HandlerCarriesTheBody, AnswerHolds,
           Holds, Accepted, Placed, Settled, Settling, OneExportPerArchive,
           process, local, client, durable,
           Goto, Tell, Fault, SameArchive, Bind, Op
<1>1. CASE FindExport(r)
  BY <1>1, SMT DEF FindExport
<1>2. CASE BindOperation(r)
  BY <1>2, SMT DEF BindOperation
<1>3. CASE BindRefused(r)
  BY <1>3, SMT DEF BindRefused
<1>4. CASE MarkDuplicate(r)
  BY <1>4, SMT DEF MarkDuplicate
<1>5. CASE MarkUnacknowledged(r)
  BY <1>5, SMT DEF MarkUnacknowledged
<1>6. CASE PublishDuplicate(r)
  BY <1>6, SMT DEF PublishDuplicate
<1> HIDE DEF ReceiptInv
<1> QED
  BY <1>1, <1>2, <1>3, <1>4, <1>5, <1>6

\* The publishing branch of settle_hashed keeps the invariant: the second
\* duplicate check and the insert are one transaction.
LEMMA PublicationKeeps ==
    ASSUME ReceiptInv, NEW r \in Runs,
           \/ PublishStaged(r) \/ PublishExport(r) \/ PublishUnacknowledged(r)
           \/ SettleFails(r) \/ RemoveStaging(r)
    PROVE  ReceiptInv'
<1> USE ReceiptConstants
       DEF ReceiptInv, TypeOK, Pcs, HandlerOnCourse, HandlerCarriesTheBody, AnswerHolds,
           Holds, Accepted, Placed, Settled, Settling, OneExportPerArchive,
           process, local, client, durable,
           Goto, Tell, Fault, SameArchive, StoreRows, Bind, Op
<1>1. CASE PublishStaged(r)
  BY <1>1, SMT DEF PublishStaged
<1>2. CASE PublishExport(r)
  BY <1>2, SMT DEF PublishExport
<1>3. CASE PublishUnacknowledged(r)
  BY <1>3, SMT DEF PublishUnacknowledged
<1>4. CASE SettleFails(r)
  BY <1>4, SMT DEF SettleFails
<1>5. CASE RemoveStaging(r)
  BY <1>5, SMT DEF RemoveStaging
<1> HIDE DEF ReceiptInv
<1> QED
  BY <1>1, <1>2, <1>3, <1>4, <1>5

\* Faults of one handler, the resume of one run and the deletion of one export
\* keep the invariant.
LEMMA ResumeKeeps ==
    ASSUME ReceiptInv, NEW r \in Runs,
           \/ Disconnect(r) \/ ResumeRun(r) \/ ResumeUnreadable(r)
           \/ ResumeSkipped(r) \/ DeleteExport(r)
    PROVE  ReceiptInv'
<1> USE ReceiptConstants
       DEF ReceiptInv, TypeOK, Pcs, HandlerOnCourse, HandlerCarriesTheBody, AnswerHolds,
           Holds, Accepted, Placed, Settled, Settling, OneExportPerArchive,
           process, local, client, durable,
           Goto, Fault
<1>1. CASE Disconnect(r)
  BY <1>1, SMT DEF Disconnect
<1>2. CASE ResumeRun(r)
  BY <1>2, SMT DEF ResumeRun
<1>3. CASE ResumeUnreadable(r)
  BY <1>3, SMT DEF ResumeUnreadable
<1>4. CASE ResumeSkipped(r)
  BY <1>4, SMT DEF ResumeSkipped
<1>5. CASE DeleteExport(r)
  BY <1>5, SMT DEF DeleteExport
<1> HIDE DEF ReceiptInv
<1> QED
  BY <1>1, <1>2, <1>3, <1>4, <1>5

\* A crash forgets the handlers and nothing durable; the sweep starts with none
\* and the listener starts when none is left.
LEMMA ProcessKeeps ==
    ASSUME ReceiptInv, Crash \/ StartSweep \/ SweepUnreadable \/ Serve
    PROVE  ReceiptInv'
<1> USE ReceiptConstants
       DEF ReceiptInv, TypeOK, Pcs, HandlerOnCourse, HandlerCarriesTheBody, AnswerHolds,
           Holds, Accepted, Placed, Settled, Settling, OneExportPerArchive,
           process, local, client, durable,
           Fault
<1>1. CASE Crash
  BY <1>1, SMT DEF Crash
<1>2. CASE StartSweep
  BY <1>2, SMT DEF StartSweep
<1>3. CASE SweepUnreadable
  BY <1>3, SMT DEF SweepUnreadable
<1>4. CASE Serve
  BY <1>4, SMT DEF Serve
<1> HIDE DEF ReceiptInv
<1> QED
  BY <1>1, <1>2, <1>3, <1>4

\* Every step of the receipt keeps the invariant.
LEMMA ReceiptStepKeeps == ReceiptInv /\ [Next]_vars => ReceiptInv'
<1> SUFFICES ASSUME ReceiptInv, [Next]_vars
             PROVE  ReceiptInv'
  OBVIOUS
<1>1. CASE \E r \in Runs : CreateRun(r) \/ WriteChunk(r) \/ StreamFailed(r) \/ Work(r)
  BY <1>1, StreamingKeeps, HashingKeeps, DuplicateKeeps, PublicationKeeps DEF Work
<1>2. CASE Sweep
  BY <1>2, ProcessKeeps, ResumeKeeps DEF Sweep
<1>3. CASE \E r \in Runs : Faulty(r)
  BY <1>3, StreamingKeeps, HashingKeeps, DuplicateKeeps, PublicationKeeps, ResumeKeeps
     DEF Faulty
<1>4. CASE Crash \/ SweepUnreadable
  BY <1>4, ProcessKeeps
<1>5. CASE \E e \in Runs : DeleteExport(e)
  BY <1>5, ResumeKeeps
<1>6. CASE UNCHANGED vars
  BY <1>6, SMT DEF vars, ReceiptInv, TypeOK, HandlerOnCourse, HandlerCarriesTheBody,
              AnswerHolds, Holds, Accepted, OneExportPerArchive
<1> QED
  BY <1>1, <1>2, <1>3, <1>4, <1>5, <1>6 DEF Next

\* The receipt starts in the invariant.
LEMMA ReceiptInit == Init => ReceiptInv
BY ReceiptConstants, SMT
   DEF Init, ReceiptInv, TypeOK, Pcs, HandlerOnCourse, HandlerCarriesTheBody, AnswerHolds,
       Holds, Accepted, Settling, OneExportPerArchive

\* The exports, the answers and the digests of the invariant, as the runs check
\* them.
LEMMA ReceiptInvImplies ==
    ReceiptInv => OneExportPerArchive /\ AcknowledgedBytesAreTheUpload
BY DEF ReceiptInv, AnswerHolds, Accepted, Holds, AcknowledgedBytesAreTheUpload

\* A step that writes no export and no correlation, accepts no upload and
\* leaves the settled runs and their digests alone.
Quiet ==
    /\ exports' = exports /\ bound' = bound
    /\ \A e \in Runs : run[e] \in Settled => run'[e] = run[e] /\ hash'[e] = hash[e]
    /\ \A q \in Runs : pc'[q] = "bound" => pc[q] = "bound" /\ found'[q] = found[q]
    /\ \A q \in Runs : Accepted(q)' => Accepted(q) /\ named'[q] = named[q]

\* Such a step keeps the bindings of the operations.
LEMMA QuietKeeps == ASSUME OperationInv, Quiet PROVE OperationInv'
BY SMT DEF OperationInv, OperationOK, Quiet, Holds, Accepted

\* Receiving, hashing, searching and failing are quiet.
LEMMA HandlersAreQuiet ==
    ASSUME ReceiptInv, NEW r \in Runs,
           \/ CreateRun(r) \/ CreateRunUnacknowledged(r) \/ WriteChunk(r)
           \/ FinishStream(r) \/ StreamFailed(r) \/ RefuseMismatch(r)
           \/ FailRun(r) \/ FailRunLost(r) \/ RecordHash(r)
           \/ RecordHashFails(r) \/ FindExport(r) \/ BindRefused(r)
           \/ MarkUnacknowledged(r) \/ PublishDuplicate(r) \/ PublishStaged(r)
           \/ SettleFails(r) \/ RemoveStaging(r) \/ Disconnect(r)
           \/ ResumeRun(r) \/ ResumeUnreadable(r) \/ ResumeSkipped(r)
    PROVE  Quiet
<1>a. TypeOK
  BY DEF ReceiptInv
<1>b. pc[r] = "staged" => run[r] = "received"
  BY DEF ReceiptInv, HandlerOnCourse
<1> USE <1>a, <1>b DEF TypeOK, Quiet, Accepted, Placed, Settled, Resumable, process, local,
                 client, durable, Goto, Tell, Fault
<1>1. CASE CreateRun(r)
  BY <1>1 DEF CreateRun
<1>2. CASE CreateRunUnacknowledged(r)
  BY <1>2 DEF CreateRunUnacknowledged
<1>3. CASE WriteChunk(r)
  BY <1>3 DEF WriteChunk
<1>4. CASE FinishStream(r)
  BY <1>4 DEF FinishStream
<1>5. CASE StreamFailed(r)
  BY <1>5 DEF StreamFailed
<1>6. CASE RefuseMismatch(r)
  BY <1>6 DEF RefuseMismatch
<1>7. CASE FailRun(r)
  BY <1>7 DEF FailRun
<1>8. CASE FailRunLost(r)
  BY <1>8 DEF FailRunLost
<1>9. CASE RecordHash(r)
  BY <1>9 DEF RecordHash
<1>10. CASE RecordHashFails(r)
  BY <1>10 DEF RecordHashFails
<1>11. CASE FindExport(r)
  BY <1>11 DEF FindExport
<1>12. CASE BindRefused(r)
  BY <1>12 DEF BindRefused
<1>13. CASE MarkUnacknowledged(r)
  BY <1>13 DEF MarkUnacknowledged
<1>14. CASE PublishDuplicate(r)
  BY <1>14 DEF PublishDuplicate
<1>15. CASE PublishStaged(r)
  BY <1>15 DEF PublishStaged
<1>16. CASE SettleFails(r)
  BY <1>16 DEF SettleFails
<1>17. CASE RemoveStaging(r)
  BY <1>17 DEF RemoveStaging
<1>18. CASE Disconnect(r)
  BY <1>18 DEF Disconnect
<1>19. CASE ResumeRun(r)
  BY <1>19 DEF ResumeRun
<1>20. CASE ResumeUnreadable(r)
  BY <1>20 DEF ResumeUnreadable
<1>21. CASE ResumeSkipped(r)
  BY <1>21 DEF ResumeSkipped
<1> HIDE DEF Quiet
<1> QED
  BY <1>1, <1>2, <1>3, <1>4, <1>5, <1>6, <1>7, <1>8, <1>9, <1>10, <1>11, <1>12, <1>13,
     <1>14, <1>15, <1>16, <1>17, <1>18, <1>19, <1>20, <1>21

\* So are a crash, the sweep and the start of the listener.
LEMMA ProcessIsQuiet ==
    ASSUME Crash \/ StartSweep \/ SweepUnreadable \/ Serve \/ UNCHANGED vars
    PROVE  Quiet
<1>1. CASE Crash
  BY <1>1 DEF Crash, Quiet, Accepted, client, durable
<1>2. CASE StartSweep \/ SweepUnreadable \/ Serve
  BY <1>2 DEF StartSweep, SweepUnreadable, Serve, Quiet, Accepted, local, client, durable
<1>3. CASE UNCHANGED vars
  BY <1>3 DEF vars, Quiet, Accepted
<1> QED
  BY <1>1, <1>2, <1>3

\* The correlation made for r: its export, or the duplicate it found, holds the
\* archive of every upload of the operation.
LEMMA BindingKeeps ==
    ASSUME OneArchivePerOperation, ReceiptInv, OperationInv,
           NEW r \in Runs, BindOperation(r)
    PROVE  OperationInv'
<1> USE ReceiptConstants DEF BindOperation
<1>1. phase = "serving" /\ OpOf[r] \in Ops /\ found[r] \in exports
  BY DEF Op
<1>2. Holds(found[r], r, Body[r])
  BY <1>1 DEF ReceiptInv, HandlerOnCourse, HandlerCarriesTheBody, Settling, Holds
<1>3. /\ bound \in [Ops -> Runs \cup {NoRun}] /\ pc \in [Runs -> Pcs]
      /\ found \in [Runs -> Runs \cup {NoRun}]
  BY DEF ReceiptInv, TypeOK
<1>4. bound' = [o \in Ops |->
                   IF o = OpOf[r] /\ bound[o] = NoRun THEN found[r] ELSE bound[o]]
  BY <1>1 DEF Bind, Op
<1>5. ASSUME NEW q \in Runs
      PROVE  OperationOK(q)'
  <2>1. Holds(found[r], q, Body[q]) \/ OpOf[q] # OpOf[r] \/ OpOf[q] = NoOp
    BY <1>2 DEF OneArchivePerOperation, Holds
  <2>2. found[r] # NoRun
    BY <1>2 DEF Holds
  <2>3. OperationOK(q)
    BY DEF OperationInv
  <2> QED
    BY <1>1, <1>3, <1>4, <2>1, <2>2, <2>3 DEF OperationOK, Holds, Accepted, Goto, client
<1> QED
  BY <1>5 DEF OperationInv

\* An upload accepted as a duplicate has its operation bound already.
LEMMA MarkingKeeps ==
    ASSUME ReceiptInv, OperationInv, NEW r \in Runs, MarkDuplicate(r)
    PROVE  OperationInv'
<1> USE DEF MarkDuplicate
<1>1. TypeOK
  BY DEF ReceiptInv
<1>2. \A e \in Runs : run[e] \in Settled => run'[e] \in Settled /\ hash'[e] = hash[e]
  BY <1>1 DEF TypeOK, Placed, Settled
<1>3. ASSUME NEW q \in Runs, q # r
      PROVE  OperationOK(q)'
  <2>1. OperationOK(q)
    BY DEF OperationInv
  <2>2. /\ pc'[q] = pc[q] /\ found'[q] = found[q]
        /\ answer'[q] = answer[q] /\ named'[q] = named[q]
    BY <1>1, <1>3 DEF TypeOK, Goto, Tell
  <2> QED
    BY <1>2, <2>1, <2>2 DEF OperationOK, Accepted, Holds
<1>4. OperationOK(r)'
  <2>1. OperationOK(r)
    BY DEF OperationInv
  <2>2. Accepted(r)' => named'[r] = found[r] \/ (Accepted(r) /\ named'[r] = named[r])
    BY <1>1 DEF TypeOK, Tell, Accepted
  <2>3. pc[r] = "bound" \/ OpOf[r] = NoOp \/ phase # "serving"
    BY DEF Op
  <2>4. phase # "serving" => answer' = answer /\ named' = named
    BY DEF Tell
  <2>5. pc'[r] = "cleanup"
    BY <1>1 DEF TypeOK, Goto
  <2> QED
    BY <1>2, <2>1, <2>2, <2>3, <2>4, <2>5 DEF OperationOK, Accepted, Holds
<1> QED
  BY <1>3, <1>4 DEF OperationInv

\* The rows of a publication bind the operation to the new export and to
\* nothing else; no upload accepted before names the new export.
LEMMA StoringKeeps ==
    ASSUME OneArchivePerOperation, ReceiptInv, OperationInv, NEW r \in Runs,
           PublishExport(r) \/ PublishUnacknowledged(r)
    PROVE  OperationInv'
<1>1. TypeOK /\ run[r] = "hashed" /\ StoreRows(r) /\ found' = found /\ phase' = phase
  BY DEF ReceiptInv, PublishExport, PublishUnacknowledged, StoreRows, process
<1>2. \A q \in Runs : AnswerHolds(q) /\ HandlerOnCourse(q) /\ HandlerCarriesTheBody(q)
  BY DEF ReceiptInv
<1>3. \A e \in Runs :
          run[e] \in Settled => e # r /\ run'[e] \in Settled /\ hash'[e] = hash[e]
  BY <1>1 DEF TypeOK, Placed, Settled, StoreRows
<1>4. \A q \in Runs : pc[q] = "bound" => found[q] # r
  BY <1>1, <1>2 DEF HandlerOnCourse, Holds, Placed, Settled
<1>5. \A q \in Runs : Accepted(q) => named[q] # r
  BY <1>2, <1>3 DEF AnswerHolds, Holds
<1>6. phase = "serving" => Holds(r, r, Body[r])'
  BY <1>1, <1>2 DEF PublishExport, PublishUnacknowledged, HandlerCarriesTheBody, Settling,
     StoreRows, Holds, TypeOK, Placed, Settled
<1>7. ASSUME NEW q \in Runs, OpOf[q] # NoOp
      PROVE  /\ bound[OpOf[q]] # NoRun => bound'[OpOf[q]] = bound[OpOf[q]]
             /\ bound'[OpOf[q]] # bound[OpOf[q]]
                    => phase = "serving" /\ OpOf[q] = OpOf[r] /\ bound'[OpOf[q]] = r
             /\ phase = "serving" /\ OpOf[q] = OpOf[r] => bound'[OpOf[q]] # NoRun
  BY <1>1, <1>7, ReceiptConstants DEF StoreRows, Bind, Op
<1>8. ASSUME NEW q \in Runs, OpOf[q] # NoOp
      PROVE  bound'[OpOf[q]] # NoRun => Holds(bound[OpOf[q]], q, Body[q])'
  <2>1. OperationOK(q)
    BY DEF OperationInv
  <2>2. CASE bound'[OpOf[q]] = bound[OpOf[q]]
    BY <1>3, <1>8, <2>1, <2>2 DEF OperationOK, Holds
  <2>3. CASE bound'[OpOf[q]] # bound[OpOf[q]]
    BY <1>6, <1>7, <1>8, <2>3 DEF OneArchivePerOperation, Holds
  <2> QED
    BY <2>2, <2>3
<1>9. /\ \A q \in Runs : pc'[q] = "bound" => pc[q] = "bound"
      /\ \A q \in Runs : Accepted(q)' =>
             \/ Accepted(q) /\ named'[q] = named[q]
             \/ q = r /\ phase = "serving"
  BY <1>1, SMT DEF TypeOK, PublishExport, PublishUnacknowledged, Goto, Tell, Accepted
<1>10. ASSUME NEW q \in Runs, OpOf[q] # NoOp
       PROVE  /\ pc'[q] = "bound" /\ found'[q] \in exports' => bound'[OpOf[q]] # NoRun
              /\ Accepted(q)' /\ named'[q] \in exports' => bound'[OpOf[q]] # NoRun
  <2>1. OperationOK(q)
    BY DEF OperationInv
  <2> QED
    BY <1>1, <1>4, <1>5, <1>7, <1>9, <1>10, <2>1 DEF OperationOK, StoreRows
<1> QED
  BY <1>8, <1>10 DEF OperationInv, OperationOK

\* A deletion that unbinds an operation deletes the only export its uploads
\* can have been told of.
LEMMA DeletionKeeps ==
    ASSUME OneArchivePerOperation, ReceiptInv, OperationInv,
           NEW r \in Runs, DeleteExport(r)
    PROVE  OperationInv'
<1>1. TypeOK /\ OneExportPerArchive
  BY DEF ReceiptInv
<1>2. \A q \in Runs : AnswerHolds(q) /\ HandlerOnCourse(q) /\ HandlerCarriesTheBody(q)
  BY DEF ReceiptInv
<1>3. \A e \in Runs : run[e] \in Settled => run'[e] \in Settled /\ hash'[e] = hash[e]
  BY <1>1 DEF DeleteExport, TypeOK, Settled
<1>4. ASSUME NEW q \in Runs, OpOf[q] # NoOp
      PROVE  bound'[OpOf[q]] = IF bound[OpOf[q]] = r THEN NoRun ELSE bound[OpOf[q]]
  BY <1>1, <1>4, ReceiptConstants DEF DeleteExport
<1>5. ASSUME NEW q \in Runs, NEW e \in Runs, OpOf[q] # NoOp, Holds(e, q, Body[q]),
             e \in exports', bound[OpOf[q]] # NoRun
      PROVE  bound'[OpOf[q]] # NoRun
  <2>1. Holds(bound[OpOf[q]], q, Body[q])
    BY <1>5 DEF OperationInv, OperationOK
  <2>2. bound[OpOf[q]] = r => e = r
    BY <1>1, <1>5, <2>1 DEF DeleteExport, OneExportPerArchive, Holds
  <2> QED
    BY <1>4, <1>5, <2>2 DEF DeleteExport
<1>6. ASSUME NEW q \in Runs
      PROVE  OperationOK(q)'
  <2>1. OperationOK(q) /\ AnswerHolds(q)
    BY <1>2 DEF OperationInv
  <2>2. pc[q] = "bound" => Holds(found[q], q, Body[q])
    BY <1>2 DEF HandlerOnCourse, HandlerCarriesTheBody, Settling
  <2>3. pc' = pc /\ found' = found /\ answer' = answer /\ named' = named
    BY DEF DeleteExport, local, client
  <2>4. \A e \in exports' : e \in exports
    BY DEF DeleteExport
  <2>5. CASE OpOf[q] # NoOp
    <3>1. bound'[OpOf[q]] # NoRun => Holds(bound[OpOf[q]], q, Body[q])'
      BY <1>3, <1>4, <2>1, <2>5 DEF OperationOK, Holds
    <3>2. pc'[q] = "bound" /\ found'[q] \in exports' => bound'[OpOf[q]] # NoRun
      BY <1>5, <2>1, <2>2, <2>3, <2>4, <2>5 DEF OperationOK, Holds
    <3>3. Accepted(q)' /\ named'[q] \in exports' => bound'[OpOf[q]] # NoRun
      BY <1>5, <2>1, <2>3, <2>4, <2>5 DEF OperationOK, AnswerHolds, Accepted, Holds
    <3> QED
      BY <3>1, <3>2, <3>3 DEF OperationOK
  <2> QED
    BY <2>5 DEF OperationOK
<1> QED
  BY <1>6 DEF OperationInv

\* Every step of the receipt keeps the bindings of the operations.
LEMMA OperationStepKeeps ==
    ASSUME OneArchivePerOperation, ReceiptInv, OperationInv, [Next]_vars
    PROVE  OperationInv'
<1>1. CASE \E r \in Runs : CreateRun(r) \/ WriteChunk(r) \/ StreamFailed(r) \/ Work(r)
  BY <1>1, HandlersAreQuiet, QuietKeeps, BindingKeeps, MarkingKeeps, StoringKeeps
     DEF Work
<1>2. CASE Sweep
  BY <1>2, ProcessIsQuiet, HandlersAreQuiet, QuietKeeps DEF Sweep
<1>3. CASE \E r \in Runs : Faulty(r)
  BY <1>3, HandlersAreQuiet, QuietKeeps, StoringKeeps DEF Faulty
<1>4. CASE Crash \/ SweepUnreadable \/ UNCHANGED vars
  BY <1>4, ProcessIsQuiet, QuietKeeps
<1>5. CASE \E e \in Runs : DeleteExport(e)
  BY <1>5, DeletionKeeps
<1> QED
  BY <1>1, <1>2, <1>3, <1>4, <1>5 DEF Next

\* No operation is bound and nothing is answered at the start.
LEMMA OperationInit == Init => OperationInv
<1> SUFFICES ASSUME Init, NEW r \in Runs
             PROVE  OperationOK(r)
  BY DEF OperationInv
<1>1. OpOf[r] # NoOp => bound[OpOf[r]] = NoRun
  BY ReceiptConstants DEF Init
<1>2. pc[r] = "idle" /\ answer[r] = "none"
  BY DEF Init
<1> QED
  BY <1>1, <1>2 DEF OperationOK, Accepted

\* The binding the run checks is part of the invariant.
LEMMA OperationInvImplies == OperationInv => AcceptedOperationIsBound
BY DEF OperationInv, OperationOK, Accepted, AcceptedOperationIsBound

-----------------------------------------------------------------------------
Finished == {"completed", "partial", "failed"}

\* The run the worker picked is where it left it, unless it was erased.
WorkerOnCourse ==
    /\ wpc # "idle" => wrun \in Runs /\ (wrun \in exports \/ run[wrun] = "erased")
    /\ wpc \in {"build", "persist", "permanent"} => run[wrun] \in {"stored", "erased"}
    /\ wpc = "failedReport" => run[wrun] \in {"failed", "erased"}
    /\ wpc \in {"lateRead", "lateWrite"} => run[wrun] \in {"completed", "partial", "erased"}

\* What the late report read is still true while the export exists.
LateReadHolds ==
    wpc = "lateWrite" /\ wrun \in exports
        => \A o \in wops : bound[o] = wrun /\ o \notin reported

\* An operation carries reported_at exactly when its report row is queued, and
\* the row says how the bound run ended.
ReportFits(o) ==
    /\ o \in reported =>
          /\ bound[o] # NoRun /\ run[bound[o]] \in Finished
          /\ reports[o] =
                {Report(bound[o], IF run[bound[o]] = "failed" THEN "failed" ELSE "imported")}
    /\ o \notin reported => reports[o] = {}

PipelineInv ==
    /\ ReceiptInv
    /\ PipelineTypeOK
    /\ WorkerOnCourse
    /\ LateReadHolds
    /\ \A o \in Ops : ReportFits(o)

-----------------------------------------------------------------------------
\* A step of the receipt other than a deletion: exports and correlations are
\* only added, and a settled run keeps its state.
Growing ==
    /\ exports \subseteq exports'
    /\ \A e \in Runs : run[e] \in Settled => run'[e] = run[e]
    /\ \A o \in Ops : bound[o] # NoRun => bound'[o] = bound[o]

\* Every handler, sweep and crash step only adds.
LEMMA ReceiptGrows ==
    ASSUME ReceiptInv, ReceiptStep \/ Crash
    PROVE  Growing
<1>1. Quiet => Growing
  BY DEF Quiet, Growing
<1>2. TypeOK
  BY DEF ReceiptInv
<1>3. ASSUME NEW r \in Runs, BindOperation(r)
      PROVE  Growing
  BY <1>2, <1>3 DEF BindOperation, Bind, Growing, TypeOK
<1>4. ASSUME NEW r \in Runs, MarkDuplicate(r)
      PROVE  Growing
  BY <1>2, <1>4 DEF MarkDuplicate, Growing, TypeOK, Placed, Settled
<1>5. ASSUME NEW r \in Runs, PublishExport(r) \/ PublishUnacknowledged(r)
      PROVE  Growing
  <2>1. StoreRows(r)
    BY <1>5 DEF PublishExport, PublishUnacknowledged
  <2> QED
    BY <1>2, <2>1 DEF StoreRows, Bind, Growing, TypeOK, Placed, Settled
<1>6. CASE \E r \in Runs : CreateRun(r) \/ WriteChunk(r) \/ StreamFailed(r) \/ Work(r)
  BY <1>1, <1>3, <1>4, <1>5, <1>6, HandlersAreQuiet DEF Work
<1>7. CASE Sweep
  BY <1>1, <1>7, ProcessIsQuiet, HandlersAreQuiet DEF Sweep
<1>8. CASE \E r \in Runs : Faulty(r)
  BY <1>1, <1>5, <1>8, HandlersAreQuiet DEF Faulty
<1>9. CASE SweepUnreadable \/ Crash
  BY <1>1, <1>9, ProcessIsQuiet
<1> QED
  BY <1>6, <1>7, <1>8, <1>9 DEF ReceiptStep

\* A receipt step keeps the worker's and the reports' part of the invariant.
LEMMA ReceiptStepKeepsReports ==
    ASSUME PipelineInv, ReceiptStep
    PROVE  PipelineInv'
<1>1. ReceiptInv'
  BY ReceiptStepKeeps DEF ReceiptStep, Next, PipelineInv
<1>2. Growing
  BY ReceiptGrows DEF PipelineInv
<1>3. /\ wpc' = wpc /\ wrun' = wrun /\ wops' = wops
      /\ reported' = reported /\ reports' = reports
  BY DEF ReceiptStep, worker
<1>4. PipelineTypeOK'
  BY <1>1, <1>3 DEF PipelineInv, PipelineTypeOK, ReceiptInv
<1>5. \A e \in exports : e \in Runs /\ run[e] \in Placed
  BY DEF PipelineInv, ReceiptInv, TypeOK
<1>6. WorkerOnCourse'
  BY <1>2, <1>3, <1>5 DEF PipelineInv, WorkerOnCourse, Growing, Placed, Settled
<1>7. LateReadHolds'
  <2> SUFFICES ASSUME wpc = "lateWrite", NEW o \in wops
               PROVE  wrun \in exports' => bound'[o] = wrun /\ o \notin reported
    BY <1>3 DEF LateReadHolds
  <2>1. wrun \in Runs /\ (wrun \in exports \/ run[wrun] = "erased") /\ o \in Ops
    BY DEF PipelineInv, WorkerOnCourse, PipelineTypeOK
  <2>2. wrun \in exports' => wrun \in exports
    BY <1>1, <1>2, <2>1 DEF ReceiptInv, Growing, Placed, Settled
  <2> QED
    BY <1>2, <2>1, <2>2, ReceiptConstants DEF PipelineInv, LateReadHolds, Growing
<1>8. ASSUME NEW o \in Ops
      PROVE  ReportFits(o)'
  <2>1. ReportFits(o) /\ (bound[o] # NoRun => bound[o] \in exports)
    BY DEF PipelineInv, ReceiptInv
  <2> QED
    BY <1>2, <1>3, <1>5, <2>1 DEF ReportFits, Growing, Finished, Placed, Settled
<1> QED
  BY <1>1, <1>4, <1>6, <1>7, <1>8 DEF PipelineInv

\* A crash forgets the worker's pick; what it committed stays.
LEMMA CrashKeepsReports ==
    ASSUME PipelineInv, CrashAll
    PROVE  PipelineInv'
<1>1. ReceiptInv'
  BY ReceiptStepKeeps DEF CrashAll, Next, PipelineInv
<1>2. /\ wpc' = "idle" /\ wrun' = NoRun /\ wops' = {}
      /\ reported' = reported /\ reports' = reports /\ run' = run /\ bound' = bound
  BY DEF CrashAll, Rest, Crash, durable
<1>3. PipelineTypeOK' /\ WorkerOnCourse' /\ LateReadHolds'
  BY <1>1, <1>2 DEF PipelineInv, PipelineTypeOK, ReceiptInv, WorkerOnCourse, LateReadHolds
<1>4. \A o \in Ops : ReportFits(o)'
  BY <1>2 DEF PipelineInv, ReportFits
<1> QED
  BY <1>1, <1>3, <1>4 DEF PipelineInv

\* A deletion takes the correlations and the report rows of its export with it,
\* and no row of another export.
LEMMA EraseKeepsReports ==
    ASSUME PipelineInv, NEW e \in Runs, EraseExport(e)
    PROVE  PipelineInv'
<1>1. ReceiptInv'
  BY ReceiptStepKeeps DEF EraseExport, Next, PipelineInv
<1>2. TypeOK /\ DeleteExport(e) /\ \A d \in exports : d \in Runs /\ run[d] \in Placed
  BY DEF PipelineInv, ReceiptInv, TypeOK, EraseExport
<1>3. wpc' = wpc /\ wrun' = wrun /\ wops' = wops
  BY DEF EraseExport, worker
<1>4. /\ reported' = {o \in reported : bound[o] # e}
      /\ \A o \in Ops : reports'[o] = {m \in reports[o] : m.run # e}
  BY DEF EraseExport
<1>5. PipelineTypeOK'
  BY <1>1, <1>3, <1>4 DEF PipelineInv, PipelineTypeOK, ReceiptInv
<1>6. WorkerOnCourse'
  BY <1>2, <1>3 DEF PipelineInv, WorkerOnCourse, DeleteExport, TypeOK
<1>7. LateReadHolds'
  BY <1>2, <1>3, <1>4 DEF PipelineInv, PipelineTypeOK, LateReadHolds, DeleteExport
<1>8. ASSUME NEW o \in Ops
      PROVE  ReportFits(o)'
  <2>1. ReportFits(o)
    BY DEF PipelineInv
  <2>2. bound'[o] = IF bound[o] = e THEN NoRun ELSE bound[o]
    BY <1>2 DEF DeleteExport
  <2>3. CASE bound[o] = e
    BY <1>4, <2>1, <2>2, <2>3, SMT DEF ReportFits, Report
  <2>4. CASE bound[o] # e
    <3>1. bound[o] # NoRun => bound[o] \in Runs /\ run'[bound[o]] = run[bound[o]]
      BY <1>2, <2>4 DEF DeleteExport, TypeOK
    <3>2. o \in reported' <=> o \in reported
      BY <1>4, <2>4
    <3>3. \A m \in reports[o] : m.run # e
      BY <2>1, <2>4, SMT DEF ReportFits, Report
    <3>4. reports'[o] = reports[o]
      BY <1>4, <3>3
    <3> QED
      BY <2>1, <2>2, <2>4, <3>1, <3>2, <3>4 DEF ReportFits
  <2> QED
    BY <2>3, <2>4
<1> QED
  BY <1>1, <1>5, <1>6, <1>7, <1>8 DEF PipelineInv

-----------------------------------------------------------------------------
\* The worker moves an exported run to another state of an exported run: no
\* handler stands at that run, so the receipt's invariant is not disturbed.
LEMMA WorkerWriteKeepsReceipt ==
    ASSUME ReceiptInv, NEW w \in exports, NEW state \in Placed,
           run' = [run EXCEPT ![w] = state],
           UNCHANGED <<process, local, client, hash, staging, exports, bound, faults>>
    PROVE  ReceiptInv'
<1>1. TypeOK /\ w \in Runs /\ run[w] \in Placed
  BY DEF ReceiptInv, TypeOK
<1>2. /\ \A e \in Runs : e # w => run'[e] = run[e]
      /\ run'[w] \in Placed
  BY <1>1 DEF TypeOK
<1>3. \A e \in Runs : run[e] \in Settled => run'[e] \in Settled
  BY <1>2 DEF Settled
<1>4. TypeOK'
  BY <1>1 DEF TypeOK, Placed, process, local, client
<1>5. ASSUME NEW r \in Runs
      PROVE  HandlerOnCourse(r)' /\ HandlerCarriesTheBody(r)' /\ AnswerHolds(r)'
  <2>1. HandlerOnCourse(r) /\ HandlerCarriesTheBody(r) /\ AnswerHolds(r)
    BY DEF ReceiptInv
  <2>2. pc[r] \in {"streaming", "staged"} \cup Settling => r # w
    BY <1>1, <2>1 DEF HandlerOnCourse, Placed
  <2>3. HandlerOnCourse(r)'
    BY <1>2, <1>3, <2>1, <2>2 DEF HandlerOnCourse, Holds, process, local
  <2> QED
    BY <1>3, <2>1, <2>3
       DEF HandlerCarriesTheBody, AnswerHolds, Holds, Accepted, process, local, client
<1>6. (\A e \in exports : run[e] \in Placed)'
  BY <1>2 DEF ReceiptInv, TypeOK
<1> QED
  BY <1>4, <1>5, <1>6 DEF ReceiptInv, OneExportPerArchive

\* Steps that write no run state keep the receipt's invariant.
LEMMA WorkerReadKeepsReceipt ==
    ASSUME ReceiptInv, UNCHANGED vars
    PROVE  ReceiptInv'
BY ReceiptStepKeeps

\* Queueing the reports of the operations bound to w, together with w's final
\* state, keeps every report row true.
LEMMA ReportingKeeps ==
    ASSUME PipelineInv, NEW w \in Runs, NEW kind, NEW ops \in SUBSET Unreported(w),
           Enqueue(ops, Report(w, kind)), reported' = reported \cup ops, bound' = bound,
           \A e \in Runs : e # w => run'[e] = run[e],
           run'[w] = run[w] \/ run[w] \notin Finished,
           ops # {} => /\ run'[w] \in Finished
                       /\ kind = IF run'[w] = "failed" THEN "failed" ELSE "imported"
    PROVE  \A o \in Ops : ReportFits(o)'
<1> SUFFICES ASSUME NEW o \in Ops
             PROVE  ReportFits(o)'
  OBVIOUS
<1>1. ReportFits(o) /\ (bound[o] # NoRun => bound[o] \in Runs)
  BY DEF PipelineInv, ReceiptInv, TypeOK
<1>2. CASE o \in ops
  <2>1. bound[o] = w /\ o \notin reported /\ reports[o] = {}
    BY <1>1, <1>2 DEF Unreported, ReportFits
  <2>2. o \in reported' /\ reports'[o] = {Report(w, kind)}
    BY <1>2, <2>1 DEF Enqueue
  <2> QED
    BY <1>2, <2>1, <2>2, ReceiptConstants DEF ReportFits
<1>3. CASE o \notin ops
  <2>1. (o \in reported' <=> o \in reported) /\ reports'[o] = reports[o]
    BY <1>3 DEF Enqueue
  <2>2. o \in reported => run'[bound[o]] = run[bound[o]]
    BY <1>1 DEF ReportFits
  <2> QED
    BY <1>1, <2>1, <2>2 DEF ReportFits
<1> QED
  BY <1>2, <1>3

\* The report rows stay well typed.
LEMMA EnqueueTyped ==
    ASSUME PipelineTypeOK, NEW w \in Runs, NEW kind \in {"imported", "failed"}, NEW ops,
           Enqueue(ops, Report(w, kind))
    PROVE  \A o \in Ops : reports'[o] \subseteq [run : Runs, kind : {"imported", "failed"}]
<1>1. Report(w, kind) \in [run : Runs, kind : {"imported", "failed"}]
  BY DEF Report
<1> QED
  BY <1>1 DEF PipelineTypeOK, Enqueue

\* Nothing is owed for an erased run: its correlations went with it.
LEMMA ErasedOwesNothing ==
    ASSUME PipelineInv, wpc # "idle", run[wrun] = "erased"
    PROVE  Unreported(wrun) = {}
<1>1. wrun \in Runs /\ wrun \notin exports /\ wrun # NoRun
  BY ReceiptConstants DEF PipelineInv, ReceiptInv, WorkerOnCourse, Placed
<1>2. \A o \in Ops : bound[o] # NoRun => bound[o] \in exports
  BY DEF PipelineInv, ReceiptInv
<1> QED
  BY <1>1, <1>2 DEF Unreported

\* Picking a run, building its plan and giving it up write nothing durable.
LEMMA PickingKeeps ==
    ASSUME PipelineInv,
           \/ \E r \in Runs : PickRun(r)
           \/ BuildPlan \/ PersistNothing \/ LateReportRefused
    PROVE  PipelineInv'
<1>1. UNCHANGED <<vars, reported, reports>>
  BY DEF PickRun, BuildPlan, PersistNothing, LateReportRefused
<1>2. ReceiptInv' /\ \A o \in Ops : ReportFits(o)'
  BY <1>1, WorkerReadKeepsReceipt DEF PipelineInv, ReportFits, vars
<1>3. PipelineTypeOK' /\ WorkerOnCourse' /\ LateReadHolds'
  <2> USE <1>1, <1>2 DEF PipelineInv, PipelineTypeOK, ReceiptInv, WorkerOnCourse,
                         LateReadHolds, vars
  <2>1. CASE \E r \in Runs : PickRun(r)
    BY <2>1 DEF PickRun, Pending
  <2>2. CASE BuildPlan
    BY <2>2 DEF BuildPlan
  <2>3. CASE PersistNothing \/ LateReportRefused
    BY <2>3 DEF PersistNothing, LateReportRefused, Rest
  <2> QED
    BY <2>1, <2>2, <2>3
<1> QED
  BY <1>2, <1>3 DEF PipelineInv

\* A failed pass changes nothing but the worker.
LEMMA PassFailsKeeps == ASSUME PipelineInv, PassFails PROVE PipelineInv'
<1>1. /\ UNCHANGED <<process, local, client, durable, reported, reports>>
      /\ wpc' = "idle" /\ wrun' = NoRun /\ wops' = {}
  BY DEF PassFails, Rest
<1>2. TypeOK'
  BY <1>1, ReceiptConstants, SMT
     DEF PassFails, Fault, PipelineInv, ReceiptInv, TypeOK, process, local, client, durable
<1>3. ReceiptInv'
  BY <1>1, <1>2 DEF PipelineInv, ReceiptInv, HandlerOnCourse, HandlerCarriesTheBody,
     AnswerHolds, Holds, Accepted, OneExportPerArchive, process, local, client, durable
<1>4. \A o \in Ops : ReportFits(o)'
  BY <1>1 DEF PipelineInv, ReportFits, durable
<1> QED
  BY <1>1, <1>3, <1>4 DEF PipelineInv, PipelineTypeOK, ReceiptInv, WorkerOnCourse,
     LateReadHolds

\* project_and_report: the import and its reports are one transaction.
LEMMA PersistKeeps == ASSUME PipelineInv, PersistPlan PROVE PipelineInv'
<1>1. /\ wrun \in exports /\ wrun \in Runs /\ run[wrun] = "stored"
      /\ wpc' = "idle" /\ wrun' = NoRun /\ wops' = {}
  BY DEF PipelineInv, WorkerOnCourse, PersistPlan, Rest
<1>2. PICK state \in {"completed", "partial"} : run' = [run EXCEPT ![wrun] = state]
  BY DEF PersistPlan
<1>3. ReceiptInv'
  BY <1>1, <1>2, WorkerWriteKeepsReceipt DEF PersistPlan, PipelineInv, Placed
<1>4. /\ run'[wrun] = state
      /\ \A e \in Runs : e # wrun => run'[e] = run[e]
  BY <1>1, <1>2 DEF PipelineInv, ReceiptInv, TypeOK
<1>5. \A o \in Ops : ReportFits(o)'
  BY <1>1, <1>4, ReportingKeeps DEF PersistPlan, Finished
<1>6. PipelineTypeOK'
  BY <1>1, <1>3, EnqueueTyped DEF PipelineInv, PipelineTypeOK, ReceiptInv, PersistPlan,
     Unreported
<1> QED
  BY <1>1, <1>3, <1>5, <1>6 DEF PipelineInv, WorkerOnCourse, LateReadHolds

\* mark_permanent_failure: the failure and its reports are one transaction.
LEMMA PermanentFailureKeeps == ASSUME PipelineInv, MarkPermanentFailure PROVE PipelineInv'
<1>1. /\ wrun \in Runs /\ (wrun \in exports \/ run[wrun] = "erased")
      /\ run[wrun] \in {"stored", "erased"}
      /\ wpc' = "idle" /\ wrun' = NoRun /\ wops' = {}
  BY DEF PipelineInv, WorkerOnCourse, MarkPermanentFailure, Rest
<1>2. run' = [run EXCEPT ![wrun] = IF run[wrun] = "stored" THEN "failed" ELSE run[wrun]]
  BY <1>1 DEF MarkPermanentFailure, PipelineInv, ReceiptInv, TypeOK
<1>3. /\ run'[wrun] = IF run[wrun] = "stored" THEN "failed" ELSE run[wrun]
      /\ \A e \in Runs : e # wrun => run'[e] = run[e]
  BY <1>1, <1>2 DEF PipelineInv, ReceiptInv, TypeOK
<1>4. ReceiptInv'
  <2>1. CASE run[wrun] = "stored"
    <3>1. run' = [run EXCEPT ![wrun] = "failed"]
      BY <1>2, <2>1
    <3> QED
      BY <1>1, <2>1, <3>1, WorkerWriteKeepsReceipt
         DEF MarkPermanentFailure, PipelineInv, Placed
  <2>2. CASE run[wrun] = "erased"
    <3>1. run' = run
      BY <1>2, <2>2 DEF PipelineInv, ReceiptInv, TypeOK
    <3> QED
      BY <3>1, WorkerReadKeepsReceipt
         DEF MarkPermanentFailure, PipelineInv, vars, process, local, client
  <2> QED
    BY <1>1, <2>1, <2>2
<1>5. run[wrun] = "erased" => Unreported(wrun) = {}
  BY ErasedOwesNothing DEF MarkPermanentFailure
<1>6. \A o \in Ops : ReportFits(o)'
  BY <1>1, <1>3, <1>5, ReportingKeeps DEF MarkPermanentFailure, Finished
<1>7. PipelineTypeOK'
  BY <1>1, <1>4, EnqueueTyped DEF PipelineInv, PipelineTypeOK, ReceiptInv,
     MarkPermanentFailure, Unreported
<1> QED
  BY <1>1, <1>4, <1>6, <1>7 DEF PipelineInv, WorkerOnCourse, LateReadHolds

\* Operations bound to a run that had ended: the reports of a failed run, and
\* the late reports of an imported one, read outside the tenant lock.
LEMMA LateReportsKeep ==
    ASSUME PipelineInv, ReportFailed \/ ReadLateOperations \/ WriteLateReports
    PROVE  PipelineInv'
<1>1. UNCHANGED vars /\ wrun \in Runs
  BY DEF ReportFailed, ReadLateOperations, WriteLateReports, PipelineInv, WorkerOnCourse
<1>2. ReceiptInv' /\ run' = run /\ bound' = bound /\ exports' = exports
  BY <1>1, WorkerReadKeepsReceipt DEF PipelineInv, vars
<1>3. CASE ReportFailed
  <2>1. \A o \in Ops : ReportFits(o)'
    <3>1. run[wrun] = "failed" \/ Unreported(wrun) = {}
      BY <1>3, ErasedOwesNothing DEF PipelineInv, WorkerOnCourse, ReportFailed
    <3> QED
      BY <1>1, <1>2, <1>3, <3>1, ReportingKeeps DEF ReportFailed, Finished
  <2>2. PipelineTypeOK'
    BY <1>1, <1>2, <1>3, EnqueueTyped DEF PipelineInv, PipelineTypeOK, ReceiptInv,
       ReportFailed, Unreported, Rest
  <2> QED
    BY <1>2, <1>3, <2>1, <2>2
       DEF PipelineInv, WorkerOnCourse, LateReadHolds, ReportFailed, Rest
<1>4. CASE ReadLateOperations
  BY <1>1, <1>2, <1>4 DEF PipelineInv, PipelineTypeOK, ReceiptInv, WorkerOnCourse,
     LateReadHolds, ReadLateOperations, Unreported, ReportFits
<1>5. CASE WriteLateReports
  <2>1. \A o \in Ops : ReportFits(o)'
    <3>1. /\ wops \in SUBSET Unreported(wrun)
          /\ wops # {} => run[wrun] \in {"completed", "partial"}
      BY <1>5 DEF PipelineInv, PipelineTypeOK, ReceiptInv, LateReadHolds, WorkerOnCourse,
         WriteLateReports, Unreported, Placed
    <3> QED
      BY <1>1, <1>2, <1>5, <3>1, ReportingKeeps DEF WriteLateReports, Finished
  <2>2. PipelineTypeOK'
    BY <1>1, <1>2, <1>5, EnqueueTyped DEF PipelineInv, PipelineTypeOK, ReceiptInv,
       WriteLateReports, Rest
  <2> QED
    BY <1>2, <1>5, <2>1, <2>2 DEF PipelineInv, WorkerOnCourse, LateReadHolds,
       WriteLateReports, Rest
<1> QED
  BY <1>3, <1>4, <1>5

-----------------------------------------------------------------------------
\* PipelineInv is inductive.
LEMMA PipelineStepKeeps == PipelineInv /\ [PipelineNext]_pipelineVars => PipelineInv'
<1> SUFFICES ASSUME PipelineInv, [PipelineNext]_pipelineVars
             PROVE  PipelineInv'
  OBVIOUS
<1>1. CASE ReceiptStep \/ CrashAll
  BY <1>1, ReceiptStepKeepsReports, CrashKeepsReports
<1>2. CASE WorkerStep \/ PassFails
  BY <1>2, PickingKeeps, PassFailsKeeps, PersistKeeps, PermanentFailureKeeps,
     LateReportsKeep DEF WorkerStep
<1>3. CASE \E e \in Runs : EraseExport(e)
  BY <1>3, EraseKeepsReports
<1>4. CASE UNCHANGED pipelineVars
  <2>1. UNCHANGED vars /\ UNCHANGED <<wpc, wrun, wops, reported, reports>>
    BY <1>4 DEF pipelineVars
  <2>2. ReceiptInv'
    BY <2>1, WorkerReadKeepsReceipt DEF PipelineInv
  <2> QED
    BY <2>1, <2>2 DEF PipelineInv, PipelineTypeOK, ReceiptInv, WorkerOnCourse,
       LateReadHolds, ReportFits, vars
<1> QED
  BY <1>1, <1>2, <1>3, <1>4 DEF PipelineNext

\* The pipeline starts in the invariant.
LEMMA PipelineStart == PipelineInit => PipelineInv
BY ReceiptInit DEF PipelineInit, PipelineInv, ReceiptInv, PipelineTypeOK, WorkerOnCourse,
   LateReadHolds, ReportFits

\* The invariant holds throughout every behaviour of the pipeline.
LEMMA PipelineInvariant == PipelineSpec => []PipelineInv
BY PipelineStart, PipelineStepKeeps, PTL DEF PipelineSpec

\* Type correctness of the receipt, the worker and the reports.
THEOREM TypesHold == PipelineSpec => []PipelineTypeOK
<1>1. PipelineInv => PipelineTypeOK
  BY DEF PipelineInv
<1> QED
  BY <1>1, PipelineInvariant, PTL

\* Racing uploads, resumes, crashes and deletions never make two export rows
\* for one archive of one account (publish_export).
THEOREM NoSecondExport == PipelineSpec => []OneExportPerArchive
<1>1. PipelineInv => OneExportPerArchive
  BY ReceiptInvImplies DEF PipelineInv
<1> QED
  BY <1>1, PipelineInvariant, PTL

\* The export a successful answer names holds the whole body the client sent,
\* admitted by its declarations, whatever happened to the upload in between.
THEOREM AcknowledgedBytes == PipelineSpec => []AcknowledgedBytesAreTheUpload
<1>1. PipelineInv => AcknowledgedBytesAreTheUpload
  BY ReceiptInvImplies DEF PipelineInv
<1> QED
  BY <1>1, PipelineInvariant, PTL

\* What Platform is told of an operation agrees with the run it is bound to.
THEOREM HonestReports == PipelineSpec => []ReportsAgreeWithRuns
<1>1. PipelineInv => ReportsAgreeWithRuns
  BY DEF PipelineInv, PipelineTypeOK, ReportFits, ReportsAgreeWithRuns
<1> QED
  BY <1>1, PipelineInvariant, PTL

\* No queued report outlives the export it is about.
THEOREM ReportsDieWithTheExport == PipelineSpec => []NoReportOfErasedExport
<1>1. PipelineInv => NoReportOfErasedExport
  <2> SUFFICES ASSUME PipelineInv, NEW o \in Ops, NEW m \in reports[o]
               PROVE  m.run \in exports
    BY DEF NoReportOfErasedExport
  <2>1. ReportFits(o) /\ (bound[o] # NoRun => bound[o] \in exports)
    BY DEF PipelineInv, ReceiptInv
  <2>2. m.run = bound[o] /\ bound[o] # NoRun
    BY <2>1, SMT DEF ReportFits, Report
  <2> QED
    BY <2>1, <2>2
<1> QED
  BY <1>1, PipelineInvariant, PTL

-----------------------------------------------------------------------------
\* No step of the worker touches a binding, an answer or a digest.
LEMMA WorkerKeepsOperations ==
    ASSUME PipelineInv, OperationInv, WorkerStep \/ PassFails
    PROVE  OperationInv'
<1>1. UNCHANGED <<pc, found, answer, named, hash, exports, bound>>
  BY DEF WorkerStep, PassFails, PickRun, BuildPlan, PersistPlan, PersistNothing,
     MarkPermanentFailure, ReportFailed, ReadLateOperations, WriteLateReports,
     LateReportRefused, vars, local, client, durable
<1>2. \A e \in Runs : run[e] \in Settled => run'[e] \in Settled
  <2>1. \/ run' = run
        \/ \E state \in Finished : run' = [run EXCEPT ![wrun] = state]
        \/ run' = [run EXCEPT ![wrun] = run[wrun]]
    BY DEF WorkerStep, PassFails, PickRun, BuildPlan, PersistPlan, PersistNothing,
       MarkPermanentFailure, ReportFailed, ReadLateOperations, WriteLateReports,
       LateReportRefused, vars, durable, Finished
  <2> QED
    BY <2>1 DEF PipelineInv, ReceiptInv, TypeOK, Finished, Placed, Settled
<1> QED
  BY <1>1, <1>2 DEF OperationInv, OperationOK, Holds, Accepted

\* If the uploads of an operation are retries of one archive, an accepted
\* operation stays bound for as long as the export its answer names exists.
THEOREM AcceptedStaysBound ==
    ASSUME OneArchivePerOperation
    PROVE  PipelineSpec => []AcceptedOperationIsBound
<1>1. PipelineInit => OperationInv
  BY OperationInit DEF PipelineInit
<1>2. PipelineInv /\ OperationInv /\ [PipelineNext]_pipelineVars => OperationInv'
  <2> SUFFICES ASSUME PipelineInv, OperationInv, [PipelineNext]_pipelineVars
               PROVE  OperationInv'
    OBVIOUS
  <2>1. CASE WorkerStep \/ PassFails
    BY <2>1, WorkerKeepsOperations
  <2>2. CASE ~(WorkerStep \/ PassFails)
    <3>1. [Next]_vars
      BY <2>2 DEF PipelineNext, ReceiptStep, CrashAll, EraseExport, Next, pipelineVars
    <3> QED
      BY <3>1, OperationStepKeeps DEF PipelineInv
  <2> QED
    BY <2>1, <2>2
<1>3. OperationInv => AcceptedOperationIsBound
  BY OperationInvImplies
<1> QED
  BY <1>1, <1>2, <1>3, PipelineInvariant, PTL DEF PipelineSpec

-----------------------------------------------------------------------------
(***************************************************************************)
(* The refinement: under state <- run every step of the receipt is one     *)
(* move of the declared state machine, or leaves every run where it is;    *)
(* the worker has one move more.                                           *)
(***************************************************************************)

\* The moves the code makes are moves of ImportState.
LEMMA MachineMoves ==
    ASSUME TypeOK, NEW r \in Runs, NEW state, run' = [run EXCEPT ![r] = state],
           \/ run[r] = "absent" /\ state = "received"
           \/ run[r] = "received" /\ state = "hashed"
           \/ run[r] = "hashed" /\ state \in {"stored", "duplicate"}
           \/ run[r] \in {"received", "hashed", "stored"} /\ state = "failed"
           \/ run[r] \in Placed /\ state = "erased"
    PROVE  Machine!Next
<1> USE DEF Machine!NonTerminal, Machine!Terminal
<1>1. CASE run[r] = "absent" /\ state = "received"
  BY <1>1 DEF Machine!Next, Machine!Create
<1>2. CASE \/ run[r] = "received" /\ state = "hashed"
           \/ run[r] = "hashed" /\ state \in {"stored", "duplicate"}
           \/ run[r] \in {"received", "hashed", "stored"} /\ state = "failed"
  <2>1. Machine!Advance(r, state) /\ state \in Machine!NonTerminal \cup Machine!Terminal
    BY <1>2 DEF Machine!Advance, Machine!Legal
  <2> QED
    BY <2>1 DEF Machine!Next
<1>3. CASE run[r] \in Placed /\ state = "erased"
  BY <1>3 DEF Machine!Next, Machine!Erase, Placed
<1> QED
  BY <1>1, <1>2, <1>3

\* Every step of the receipt is a move of the state machine or none.
LEMMA ReceiptMoves == ASSUME ReceiptInv, [Next]_vars PROVE [Machine!Next]_run
<1>1. TypeOK /\ \A r \in Runs : HandlerOnCourse(r)
  BY DEF ReceiptInv
<1>2. ASSUME NEW r \in Runs, CreateRun(r) \/ CreateRunUnacknowledged(r)
      PROVE  Machine!Next
  BY <1>1, <1>2, MachineMoves DEF CreateRun, CreateRunUnacknowledged
<1>3. ASSUME NEW r \in Runs, FailRun(r)
      PROVE  [Machine!Next]_run
  <2>1. CASE run[r] \in Resumable
    <3>1. run' = [run EXCEPT ![r] = "failed"]
      BY <1>3, <2>1 DEF FailRun
    <3> QED
      BY <1>1, <2>1, <3>1, MachineMoves DEF Resumable
  <2>2. CASE run[r] \notin Resumable
    BY <1>1, <1>3, <2>2 DEF FailRun, TypeOK
  <2> QED
    BY <2>1, <2>2
<1>4. ASSUME NEW r \in Runs, RecordHash(r) \/ RecordHashFails(r)
      PROVE  [Machine!Next]_run
  <2>1. run[r] = "received"
    BY <1>1, <1>4 DEF RecordHash, RecordHashFails, HandlerOnCourse
  <2>2. run' = run \/ run' = [run EXCEPT ![r] = "hashed"]
    BY <1>4 DEF RecordHash, RecordHashFails
  <2> QED
    BY <1>1, <2>1, <2>2, MachineMoves
<1>5. ASSUME NEW r \in Runs, MarkDuplicate(r) \/ MarkUnacknowledged(r)
      PROVE  Machine!Next
  BY <1>1, <1>5, MachineMoves DEF MarkDuplicate, MarkUnacknowledged
<1>6. ASSUME NEW r \in Runs, PublishExport(r) \/ PublishUnacknowledged(r)
      PROVE  Machine!Next
  BY <1>1, <1>6, MachineMoves DEF PublishExport, PublishUnacknowledged, StoreRows
<1>7. ASSUME NEW r \in Runs, DeleteExport(r)
      PROVE  Machine!Next
  BY <1>1, <1>7, MachineMoves DEF DeleteExport, ReceiptInv
<1>8. ASSUME NEW r \in Runs,
             \/ WriteChunk(r) \/ FinishStream(r) \/ StreamFailed(r) \/ RefuseMismatch(r)
             \/ FailRunLost(r) \/ FindExport(r) \/ BindOperation(r) \/ BindRefused(r)
             \/ PublishStaged(r) \/ PublishDuplicate(r) \/ SettleFails(r)
             \/ RemoveStaging(r) \/ Disconnect(r) \/ ResumeRun(r) \/ ResumeUnreadable(r)
             \/ ResumeSkipped(r)
      PROVE  run' = run
  BY <1>8 DEF WriteChunk, FinishStream, StreamFailed, RefuseMismatch, FailRunLost,
     FindExport, BindOperation, BindRefused, PublishStaged, PublishDuplicate, SettleFails,
     RemoveStaging, Disconnect, ResumeRun, ResumeUnreadable, ResumeSkipped, durable
<1>9. ASSUME Crash \/ StartSweep \/ SweepUnreadable \/ Serve \/ UNCHANGED vars
      PROVE  run' = run
  BY <1>9 DEF Crash, StartSweep, SweepUnreadable, Serve, vars, durable
<1>10. CASE \E r \in Runs : CreateRun(r) \/ WriteChunk(r) \/ StreamFailed(r) \/ Work(r)
  BY <1>2, <1>3, <1>4, <1>5, <1>6, <1>8, <1>10 DEF Work
<1>11. CASE \E r \in Runs : Faulty(r)
  BY <1>2, <1>4, <1>5, <1>6, <1>8, <1>11 DEF Faulty
<1>12. CASE Sweep \/ Crash \/ SweepUnreadable \/ UNCHANGED vars
  BY <1>8, <1>9, <1>12 DEF Sweep
<1>13. CASE \E e \in Runs : DeleteExport(e)
  BY <1>7, <1>13
<1> QED
  BY <1>10, <1>11, <1>12, <1>13 DEF Next

\* Every step of the worker is one, too, or ends a run that is still stored.
LEMMA WorkerMoves ==
    ASSUME PipelineInv, WorkerStep \/ PassFails
    PROVE  [Machine!Next \/ WorkerEnds]_run
<1>1. TypeOK
  BY DEF PipelineInv, ReceiptInv
<1>2. CASE PersistPlan
  <2>1. run[wrun] = "stored"
    BY <1>2 DEF PersistPlan, PipelineInv, WorkerOnCourse
  <2> QED
    BY <1>2, <2>1 DEF PersistPlan, WorkerEnds
<1>3. CASE MarkPermanentFailure
  <2>1. wrun \in Runs /\ run[wrun] \in {"stored", "erased"}
    BY <1>3 DEF MarkPermanentFailure, PipelineInv, WorkerOnCourse
  <2>2. CASE run[wrun] = "stored"
    <3>1. run' = [run EXCEPT ![wrun] = "failed"]
      BY <1>3, <2>2 DEF MarkPermanentFailure
    <3> QED
      BY <1>1, <2>1, <2>2, <3>1, MachineMoves
  <2>3. CASE run[wrun] = "erased"
    BY <1>1, <1>3, <2>1, <2>3 DEF MarkPermanentFailure, TypeOK
  <2> QED
    BY <2>1, <2>2, <2>3
<1>4. CASE ~PersistPlan /\ ~MarkPermanentFailure
  BY <1>4 DEF WorkerStep, PassFails, PickRun, BuildPlan, PersistNothing, ReportFailed,
     ReadLateOperations, WriteLateReports, LateReportRefused, vars, durable
<1> QED
  BY <1>2, <1>3, <1>4

\* The receipt, its startup sweep and the deletion implement the declared state
\* machine: however they race and crash, every change of a run's state is a
\* transition advance accepts, and a terminal state changes only when the run
\* is erased.
THEOREM ReceiptImplementsTheStateMachine == Spec => Machine!Spec
<1>1. Init => Machine!Init
  BY DEF Init, Machine!Init
<1>2. ReceiptInv /\ [Next]_vars => [Machine!Next]_run
  BY ReceiptMoves
<1>3. Init => ReceiptInv
  BY ReceiptInit
<1>4. ReceiptInv /\ [Next]_vars => ReceiptInv'
  BY ReceiptStepKeeps
<1> QED
  BY <1>1, <1>2, <1>3, <1>4, PTL DEF Spec, Machine!Spec

\* With the worker there is one transition more, from stored to the end
\* (persist_initial_plan), and only the worker takes it.
THEOREM OnlyTheWorkerSkips == PipelineSpec => OnlyTheWorkerSkipsStages
<1>1. PipelineInit => Machine!Init
  BY DEF PipelineInit, Init, Machine!Init
<1>2. PipelineInv /\ [PipelineNext]_pipelineVars => [Machine!Next \/ WorkerEnds]_run
  <2> SUFFICES ASSUME PipelineInv, [PipelineNext]_pipelineVars
               PROVE  [Machine!Next \/ WorkerEnds]_run
    OBVIOUS
  <2>1. CASE WorkerStep \/ PassFails
    BY <2>1, WorkerMoves
  <2>2. CASE ~(WorkerStep \/ PassFails)
    <3>1. [Next]_vars
      BY <2>2 DEF PipelineNext, ReceiptStep, CrashAll, EraseExport, Next, pipelineVars
    <3>2. [Machine!Next]_run
      BY <3>1, ReceiptMoves DEF PipelineInv
    <3> QED
      BY <3>2
  <2> QED
    BY <2>1, <2>2
<1> QED
  BY <1>1, <1>2, PipelineInvariant, PTL DEF PipelineSpec, OnlyTheWorkerSkipsStages
=============================================================================
