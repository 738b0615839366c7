------------------------------ MODULE BlobProofs ------------------------------
(***************************************************************************)
(* Type correctness of BlobProtocol, and the invariant of blob_protocol.rs *)
(* for any number of exports, tenants, requests, executors, digests and    *)
(* faults: no committed row references a missing blob.  Two conditions are *)
(* needed: references with the same digest are equal, and an eraser does   *)
(* not lose its session between the re-check and the removal of the file.  *)
(*                                                                         *)
(* No bytes are forgotten: what a committed row once referenced is         *)
(* referenced by a row or waits in a durable item until it is erased,      *)
(* with or without the loss of sessions and whatever media types the       *)
(* references carry.  One condition is needed: tenants that delete share   *)
(* no references with each other.  Without it two deletions decide about   *)
(* the same bytes under different tenant locks, each on the rows the other *)
(* one is about to remove.                                                 *)
(***************************************************************************)
EXTENDS BlobProtocol, TLAPS

\* Few leaves need another prover; those name it.
USE Zenon

\* Rows that name the same bytes name them by the same reference.
RefsAgree == \A f, g \in Refs : DigestOf[f] = DigestOf[g] => f = g

\* The initial state is typed.
LEMMA TypeInit == Init => TypeOK
BY ProtocolConstants, SMT DEF Init, TypeOK, RowStates, RegistrarStates, ItemStates, ExecutorStates

\* A registrar wants typed references.
LEMMA WantedTyped ==
  ASSUME NEW e \in Exports
  PROVE  Wanted(e) \subseteq Refs /\ WantedDigests(e) \subseteq Digests
<1>1. Wanted(e) \subseteq Refs
  BY ProtocolConstants DEF Wanted
<1> QED
  BY <1>1, ProtocolConstants, SMT DEF WantedDigests

\* Every step of a registrar, a plan, an executor or a fault keeps the types.
LEMMA TypeNext == TypeOK /\ [Next]_vars => TypeOK'
<1> SUFFICES ASSUME TypeOK, [Next]_vars PROVE TypeOK'
  OBVIOUS
<1> USE ProtocolConstants
<1> USE DEF TypeOK, RowStates, RegistrarStates, ItemStates, ExecutorStates,
            rowVars, lockVars, execVars
<1>1. ASSUME NEW e \in Exports, StoreBytes(e) PROVE TypeOK'
  BY <1>1, WantedTyped, Zenon DEF StoreBytes
<1>2. ASSUME NEW e \in Exports, BeginPublish(e) PROVE TypeOK'
  BY <1>2 DEF BeginPublish
<1>3. ASSUME NEW e \in Exports, BeginImport(e) PROVE TypeOK'
  BY <1>3 DEF BeginImport
<1>3a. ASSUME NEW e \in Exports, ImportRowsGone(e) PROVE TypeOK'
  BY <1>3a DEF ImportRowsGone
<1>4. ASSUME NEW e \in Exports, LockDigest(e) PROVE TypeOK'
  BY <1>4, WantedTyped, SMT DEF LockDigest
<1>5. ASSUME NEW e \in Exports, ProveBlobs(e) PROVE TypeOK'
  BY <1>5, WantedTyped, Zenon DEF ProveBlobs
<1>6. ASSUME NEW e \in Exports, CommitRows(e) PROVE TypeOK'
  BY <1>6, Zenon DEF CommitRows, ReleaseAll
<1>7. ASSUME NEW e \in Exports, AbortRegistration(e) PROVE TypeOK'
  BY <1>7, SMT DEF AbortRegistration, ReleaseAll, Fault
<1>8. ASSUME NEW r \in Requests, PlanDeletion(r) PROVE TypeOK'
  BY <1>8, SMT DEF PlanDeletion, Live
<1>9. ASSUME NEW x \in Executors, NEW r \in Requests, StartExecution(x, r) PROVE TypeOK'
  BY <1>9 DEF StartExecution
<1>10. ASSUME NEW x \in Executors, ExecutorStep(x) PROVE TypeOK'
  <2>1. CASE BeginRemoveRows(x)
    BY <2>1, Zenon DEF BeginRemoveRows
  <2>2. CASE RowsAlreadyRemoved(x)
    BY <2>2 DEF RowsAlreadyRemoved
  <2>3. CASE RemoveRowsRefused(x)
    BY <2>3 DEF RemoveRowsRefused, Forget
  <2>4. CASE RecomputeBlobSharing(x)
    BY <2>4 DEF RecomputeBlobSharing
  <2>5. CASE CommitRemoveRows(x)
    <3>1. items' \in [Requests -> [Refs -> ItemStates]]
      BY <2>5, Zenon DEF CommitRemoveRows
    <3> QED
      BY <2>5, <3>1 DEF CommitRemoveRows, ReleaseAll
  <2>6. CASE ListItems(x)
    BY <2>6 DEF ListItems
  <2>7. CASE VisitItem(x)
    <3>1. PICK f \in xtodo[x] : xref' = [xref EXCEPT ![x] = f]
      BY <2>7, Zenon DEF VisitItem
    <3>2. f \in Refs
      BY <3>1
    <3> QED
      BY <2>7, <3>1, <3>2, Zenon DEF VisitItem
  <2>8. CASE LockItem(x)
    BY <2>8, Zenon DEF LockItem
  <2>9. CASE KeepItem(x)
    BY <2>9, Zenon DEF KeepItem, SetItemState, EndVisit, ReleaseAll
  <2>10. CASE ClearItem(x)
    BY <2>10 DEF ClearItem
  <2>11. CASE EraseBytes(x)
    BY <2>11, Zenon DEF EraseBytes
  <2>12. CASE CommitErase(x)
    BY <2>12, Zenon DEF CommitErase, SetItemState, EndVisit, ReleaseAll
  <2>13. CASE CompleteRequest(x)
    BY <2>13, Zenon DEF CompleteRequest, Forget
  <2>14. CASE EraseUnguarded(x)
    BY <2>14, Zenon DEF EraseUnguarded, Forget
  <2> QED
    BY <1>10, <2>1, <2>2, <2>3, <2>4, <2>5, <2>6, <2>7, <2>8, <2>9, <2>10, <2>11, <2>12, Zenon,
       <2>13, <2>14 DEF ExecutorStep
<1>11. ASSUME NEW x \in Executors, CrashExecutor(x) PROVE TypeOK'
  BY <1>11, SMT DEF CrashExecutor, Forget, ReleaseAll, Fault
<1>12. ASSUME NEW x \in Executors, LoseSession(x) PROVE TypeOK'
  BY <1>12, SMT DEF LoseSession, ReleaseAll, Fault
<1>13. CASE UNCHANGED vars
  BY <1>13 DEF vars
<1> QED
  BY <1>1, <1>2, <1>3, <1>3a, <1>4, <1>5, <1>6, <1>7, <1>8, <1>9, <1>10, <1>11, <1>12, <1>13, Zenon
     DEF Next, RegistrarStep

\* Every variable of the protocol keeps its type.
THEOREM TypeCorrect == Spec => []TypeOK
<1> QED BY TypeInit, TypeNext, PTL DEF Spec

-----------------------------------------------------------------------------
(***************************************************************************)
(* The inductive invariant.  A registrar that proved its blobs holds every *)
(* digest lock it needs; a registrar of an existing export holds the       *)
(* tenant lock and its rows are still there; an eraser past the digest     *)
(* lock holds it, and once cleared nothing references its item; a          *)
(* transaction that removes rows holds the tenant lock of everything it    *)
(* removes.                                                                *)
(***************************************************************************)
RegistrarSafe(e) ==
    /\ wpc[e] = "proved" => \A f \in Wanted(e) : DigestOf[f] \in store /\ blobLock[DigestOf[f]] = e
    /\ wpc[e] \in {"locking", "proved"} /\ row[e] # "absent"
          => tenantLock[Owner[e]] = e /\ row[e] \in {"raw", "imported"}

EraserSafe(x) ==
    /\ xpc[x] # "idle" => xreq[x] \in Requests
    /\ xpc[x] \in {"tenant", "locked", "cleared", "erased"} => xref[x] \in Refs
    /\ xpc[x] \in {"locked", "cleared", "erased"} => blobLock[DigestOf[xref[x]]] = x
    /\ xpc[x] = "cleared" => \A e \in Exports : xref[x] \notin RowRefs(e)
    /\ xpc[x] \in {"removing", "decided"} => tenantLock[RequestTenant[xreq[x]]] = x
    /\ xpc[x] # "unguarded"

ScopesAreOwned ==
    \A r \in Requests : \A e \in scope[r] : Owner[e] = RequestTenant[r] /\ row[e] # "absent"

ProtocolInv ==
    /\ TypeOK
    /\ NoRowReferencesMissingBlob
    /\ \A e \in Exports : RegistrarSafe(e)
    /\ \A x \in Executors : EraserSafe(x)
    /\ ScopesAreOwned

\* Nothing is stored, referenced or locked initially.
LEMMA ProtocolInvInit == Init => ProtocolInv
<1> SUFFICES ASSUME Init PROVE ProtocolInv
  OBVIOUS
<1>1. TypeOK
  BY TypeInit
<1>2. \A e \in Exports : row[e] = "absent" /\ wpc[e] = "idle" /\ RowRefs(e) = {}
  BY DEF Init, RowRefs
<1>3. \A x \in Executors : xpc[x] = "idle"
  BY DEF Init
<1>4. \A r \in Requests : scope[r] = {}
  BY DEF Init
<1> QED
  BY <1>1, <1>2, <1>3, <1>4 DEF ProtocolInv, NoRowReferencesMissingBlob, RegistrarSafe,
     EraserSafe, ScopesAreOwned

-----------------------------------------------------------------------------
(***************************************************************************)
(* What a step of one process leaves to the others.                        *)
(***************************************************************************)

\* Process q keeps the locks it holds.
KeepsLocks(q) ==
    /\ \A d \in Digests : blobLock[d] = q => blobLock'[d] = q
    /\ \A t \in Tenants : tenantLock[t] = q => tenantLock'[t] = q

\* A step of p: every other process keeps its place and its locks.
OthersKeep(p) ==
    /\ \A o \in Exports \ {p} : wpc'[o] = wpc[o] /\ KeepsLocks(o)
    /\ \A y \in Executors \ {p} :
          xpc'[y] = xpc[y] /\ xreq'[y] = xreq[y] /\ xref'[y] = xref[y] /\ KeepsLocks(y)

\* What a row references depends on the row alone.
LEMMA SameRow ==
  ASSUME NEW e \in Exports, row'[e] = row[e]
  PROVE  Wanted(e)' = Wanted(e) /\ RowRefs(e)' = RowRefs(e)
BY DEF Wanted, RowRefs

\* A registrar that is left alone stays safe while its proved bytes stay.
LEMMA RegistrarGoesOn ==
  ASSUME NEW o \in Exports, RegistrarSafe(o), row'[o] = row[o], wpc'[o] = wpc[o], KeepsLocks(o),
         wpc[o] = "proved" => \A f \in Wanted(o) : DigestOf[f] \in store'
  PROVE  RegistrarSafe(o)'
<1>1. Wanted(o)' = Wanted(o)
  BY SameRow
<1>2. \A f \in Wanted(o) : DigestOf[f] \in Digests
  BY WantedTyped, ProtocolConstants
<1>3. Owner[o] \in Tenants
  BY ProtocolConstants
<1> QED
  BY <1>1, <1>2, <1>3 DEF RegistrarSafe, KeepsLocks

\* An executor that is left alone stays safe while no row takes up its item.
LEMMA EraserGoesOn ==
  ASSUME NEW y \in Executors, EraserSafe(y), KeepsLocks(y),
         xpc'[y] = xpc[y], xreq'[y] = xreq[y], xref'[y] = xref[y],
         xpc[y] = "cleared" => \A e \in Exports : xref[y] \notin RowRefs(e)'
  PROVE  EraserSafe(y)'
<1>1. xref[y] \in Refs => DigestOf[xref[y]] \in Digests
  BY ProtocolConstants
<1>2. xreq[y] \in Requests => RequestTenant[xreq[y]] \in Tenants
  BY ProtocolConstants
<1> QED
  BY <1>1, <1>2 DEF EraserSafe, KeepsLocks

\* A step of p that changes no row and removes no bytes leaves the invariant
\* to what it does to p itself.
LEMMA QuietStep ==
  ASSUME ProtocolInv, TypeOK', NEW p, row' = row, store \subseteq store', OthersKeep(p),
         p \in Exports => RegistrarSafe(p)', p \in Executors => EraserSafe(p)',
         ScopesAreOwned'
  PROVE  ProtocolInv'
<1>1. \A e \in Exports : Wanted(e)' = Wanted(e) /\ RowRefs(e)' = RowRefs(e)
  BY SameRow
<1>2. NoRowReferencesMissingBlob'
  BY <1>1 DEF ProtocolInv, NoRowReferencesMissingBlob
<1>3. ASSUME NEW o \in Exports \ {p} PROVE RegistrarSafe(o)'
  <2>1. RegistrarSafe(o) /\ wpc'[o] = wpc[o] /\ KeepsLocks(o)
    BY DEF ProtocolInv, OthersKeep
  <2>2. wpc[o] = "proved" => \A f \in Wanted(o) : DigestOf[f] \in store'
    BY <2>1 DEF RegistrarSafe
  <2> QED
    BY <2>1, <2>2, RegistrarGoesOn
<1>4. ASSUME NEW y \in Executors \ {p} PROVE EraserSafe(y)'
  <2>1. /\ EraserSafe(y) /\ KeepsLocks(y)
        /\ xpc'[y] = xpc[y] /\ xreq'[y] = xreq[y] /\ xref'[y] = xref[y]
    BY DEF ProtocolInv, OthersKeep
  <2>2. xpc[y] = "cleared" => \A e \in Exports : xref[y] \notin RowRefs(e)'
    BY <1>1, <2>1 DEF EraserSafe
  <2> QED
    BY <2>1, <2>2, EraserGoesOn
<1> QED
  BY <1>2, <1>3, <1>4 DEF ProtocolInv

\* Scopes stay owned while they only shrink and no row becomes absent.
LEMMA ScopesStay ==
  ASSUME ScopesAreOwned, \A r \in Requests : scope'[r] \subseteq scope[r],
         TypeOK, \A e \in Exports : row[e] # "absent" => row'[e] # "absent"
  PROVE  ScopesAreOwned'
BY DEF ScopesAreOwned, TypeOK

\* Ending a transaction frees its own locks and no others.
LEMMA ReleaseKeepsOthers ==
  ASSUME NEW p, NEW q \in Exports \cup Executors, q # p, ReleaseAll(p)
  PROVE  KeepsLocks(q)
BY SMT DEF ReleaseAll, KeepsLocks

\* Taking a free lock, or none, disturbs nobody.
LEMMA LockingKeeps ==
  ASSUME NEW q \in Exports \cup Executors,
         \A d \in Digests : blobLock'[d] = blobLock[d] \/ blobLock[d] = NoOne,
         \A t \in Tenants : tenantLock'[t] = tenantLock[t] \/ tenantLock[t] = NoOne
  PROVE  KeepsLocks(q)
BY ProtocolConstants DEF KeepsLocks

-----------------------------------------------------------------------------
(***************************************************************************)
(* The steps of a registrar.                                               *)
(***************************************************************************)

\* A registrar that takes at most free locks disturbs nobody.
LEMMA RegistrarKeepsOthers ==
  ASSUME TypeOK, NEW e \in Exports, UNCHANGED execVars,
         \A o \in Exports \ {e} : wpc'[o] = wpc[o],
         \A d \in Digests : blobLock'[d] = blobLock[d] \/ blobLock[d] = NoOne,
         \A t \in Tenants : tenantLock'[t] = tenantLock[t] \/ tenantLock[t] = NoOne
  PROVE  OthersKeep(e)
BY LockingKeeps DEF OthersKeep, execVars

\* The steps of a registrar before its commit.
LEMMA RegistrarQuiet ==
  ASSUME ProtocolInv, TypeOK', NEW e \in Exports,
         \/ StoreBytes(e) \/ BeginPublish(e) \/ BeginImport(e) \/ ImportRowsGone(e)
         \/ LockDigest(e) \/ ProveBlobs(e)
  PROVE  ProtocolInv'
<1>0. TypeOK /\ RegistrarSafe(e) /\ ScopesAreOwned
  BY DEF ProtocolInv
<1>1. row' = row /\ scope' = scope /\ store \subseteq store' /\ UNCHANGED execVars
  BY DEF StoreBytes, BeginPublish, BeginImport, ImportRowsGone, LockDigest, ProveBlobs, rowVars
<1>2. /\ \A o \in Exports \ {e} : wpc'[o] = wpc[o]
      /\ \A d \in Digests : blobLock'[d] = blobLock[d] \/ blobLock[d] = NoOne
      /\ \A t \in Tenants : tenantLock'[t] = tenantLock[t] \/ tenantLock[t] = NoOne
  <2>1. \A o \in Exports \ {e} : wpc'[o] = wpc[o]
    BY <1>0 DEF StoreBytes, BeginPublish, BeginImport, ImportRowsGone, LockDigest, ProveBlobs, TypeOK
  <2>2. \A d \in Digests : blobLock'[d] = blobLock[d] \/ blobLock[d] = NoOne
    BY <1>0 DEF StoreBytes, BeginPublish, BeginImport, ImportRowsGone, LockDigest, ProveBlobs,
       TypeOK, lockVars
  <2>3. \A t \in Tenants : tenantLock'[t] = tenantLock[t] \/ tenantLock[t] = NoOne
    BY <1>0 DEF StoreBytes, BeginPublish, BeginImport, ImportRowsGone, LockDigest, ProveBlobs,
       TypeOK, lockVars
  <2> QED
    BY <2>1, <2>2, <2>3
<1>3. OthersKeep(e)
  BY <1>0, <1>1, <1>2, RegistrarKeepsOthers
<1>4. ScopesAreOwned'
  BY <1>0, <1>1, ScopesStay
<1>5. RegistrarSafe(e)'
  <2>1. CASE StoreBytes(e) \/ BeginPublish(e) \/ ImportRowsGone(e)
    <3>1. wpc'[e] \in {"idle", "stored"} \/ (wpc'[e] = "locking" /\ row[e] = "absent")
      BY <1>0, <2>1 DEF StoreBytes, BeginPublish, ImportRowsGone, TypeOK
    <3> QED
      BY <1>1, <3>1 DEF RegistrarSafe
  <2>2. CASE BeginImport(e)
    <3>1. wpc'[e] = "locking" /\ tenantLock'[Owner[e]] = e /\ row[e] \in {"raw", "imported"}
      BY <1>0, <2>2, ProtocolConstants DEF BeginImport, TypeOK
    <3> QED
      BY <1>1, <3>1 DEF RegistrarSafe
  <2>3. CASE LockDigest(e)
    <3>1. wpc' = wpc /\ tenantLock' = tenantLock /\ wpc[e] = "locking"
      BY <2>3 DEF LockDigest
    <3> QED
      BY <1>0, <1>1, <3>1 DEF RegistrarSafe
  <2>4. CASE ProveBlobs(e)
    <3>1. /\ wpc[e] = "locking" /\ blobLock' = blobLock /\ tenantLock' = tenantLock
          /\ \A f \in Wanted(e) : DigestOf[f] \in store' /\ blobLock[DigestOf[f]] = e
      BY <2>4 DEF ProveBlobs, WantedDigests, HeldBy, lockVars
    <3>2. Wanted(e)' = Wanted(e)
      BY <1>1, SameRow
    <3> QED
      BY <1>0, <1>1, <3>1, <3>2 DEF RegistrarSafe
  <2> QED
    BY <2>1, <2>2, <2>3, <2>4
<1>6. e \notin Executors
  BY ProtocolConstants
<1> QED
  BY <1>1, <1>3, <1>4, <1>5, <1>6, QuietStep

\* The commit of a registrar: its proof is still valid, because it holds the
\* digest locks since then.
LEMMA RegistrarCommits ==
  ASSUME ProtocolInv, TypeOK', NEW e \in Exports, CommitRows(e)
  PROVE  ProtocolInv'
<1>0. TypeOK /\ RegistrarSafe(e) /\ ScopesAreOwned /\ NoRowReferencesMissingBlob
  BY DEF ProtocolInv
<1>1. /\ store' = store /\ scope' = scope /\ ReleaseAll(e) /\ UNCHANGED execVars
      /\ wpc[e] = "proved" /\ wpc'[e] = "idle" /\ row'[e] \in {"raw", "imported"}
      /\ row[e] = "absent" => row'[e] = "raw"
      /\ \A o \in Exports \ {e} : wpc'[o] = wpc[o] /\ row'[o] = row[o]
  BY <1>0 DEF CommitRows, TypeOK
<1>2. \A f \in Wanted(e) : DigestOf[f] \in store /\ blobLock[DigestOf[f]] = e
  BY <1>0, <1>1 DEF RegistrarSafe
<1>3. row[e] # "absent" => row[e] \in {"raw", "imported"}
  BY <1>0, <1>1 DEF RegistrarSafe
<1>4. RowRefs(e)' \subseteq RowRefs(e) \cup Wanted(e)
  BY <1>1, <1>3 DEF RowRefs, Wanted
<1>5. \A o \in Exports \ {e} : RowRefs(o)' = RowRefs(o)
  BY <1>1, SameRow
<1>6. NoRowReferencesMissingBlob'
  BY <1>0, <1>1, <1>2, <1>4, <1>5 DEF NoRowReferencesMissingBlob
<1>7. ASSUME NEW o \in Exports PROVE RegistrarSafe(o)'
  <2>1. CASE o = e
    BY <1>1, <2>1 DEF RegistrarSafe
  <2>2. CASE o # e
    <3>1. RegistrarSafe(o) /\ KeepsLocks(o)
      BY <1>1, <2>2, ReleaseKeepsOthers DEF ProtocolInv
    <3>2. wpc[o] = "proved" => \A f \in Wanted(o) : DigestOf[f] \in store'
      BY <1>1, <3>1 DEF RegistrarSafe
    <3> QED
      BY <1>1, <2>2, <3>1, <3>2, RegistrarGoesOn
  <2> QED
    BY <2>1, <2>2
<1>8. ASSUME NEW y \in Executors PROVE EraserSafe(y)'
  <2>1. y # e
    BY ProtocolConstants
  <2>2. EraserSafe(y) /\ KeepsLocks(y)
    BY <1>1, <2>1, ReleaseKeepsOthers DEF ProtocolInv
  <2>3. xpc'[y] = xpc[y] /\ xreq'[y] = xreq[y] /\ xref'[y] = xref[y]
    BY <1>1 DEF execVars
  <2>4. xpc[y] = "cleared" => \A o \in Exports : xref[y] \notin RowRefs(o)'
    <3>1. xpc[y] = "cleared" => xref[y] \notin Wanted(e)
      BY <1>2, <2>1, <2>2 DEF EraserSafe
    <3> QED
      BY <1>4, <1>5, <2>2, <3>1 DEF EraserSafe
  <2> QED
    BY <2>2, <2>3, <2>4, EraserGoesOn
<1>9. ScopesAreOwned'
  <2>1. \A o \in Exports : row[o] # "absent" => row'[o] # "absent"
    BY <1>1
  <2> QED
    BY <1>0, <1>1, <2>1, ScopesStay
<1> QED
  BY <1>6, <1>7, <1>8, <1>9 DEF ProtocolInv

\* A rollback gives up the locks and the claims that rest on them.
LEMMA RegistrarAborts ==
  ASSUME ProtocolInv, TypeOK', NEW e \in Exports, AbortRegistration(e)
  PROVE  ProtocolInv'
<1>0. TypeOK /\ ScopesAreOwned
  BY DEF ProtocolInv
<1>1. /\ store' = store /\ row' = row /\ scope' = scope /\ ReleaseAll(e) /\ UNCHANGED execVars
      /\ wpc'[e] = "idle" /\ \A o \in Exports \ {e} : wpc'[o] = wpc[o]
  BY <1>0 DEF AbortRegistration, rowVars, TypeOK
<1>2. OthersKeep(e)
  BY <1>1, ReleaseKeepsOthers, ProtocolConstants DEF OthersKeep, execVars
<1>3. RegistrarSafe(e)'
  BY <1>1 DEF RegistrarSafe
<1>4. ScopesAreOwned'
  BY <1>0, <1>1, ScopesStay
<1>5. e \notin Executors
  BY ProtocolConstants
<1> QED
  BY <1>1, <1>2, <1>3, <1>4, <1>5, QuietStep

-----------------------------------------------------------------------------
(***************************************************************************)
(* The steps of a deletion.                                                *)
(***************************************************************************)

\* A step of executor x leaves the place of every other process alone.
OnlyExecutor(x) ==
    /\ wpc' = wpc
    /\ \A y \in Executors \ {x} : xpc'[y] = xpc[y] /\ xreq'[y] = xreq[y] /\ xref'[y] = xref[y]

\* An executor that ends its transaction, or takes free locks, disturbs nobody.
LEMMA ExecutorKeepsOthers ==
  ASSUME NEW x \in Executors, OnlyExecutor(x),
         \/ ReleaseAll(x)
         \/ /\ \A d \in Digests : blobLock'[d] = blobLock[d] \/ blobLock[d] = NoOne
            /\ \A t \in Tenants : tenantLock'[t] = tenantLock[t] \/ tenantLock[t] = NoOne
  PROVE  OthersKeep(x)
<1>1. \A q \in (Exports \cup Executors) \ {x} : KeepsLocks(q)
  BY ReleaseKeepsOthers, LockingKeeps
<1> QED
  BY <1>1 DEF OthersKeep, OnlyExecutor

\* A plan names live exports of its own tenant.
LEMMA PlanKeeps ==
  ASSUME ProtocolInv, TypeOK', NEW r \in Requests, PlanDeletion(r)
  PROVE  ProtocolInv'
<1>0. TypeOK /\ ScopesAreOwned
  BY DEF ProtocolInv
<1>1. /\ store' = store /\ row' = row /\ wpc' = wpc /\ UNCHANGED lockVars /\ UNCHANGED execVars
      /\ \A o \in Requests \ {r} : scope'[o] = scope[o]
      /\ \A e \in scope'[r] : e \in Live /\ Owner[e] = RequestTenant[r]
  BY <1>0, SMT DEF PlanDeletion, TypeOK
<1>2. OthersKeep(NoOne)
  BY <1>1 DEF OthersKeep, KeepsLocks, lockVars, execVars
<1>3. ScopesAreOwned'
  BY <1>0, <1>1 DEF ScopesAreOwned, Live
<1>4. NoOne \notin Exports /\ NoOne \notin Executors
  BY ProtocolConstants
<1> QED
  BY <1>1, <1>2, <1>3, <1>4, QuietStep

\* A step of executor x that changes no row and no bytes and takes at most
\* free locks.
QuietFor(x) ==
    /\ row' = row /\ store' = store
    /\ \A r \in Requests : scope'[r] \subseteq scope[r]
    /\ OnlyExecutor(x)
    /\ \A d \in Digests : blobLock'[d] = blobLock[d] \/ blobLock[d] = NoOne
    /\ \A t \in Tenants : tenantLock'[t] = tenantLock[t] \/ tenantLock[t] = NoOne

\* Such a step leaves the invariant to what it does to x itself.
LEMMA QuietExecutor ==
  ASSUME ProtocolInv, TypeOK', NEW x \in Executors, QuietFor(x), EraserSafe(x)'
  PROVE  ProtocolInv'
<1>1. OthersKeep(x)
  BY ExecutorKeepsOthers DEF QuietFor
<1>2. ScopesAreOwned'
  BY ScopesStay DEF QuietFor, ProtocolInv
<1>3. x \notin Exports
  BY ProtocolConstants
<1> QED
  BY <1>1, <1>2, <1>3, QuietStep DEF QuietFor

\* The types a step of an executor depends on.
LEMMA ExecutorTypes ==
  ASSUME ProtocolInv
  PROVE  /\ blobLock \in [Digests -> Exports \cup Executors \cup {NoOne}]
         /\ tenantLock \in [Tenants -> Exports \cup Executors \cup {NoOne}]
         /\ xpc \in [Executors -> ExecutorStates]
         /\ xreq \in [Executors -> Requests \cup {NoOne}]
         /\ xtodo \in [Executors -> SUBSET Refs]
         /\ xref \in [Executors -> Refs \cup {NoOne}]
         /\ scope \in [Requests -> SUBSET Exports]
BY DEF ProtocolInv, TypeOK

\* An execution starts without a lock.
LEMMA StartExecutionKeeps ==
  ASSUME ProtocolInv, TypeOK', NEW x \in Executors, NEW r \in Requests, StartExecution(x, r)
  PROVE  ProtocolInv'
<1>0. EraserSafe(x)
  BY DEF ProtocolInv
<1>8. QuietFor(x)
  BY ExecutorTypes DEF QuietFor, OnlyExecutor, StartExecution, rowVars, lockVars
<1>1. xpc'[x] \in {"rows", "listing"} /\ xreq'[x] \in Requests
  BY ExecutorTypes DEF StartExecution
<1>9. EraserSafe(x)'
  BY <1>1 DEF EraserSafe
<1> QED
  BY <1>8, <1>9, QuietExecutor

\* The row transaction starts with the tenant lock.
LEMMA BeginRemoveRowsKeeps ==
  ASSUME ProtocolInv, TypeOK', NEW x \in Executors, BeginRemoveRows(x)
  PROVE  ProtocolInv'
<1>0. EraserSafe(x)
  BY DEF ProtocolInv
<1>8. QuietFor(x)
  BY ExecutorTypes DEF QuietFor, OnlyExecutor, BeginRemoveRows, rowVars
<1>1. xreq[x] \in Requests
  BY <1>0 DEF BeginRemoveRows, EraserSafe
<1>2. RequestTenant[xreq[x]] \in Tenants
  BY <1>1, ProtocolConstants
<1>3. xpc'[x] = "removing" /\ xreq' = xreq /\ tenantLock'[RequestTenant[xreq[x]]] = x
  BY <1>2, ExecutorTypes DEF BeginRemoveRows
<1>9. EraserSafe(x)'
  BY <1>1, <1>3 DEF EraserSafe
<1> QED
  BY <1>8, <1>9, QuietExecutor

\* A second executor skips the row phase.
LEMMA RowsAlreadyRemovedKeeps ==
  ASSUME ProtocolInv, TypeOK', NEW x \in Executors, RowsAlreadyRemoved(x)
  PROVE  ProtocolInv'
<1>0. EraserSafe(x)
  BY DEF ProtocolInv
<1>8. QuietFor(x)
  BY ExecutorTypes DEF QuietFor, OnlyExecutor, RowsAlreadyRemoved, rowVars, lockVars
<1>1. xpc[x] # "idle" /\ xpc'[x] = "listing" /\ xreq' = xreq
  BY ExecutorTypes DEF RowsAlreadyRemoved
<1>9. EraserSafe(x)'
  BY <1>0, <1>1 DEF EraserSafe
<1> QED
  BY <1>8, <1>9, QuietExecutor

\* A refused deletion changes nothing.
LEMMA RemoveRowsRefusedKeeps ==
  ASSUME ProtocolInv, TypeOK', NEW x \in Executors, RemoveRowsRefused(x)
  PROVE  ProtocolInv'
<1>0. EraserSafe(x)
  BY DEF ProtocolInv
<1>8. QuietFor(x)
  BY ExecutorTypes DEF QuietFor, OnlyExecutor, RemoveRowsRefused, Forget, rowVars, lockVars
<1>1. xpc'[x] = "idle"
  BY ExecutorTypes DEF RemoveRowsRefused, Forget
<1>9. EraserSafe(x)'
  BY <1>1 DEF EraserSafe
<1> QED
  BY <1>8, <1>9, QuietExecutor

\* The decision on sharing is made under the tenant lock.
LEMMA RecomputeBlobSharingKeeps ==
  ASSUME ProtocolInv, TypeOK', NEW x \in Executors, RecomputeBlobSharing(x)
  PROVE  ProtocolInv'
<1>0. EraserSafe(x)
  BY DEF ProtocolInv
<1>8. QuietFor(x)
  BY ExecutorTypes DEF QuietFor, OnlyExecutor, RecomputeBlobSharing, rowVars, lockVars
<1>1. xpc[x] = "removing" /\ xpc'[x] = "decided" /\ xreq' = xreq /\ tenantLock' = tenantLock
  BY ExecutorTypes DEF RecomputeBlobSharing, lockVars
<1>9. EraserSafe(x)'
  BY <1>0, <1>1 DEF EraserSafe
<1> QED
  BY <1>8, <1>9, QuietExecutor

\* Reading the work list takes no lock.
LEMMA ListItemsKeeps ==
  ASSUME ProtocolInv, TypeOK', NEW x \in Executors, ListItems(x)
  PROVE  ProtocolInv'
<1>0. EraserSafe(x)
  BY DEF ProtocolInv
<1>8. QuietFor(x)
  BY ExecutorTypes DEF QuietFor, OnlyExecutor, ListItems, rowVars, lockVars
<1>1. xpc[x] # "idle" /\ xpc'[x] = "visiting" /\ xreq' = xreq
  BY ExecutorTypes DEF ListItems
<1>9. EraserSafe(x)'
  BY <1>0, <1>1 DEF EraserSafe
<1> QED
  BY <1>8, <1>9, QuietExecutor

\* A visit takes an item of the work list and the tenant lock.
LEMMA VisitItemKeeps ==
  ASSUME ProtocolInv, TypeOK', NEW x \in Executors, VisitItem(x)
  PROVE  ProtocolInv'
<1>0. EraserSafe(x)
  BY DEF ProtocolInv
<1>8. QuietFor(x)
  BY ExecutorTypes DEF QuietFor, OnlyExecutor, VisitItem, rowVars
<1>1. xpc[x] = "visiting" /\ xpc'[x] = "tenant" /\ xreq' = xreq
  BY ExecutorTypes DEF VisitItem
<1>2. xref'[x] \in Refs
  BY ExecutorTypes DEF VisitItem
<1>9. EraserSafe(x)'
  BY <1>0, <1>1, <1>2 DEF EraserSafe
<1> QED
  BY <1>8, <1>9, QuietExecutor

\* The digest lock of the item.
LEMMA LockItemKeeps ==
  ASSUME ProtocolInv, TypeOK', NEW x \in Executors, LockItem(x)
  PROVE  ProtocolInv'
<1>0. EraserSafe(x)
  BY DEF ProtocolInv
<1>8. QuietFor(x)
  BY ExecutorTypes DEF QuietFor, OnlyExecutor, LockItem, rowVars
<1>1. xpc[x] = "tenant" /\ xref[x] \in Refs
  BY <1>0 DEF LockItem, EraserSafe
<1>2. DigestOf[xref[x]] \in Digests
  BY <1>1, ProtocolConstants
<1>3. xpc'[x] = "locked" /\ xreq' = xreq /\ xref' = xref /\ blobLock'[DigestOf[xref[x]]] = x
  BY <1>2, ExecutorTypes DEF LockItem
<1>9. EraserSafe(x)'
  BY <1>0, <1>1, <1>3 DEF EraserSafe
<1> QED
  BY <1>8, <1>9, QuietExecutor

\* The re-check under the digest lock covers every row that is committed.
LEMMA ClearItemKeeps ==
  ASSUME ProtocolInv, TypeOK', NEW x \in Executors, ClearItem(x)
  PROVE  ProtocolInv'
<1>0. EraserSafe(x)
  BY DEF ProtocolInv
<1>8. QuietFor(x)
  BY ExecutorTypes DEF QuietFor, OnlyExecutor, ClearItem, rowVars, lockVars
<1>1. /\ xpc[x] = "locked" /\ xpc'[x] = "cleared" /\ xreq' = xreq /\ xref' = xref
      /\ blobLock' = blobLock
  BY ExecutorTypes DEF ClearItem, lockVars
<1>2. \A e \in Exports : xref[x] \notin RowRefs(e)
  BY DEF ClearItem, Referenced, Live, RowRefs
<1>3. \A e \in Exports : RowRefs(e)' = RowRefs(e)
  BY <1>8, SameRow DEF QuietFor
<1>9. EraserSafe(x)'
  BY <1>0, <1>1, <1>2, <1>3 DEF EraserSafe
<1> QED
  BY <1>8, <1>9, QuietExecutor

\* Completion drops the scope.
LEMMA CompleteRequestKeeps ==
  ASSUME ProtocolInv, TypeOK', NEW x \in Executors, CompleteRequest(x)
  PROVE  ProtocolInv'
<1>0. EraserSafe(x)
  BY DEF ProtocolInv
<1>8. QuietFor(x)
  BY ExecutorTypes DEF QuietFor, OnlyExecutor, CompleteRequest, Forget, lockVars
<1>1. xpc'[x] = "idle"
  BY ExecutorTypes DEF CompleteRequest, Forget
<1>9. EraserSafe(x)'
  BY <1>1 DEF EraserSafe
<1> QED
  BY <1>8, <1>9, QuietExecutor

\* The end of a transaction of an executor, by commit or by crash.
LEMMA ExecutorReleases ==
  ASSUME ProtocolInv, TypeOK', NEW x \in Executors, ReleaseAll(x), OnlyExecutor(x),
         row' = row, store' = store, scope' = scope,
         xpc'[x] = "idle" \/ (xpc[x] # "idle" /\ xpc'[x] = "visiting" /\ xreq' = xreq)
  PROVE  ProtocolInv'
<1>1. EraserSafe(x)'
  BY DEF EraserSafe, ProtocolInv
<1>2. OthersKeep(x)
  BY ExecutorKeepsOthers
<1>3. ScopesAreOwned'
  BY ScopesStay DEF ProtocolInv
<1>4. x \notin Exports
  BY ProtocolConstants
<1> QED
  BY <1>1, <1>2, <1>3, <1>4, QuietStep

\* The commit that keeps an item.
LEMMA KeepItemKeeps ==
  ASSUME ProtocolInv, TypeOK', NEW x \in Executors, KeepItem(x)
  PROVE  ProtocolInv'
<1>1. row' = row /\ store' = store /\ scope' = scope /\ wpc' = wpc /\ ReleaseAll(x)
  BY DEF KeepItem, EndVisit
<1>2. OnlyExecutor(x)
  BY <1>1, ExecutorTypes DEF OnlyExecutor, KeepItem, EndVisit
<1>3. xpc'[x] = "idle" \/ (xpc[x] # "idle" /\ xpc'[x] = "visiting" /\ xreq' = xreq)
  BY ExecutorTypes DEF KeepItem, EndVisit
<1> QED
  BY <1>1, <1>2, <1>3, ExecutorReleases

\* The commit after the bytes are gone.
LEMMA CommitEraseKeeps ==
  ASSUME ProtocolInv, TypeOK', NEW x \in Executors, CommitErase(x)
  PROVE  ProtocolInv'
<1>1. row' = row /\ store' = store /\ scope' = scope /\ wpc' = wpc /\ ReleaseAll(x)
  BY DEF CommitErase, EndVisit
<1>2. OnlyExecutor(x)
  BY <1>1, ExecutorTypes DEF OnlyExecutor, CommitErase, EndVisit
<1>3. xpc'[x] = "idle" \/ (xpc[x] # "idle" /\ xpc'[x] = "visiting" /\ xreq' = xreq)
  BY ExecutorTypes DEF CommitErase, EndVisit
<1> QED
  BY <1>1, <1>2, <1>3, ExecutorReleases

\* A crash at any point of an execution.
LEMMA CrashExecutorKeeps ==
  ASSUME ProtocolInv, TypeOK', NEW x \in Executors, CrashExecutor(x)
  PROVE  ProtocolInv'
<1>1. row' = row /\ store' = store /\ scope' = scope /\ wpc' = wpc /\ ReleaseAll(x)
  BY DEF CrashExecutor, Forget, rowVars
<1>2. OnlyExecutor(x)
  BY <1>1, ExecutorTypes DEF OnlyExecutor, CrashExecutor, Forget, rowVars
<1>3. xpc'[x] = "idle" \/ (xpc[x] # "idle" /\ xpc'[x] = "visiting" /\ xreq' = xreq)
  BY ExecutorTypes DEF CrashExecutor, Forget, rowVars
<1> QED
  BY <1>1, <1>2, <1>3, ExecutorReleases

\* Rows go under the tenant lock, so no registrar works on one of them.
LEMMA RowsGo ==
  ASSUME ProtocolInv, TypeOK', NEW x \in Executors, CommitRemoveRows(x)
  PROVE  ProtocolInv'
<1> DEFINE r == xreq[x]
<1>0. TypeOK /\ EraserSafe(x) /\ ScopesAreOwned /\ NoRowReferencesMissingBlob
  BY DEF ProtocolInv
<1>1. /\ r \in Requests /\ tenantLock[RequestTenant[r]] = x
      /\ xpc[x] = "decided"
  BY <1>0 DEF CommitRemoveRows, EraserSafe
<1>2. /\ store' = store /\ scope' = scope /\ wpc' = wpc /\ xreq' = xreq /\ xref' = xref
      /\ ReleaseAll(x) /\ xpc'[x] = "listing" /\ \A y \in Executors \ {x} : xpc'[y] = xpc[y]
      /\ \A e \in Exports : row'[e] = IF e \in scope[r] THEN "deleted" ELSE row[e]
  BY ExecutorTypes DEF CommitRemoveRows
<1>3. OthersKeep(x)
  BY <1>2, ExecutorKeepsOthers DEF OnlyExecutor
<1>4. \A e \in Exports : RowRefs(e)' \subseteq RowRefs(e)
  BY <1>2 DEF RowRefs
<1>5. NoRowReferencesMissingBlob'
  BY <1>0, <1>2, <1>4 DEF NoRowReferencesMissingBlob
<1>6. ASSUME NEW e \in Exports PROVE RegistrarSafe(e)'
  <2>0. RegistrarSafe(e) /\ e # x /\ KeepsLocks(e)
    BY <1>3, ProtocolConstants DEF ProtocolInv, OthersKeep
  <2>1. CASE e \in scope[r]
    <3>1. Owner[e] = RequestTenant[r] /\ row[e] # "absent"
      BY <1>0, <1>1, <2>1 DEF ScopesAreOwned
    <3>2. wpc[e] \notin {"locking", "proved"}
      BY <1>1, <2>0, <3>1 DEF RegistrarSafe
    <3> QED
      BY <1>2, <3>2 DEF RegistrarSafe
  <2>2. CASE e \notin scope[r]
    <3>1. wpc[e] = "proved" => \A f \in Wanted(e) : DigestOf[f] \in store'
      BY <1>2, <2>0 DEF RegistrarSafe
    <3> QED
      BY <1>2, <2>0, <2>2, <3>1, RegistrarGoesOn
  <2> QED
    BY <2>1, <2>2
<1>7. ASSUME NEW y \in Executors PROVE EraserSafe(y)'
  <2>1. CASE y = x
    BY <1>1, <1>2, <2>1 DEF EraserSafe
  <2>2. CASE y # x
    <3>1. EraserSafe(y) /\ KeepsLocks(y) /\ xpc'[y] = xpc[y]
      BY <1>2, <1>3, <2>2 DEF ProtocolInv, OthersKeep
    <3>2. xpc[y] = "cleared" => \A e \in Exports : xref[y] \notin RowRefs(e)'
      BY <1>4, <3>1 DEF EraserSafe
    <3> QED
      BY <1>2, <3>1, <3>2, EraserGoesOn
  <2> QED
    BY <2>1, <2>2
<1>8. ScopesAreOwned'
  <2>1. \A e \in Exports : row[e] # "absent" => row'[e] # "absent"
    BY <1>2
  <2> QED
    BY <1>0, <1>2, <2>1, ScopesStay
<1> QED
  BY <1>5, <1>6, <1>7, <1>8 DEF ProtocolInv

\* Bytes go under the digest lock, so no registrar has proved them, and no row
\* references them since the re-check.
LEMMA BytesGo ==
  ASSUME ProtocolInv, TypeOK', RefsAgree, NEW x \in Executors, EraseBytes(x)
  PROVE  ProtocolInv'
<1> DEFINE d == DigestOf[xref[x]]
<1>0. TypeOK /\ EraserSafe(x) /\ ScopesAreOwned /\ NoRowReferencesMissingBlob
  BY DEF ProtocolInv
<1>1. /\ xpc[x] = "cleared" /\ xref[x] \in Refs /\ blobLock[d] = x
      /\ \A e \in Exports : xref[x] \notin RowRefs(e)
  BY <1>0 DEF EraseBytes, EraserSafe
<1>2. /\ store' = store \ {d} /\ row' = row /\ scope' = scope /\ wpc' = wpc
      /\ UNCHANGED lockVars /\ xreq' = xreq /\ xref' = xref
      /\ xpc'[x] = "erased" /\ \A y \in Executors \ {x} : xpc'[y] = xpc[y]
  BY ExecutorTypes DEF EraseBytes, rowVars
<1>3. \A e \in Exports : RowRefs(e)' = RowRefs(e) /\ RowRefs(e) \subseteq Refs
  BY <1>2, SameRow DEF RowRefs
<1>4. NoRowReferencesMissingBlob'
  BY <1>0, <1>1, <1>2, <1>3 DEF NoRowReferencesMissingBlob, RefsAgree
<1>5. \A q \in Exports \cup Executors : KeepsLocks(q)
  BY <1>2 DEF KeepsLocks, lockVars
<1>6. ASSUME NEW e \in Exports PROVE RegistrarSafe(e)'
  <2>1. RegistrarSafe(e) /\ e # x
    BY ProtocolConstants DEF ProtocolInv
  <2>2. wpc[e] = "proved" => \A f \in Wanted(e) : DigestOf[f] \in store'
    BY <1>1, <1>2, <2>1 DEF RegistrarSafe
  <2> QED
    BY <1>2, <1>5, <2>1, <2>2, RegistrarGoesOn
<1>7. ASSUME NEW y \in Executors PROVE EraserSafe(y)'
  <2>1. CASE y = x
    BY <1>0, <1>1, <1>2, <2>1 DEF EraserSafe, lockVars
  <2>2. CASE y # x
    <3>1. EraserSafe(y) /\ xpc'[y] = xpc[y]
      BY <1>2, <2>2 DEF ProtocolInv
    <3>2. xpc[y] = "cleared" => \A e \in Exports : xref[y] \notin RowRefs(e)'
      BY <1>3, <3>1 DEF EraserSafe
    <3> QED
      BY <1>2, <1>5, <3>1, <3>2, EraserGoesOn
  <2> QED
    BY <2>1, <2>2
<1>8. ScopesAreOwned'
  BY <1>0, <1>2, ScopesStay
<1> QED
  BY <1>4, <1>6, <1>7, <1>8 DEF ProtocolInv

\* Every step preserves the invariant.
LEMMA ProtocolInvNext ==
  ASSUME RefsAgree, ~SessionLoss, ProtocolInv, [Next]_vars
  PROVE  ProtocolInv'
<1>0. TypeOK'
  BY TypeNext DEF ProtocolInv
<1>1. ASSUME NEW e \in Exports, RegistrarStep(e) PROVE ProtocolInv'
  BY <1>0, <1>1, RegistrarQuiet, RegistrarCommits DEF RegistrarStep
<1>2. ASSUME NEW e \in Exports, AbortRegistration(e) PROVE ProtocolInv'
  BY <1>0, <1>2, RegistrarAborts
<1>3. ASSUME NEW r \in Requests, PlanDeletion(r) PROVE ProtocolInv'
  BY <1>0, <1>3, PlanKeeps
<1>4. ASSUME NEW x \in Executors, NEW r \in Requests, StartExecution(x, r) PROVE ProtocolInv'
  BY <1>0, <1>4, StartExecutionKeeps
<1>5. ASSUME NEW x \in Executors, ExecutorStep(x) PROVE ProtocolInv'
  <2>1. ~EraseUnguarded(x)
    BY DEF ProtocolInv, EraserSafe, EraseUnguarded
  <2> QED
    BY <1>0, <1>5, <2>1, BeginRemoveRowsKeeps, RowsAlreadyRemovedKeeps, RemoveRowsRefusedKeeps,
       RecomputeBlobSharingKeeps, RowsGo, ListItemsKeeps, VisitItemKeeps, LockItemKeeps,
       KeepItemKeeps, ClearItemKeeps, BytesGo, CommitEraseKeeps, CompleteRequestKeeps
       DEF ExecutorStep
<1>6. ASSUME NEW x \in Executors, CrashExecutor(x) PROVE ProtocolInv'
  BY <1>0, <1>6, CrashExecutorKeeps
<1>7. ASSUME NEW x \in Executors, LoseSession(x) PROVE ProtocolInv'
  BY <1>7 DEF LoseSession
<1>8. CASE UNCHANGED vars
  <2>1. /\ store' = store /\ row' = row /\ scope' = scope
        /\ OthersKeep(NoOne)
    BY <1>8 DEF vars, OthersKeep, KeepsLocks
  <2>2. ScopesAreOwned'
    BY <2>1, ScopesStay DEF ProtocolInv
  <2>3. NoOne \notin Exports /\ NoOne \notin Executors
    BY ProtocolConstants
  <2> QED
    BY <1>0, <2>1, <2>2, <2>3, QuietStep
<1> QED
  BY <1>1, <1>2, <1>3, <1>4, <1>5, <1>6, <1>7, <1>8 DEF Next

\* blob_protocol.rs: "no committed row references a missing blob", for every
\* interleaving of registrars, erasers, crashes and retries.
THEOREM NoMissingBlob ==
  ASSUME RefsAgree, ~SessionLoss
  PROVE  Spec => []NoRowReferencesMissingBlob
<1>1. Init => ProtocolInv
  BY ProtocolInvInit
<1>2. ProtocolInv /\ [Next]_vars => ProtocolInv'
  BY ProtocolInvNext
<1>3. ProtocolInv => NoRowReferencesMissingBlob
  BY DEF ProtocolInv
<1> QED
  BY <1>1, <1>2, <1>3, PTL DEF Spec

-----------------------------------------------------------------------------
(***************************************************************************)
(* The condition and the inductive invariant.                              *)
(***************************************************************************)

\* The references an export ever has.
MayReference(e) == {RawRef[e]} \cup PartRefs[e]

\* Requests of different tenants are about different references.
DeletionsShareNothing ==
    \A r, q \in Requests : RequestTenant[r] # RequestTenant[q] =>
        \A e, o \in Exports : Owner[e] = RequestTenant[r] /\ Owner[o] = RequestTenant[q]
                                 => MayReference(e) \cap MayReference(o) = {}

\* A registrar past its locks holds them, and its rows are still there.
RegistrarHolds(e) ==
    /\ wpc[e] = "proved" => \A f \in Wanted(e) : blobLock[DigestOf[f]] = e
    /\ wpc[e] \in {"locking", "proved"} /\ row[e] # "absent"
          => tenantLock[Owner[e]] = e /\ row[e] \in {"raw", "imported"}

\* The executor's view of its request: its locks, the phase of the request,
\* what it decided about shared references, and a work list with every item
\* that is still to be erased.  What it erased is gone, or stored again by a
\* registration that has not committed.
ExecutorKnows(x) ==
    /\ xpc[x] # "idle" => xreq[x] \in Requests
    /\ xpc[x] \in {"tenant", "locked", "cleared", "unguarded", "erased"} => xref[x] \in Refs
    /\ xpc[x] \in {"locked", "cleared", "erased"} => blobLock[DigestOf[xref[x]]] = x
    /\ xpc[x] = "erased" => DigestOf[xref[x]] \notin store \ loose
    /\ xpc[x] \in {"removing", "decided"}
          => /\ tenantLock[RequestTenant[xreq[x]]] = x
             /\ status[xreq[x]] = "planned"
             /\ ~InventoryStale(xreq[x])
    /\ xpc[x] = "decided"
          => \A f \in xkeep[x] : items[xreq[x]][f] # "none" => Referenced(f, Live \ scope[xreq[x]])
    /\ xpc[x] = "rows" => status[xreq[x]] # "none"
    /\ xpc[x] \in {"listing", "visiting", "tenant", "locked", "cleared", "unguarded", "erased"}
          => status[xreq[x]] \in {"purging", "completed"}
    /\ xpc[x] \in {"visiting", "tenant", "locked", "cleared", "erased"}
          => \A f \in Refs : items[xreq[x]][f] = "erase" => f \in xtodo[x]

\* The durable items of a request: none before it is planned; every reference
\* of the inventory while its rows stand; none undecided afterwards.  They
\* name references of its own tenant.
RequestCovers(r) ==
    /\ status[r] = "none" => \A f \in Refs : items[r][f] = "none"
    /\ status[r] = "planned" => \A e \in scope[r] : \A f \in Refs :
          f = RawRef[e] \/ (e \in inventoried[r] /\ f \in PartRefs[e]) => items[r][f] = "listed"
    /\ status[r] \in {"purging", "completed"} => \A f \in Refs : items[r][f] # "listed"
    /\ \A f \in Refs : items[r][f] # "none"
          => \E e \in Exports : Owner[e] = RequestTenant[r] /\ f \in MayReference(e)

AccountInv ==
    /\ TypeOK
    /\ UnerasedBlobsAreAccounted
    /\ ScopesAreOwned
    /\ \A e \in Exports : RegistrarHolds(e)
    /\ \A x \in Executors : ExecutorKnows(x)
    /\ \A r \in Requests : RequestCovers(r)

\* Nothing is stored, listed or locked initially.
LEMMA AccountInvInit == Init => AccountInv
<1> SUFFICES ASSUME Init PROVE AccountInv
  OBVIOUS
<1>1. TypeOK
  BY TypeInit
<1>2. UnerasedBlobsAreAccounted
  BY DEF Init, UnerasedBlobsAreAccounted
<1>3. ASSUME NEW e \in Exports PROVE RegistrarHolds(e)
  BY DEF Init, RegistrarHolds
<1>4. ASSUME NEW x \in Executors PROVE ExecutorKnows(x)
  BY DEF Init, ExecutorKnows
<1>5. ASSUME NEW r \in Requests PROVE RequestCovers(r)
  BY DEF Init, RequestCovers
<1>6. ScopesAreOwned
  BY DEF Init, ScopesAreOwned
<1> QED
  BY <1>1, <1>2, <1>3, <1>4, <1>5, <1>6 DEF AccountInv

-----------------------------------------------------------------------------
(***************************************************************************)
(* What a step of one process leaves to the others.                        *)
(***************************************************************************)

\* A step of p: every other process keeps its place, its knowledge and its
\* locks.
OthersGoOn(p) ==
    /\ OthersKeep(p)
    /\ \A y \in Executors \ {p} : xkeep'[y] = xkeep[y] /\ xtodo'[y] = xtodo[y]

\* A registrar that is left alone keeps what it holds.
LEMMA RegistrarHoldsOn ==
  ASSUME NEW o \in Exports, RegistrarHolds(o), row'[o] = row[o], wpc'[o] = wpc[o], KeepsLocks(o)
  PROVE  RegistrarHolds(o)'
<1>1. Wanted(o)' = Wanted(o)
  BY SameRow
<1>2. \A f \in Wanted(o) : DigestOf[f] \in Digests
  BY WantedTyped, ProtocolConstants
<1>3. Owner[o] \in Tenants
  BY ProtocolConstants
<1> QED
  BY <1>1, <1>2, <1>3 DEF RegistrarHolds, KeepsLocks

\* What an executor that is left alone needs of the step of another process:
\* the bytes it erased stay away, its plan stands while it removes rows, its
\* decision about shared references stays true, the request does not go back
\* and no item is to be erased again.
LeavesAlone(y) ==
    /\ xpc[y] = "erased" => DigestOf[xref[y]] \notin store' \ loose'
    /\ xpc[y] \in {"removing", "decided"} => status'[xreq[y]] = "planned" /\ ~InventoryStale(xreq[y])'
    /\ xpc[y] = "decided"
          => \A f \in xkeep[y] : items'[xreq[y]][f] # "none"
                                    => Referenced(f, Live \ scope[xreq[y]])'
    /\ xpc[y] # "idle" /\ status[xreq[y]] # "none" => status'[xreq[y]] # "none"
    /\ xpc[y] # "idle" /\ status[xreq[y]] \in {"purging", "completed"}
          => /\ status'[xreq[y]] \in {"purging", "completed"}
             /\ \A f \in Refs : items'[xreq[y]][f] = "erase" => items[xreq[y]][f] = "erase"

\* An executor that is left alone keeps what it knows.
LEMMA ExecutorKnowsOn ==
  ASSUME NEW y \in Executors, ExecutorKnows(y), KeepsLocks(y), LeavesAlone(y),
         xpc'[y] = xpc[y], xreq'[y] = xreq[y], xref'[y] = xref[y],
         xkeep'[y] = xkeep[y], xtodo'[y] = xtodo[y]
  PROVE  ExecutorKnows(y)'
<1>1. xref[y] \in Refs => DigestOf[xref[y]] \in Digests
  BY ProtocolConstants
<1>2. xreq[y] \in Requests => RequestTenant[xreq[y]] \in Tenants
  BY ProtocolConstants
<1>3. xpc[y] \in {"removing", "decided"} => ~InventoryStale(xreq[y])'
  BY DEF LeavesAlone
<1>4. xpc[y] = "decided"
        => \A f \in xkeep[y] : items'[xreq[y]][f] # "none"
              => Referenced(f, Live \ scope[xreq[y]])'
  BY DEF LeavesAlone
<1>5. /\ xpc[y] # "idle" => xreq[y] \in Requests
      /\ xpc[y] \in {"tenant", "locked", "cleared", "unguarded", "erased"} => xref[y] \in Refs
      /\ xpc[y] \in {"locked", "cleared", "erased"} => blobLock'[DigestOf[xref[y]]] = y
      /\ xpc[y] = "erased" => DigestOf[xref[y]] \notin store' \ loose'
  BY <1>1 DEF ExecutorKnows, KeepsLocks, LeavesAlone
<1>6. xpc[y] \in {"removing", "decided"}
        => tenantLock'[RequestTenant[xreq[y]]] = y /\ status'[xreq[y]] = "planned"
  BY <1>2 DEF ExecutorKnows, KeepsLocks, LeavesAlone
<1>7. /\ xpc[y] = "rows" => status'[xreq[y]] # "none"
      /\ xpc[y] \in {"listing", "visiting", "tenant", "locked", "cleared", "unguarded", "erased"}
           => status'[xreq[y]] \in {"purging", "completed"}
  BY DEF ExecutorKnows, LeavesAlone
<1>8. xpc[y] \in {"visiting", "tenant", "locked", "cleared", "erased"}
        => \A f \in Refs : items'[xreq[y]][f] = "erase" => f \in xtodo[y]
  BY DEF ExecutorKnows, LeavesAlone
<1> QED
  BY <1>3, <1>4, <1>5, <1>6, <1>7, <1>8 DEF ExecutorKnows

\* References that an export outside the scope has keep it shared.
LEMMA SharedStays ==
  ASSUME NEW y \in Executors, NEW f, xreq'[y] = xreq[y], scope'[xreq[y]] = scope[xreq[y]],
         Referenced(f, Live \ scope[xreq[y]]),
         \A e \in Exports \ scope[xreq[y]] : f \in RowRefs(e) => f \in RowRefs(e)'
  PROVE  Referenced(f, Live \ scope[xreq[y]])'
<1>1. PICK e \in Live \ scope[xreq[y]] : f \in RowRefs(e)
  BY DEF Referenced
<1>2. e \in Exports /\ f \in RowRefs(e)'
  BY <1>1 DEF Live
<1>3. e \in Live'
  BY <1>2 DEF RowRefs, Live
<1> QED
  BY <1>1, <1>2, <1>3 DEF Referenced

\* An inventory stays complete while no export of its scope is imported.
LEMMA InventoryStays ==
  ASSUME NEW y \in Executors, xreq'[y] = xreq[y], ~InventoryStale(xreq[y]),
         scope'[xreq[y]] = scope[xreq[y]], inventoried'[xreq[y]] = inventoried[xreq[y]],
         \A e \in scope[xreq[y]] : row'[e] = "imported" => row[e] = "imported"
  PROVE  ~InventoryStale(xreq[y])'
BY DEF InventoryStale

\* Bytes stay accounted for while rows and open items stay.
LEMMA AccountStays ==
  ASSUME UnerasedBlobsAreAccounted, store' \ loose' \subseteq store \ loose,
         \A e \in Exports : RowRefs(e) \subseteq RowRefs(e)',
         \A r \in Requests, f \in Refs :
            items[r][f] \in {"listed", "erase"} => items'[r][f] \in {"listed", "erase"}
  PROVE  UnerasedBlobsAreAccounted'
<1>1. ASSUME NEW d \in store' \ loose'
      PROVE  \/ \E e \in Live' : \E f \in RowRefs(e)' : DigestOf[f] = d
             \/ \E r \in Requests : \E f \in Refs :
                   DigestOf[f] = d /\ items'[r][f] \in {"listed", "erase"}
  <2>1. d \in store \ loose
    OBVIOUS
  <2>2. CASE \E e \in Live : \E f \in RowRefs(e) : DigestOf[f] = d
    <3>1. PICK e \in Live : \E f \in RowRefs(e) : DigestOf[f] = d
      BY <2>2
    <3>2. PICK f \in RowRefs(e) : DigestOf[f] = d
      BY <3>1
    <3>3. e \in Exports /\ f \in RowRefs(e)'
      BY <3>1, <3>2 DEF Live
    <3>4. e \in Live'
      BY <3>3 DEF RowRefs, Live
    <3> QED
      BY <3>2, <3>3, <3>4
  <2>3. CASE \E r \in Requests : \E f \in Refs :
                DigestOf[f] = d /\ items[r][f] \in {"listed", "erase"}
    BY <2>3
  <2> QED
    BY <2>1, <2>2, <2>3 DEF UnerasedBlobsAreAccounted
<1> QED
  BY <1>1 DEF UnerasedBlobsAreAccounted

\* An executor other than the one that moves is left alone by a step that
\* changes no row and no request.
LEMMA CalmForOthers ==
  ASSUME NEW y \in Executors, ExecutorKnows(y), UNCHANGED rowVars, xreq'[y] = xreq[y],
         store' \ loose' \subseteq store \ loose
  PROVE  LeavesAlone(y)
<1>1. /\ row' = row /\ status' = status /\ scope' = scope
      /\ inventoried' = inventoried /\ items' = items
  BY DEF rowVars
<1>2. xpc[y] \in {"removing", "decided"} => ~InventoryStale(xreq[y])'
  BY <1>1, InventoryStays DEF ExecutorKnows
<1>3. ASSUME xpc[y] = "decided", NEW f \in xkeep[y], items[xreq[y]][f] # "none"
      PROVE  Referenced(f, Live \ scope[xreq[y]])'
  <2>1. Referenced(f, Live \ scope[xreq[y]])
    BY <1>3 DEF ExecutorKnows
  <2>2. \A e \in Exports : RowRefs(e)' = RowRefs(e)
    BY <1>1, SameRow
  <2> QED
    BY <1>1, <2>1, <2>2, SharedStays
<1> QED
  BY <1>1, <1>2, <1>3 DEF LeavesAlone, ExecutorKnows

\* A step of p that changes no row and no request leaves the invariant to what
\* it does to p itself.
LEMMA CalmStep ==
  ASSUME AccountInv, TypeOK', NEW p, UNCHANGED rowVars, OthersGoOn(p),
         store' \ loose' \subseteq store \ loose,
         p \in Exports => RegistrarHolds(p)', p \in Executors => ExecutorKnows(p)'
  PROVE  AccountInv'
<1>1. /\ row' = row /\ status' = status /\ scope' = scope
      /\ inventoried' = inventoried /\ items' = items
  BY DEF rowVars
<1>2. UnerasedBlobsAreAccounted'
  <2>1. \A e \in Exports : RowRefs(e)' = RowRefs(e)
    BY <1>1, SameRow
  <2> QED
    BY <1>1, <2>1, AccountStays DEF AccountInv
<1>3. ASSUME NEW o \in Exports PROVE RegistrarHolds(o)'
  <2>1. CASE o # p
    BY <1>1, <2>1, RegistrarHoldsOn DEF AccountInv, OthersGoOn, OthersKeep
  <2> QED
    BY <2>1
<1>4. ASSUME NEW y \in Executors PROVE ExecutorKnows(y)'
  <2>1. CASE y # p
    <3>1. /\ ExecutorKnows(y) /\ KeepsLocks(y)
          /\ xpc'[y] = xpc[y] /\ xreq'[y] = xreq[y] /\ xref'[y] = xref[y]
          /\ xkeep'[y] = xkeep[y] /\ xtodo'[y] = xtodo[y]
      BY <2>1 DEF AccountInv, OthersGoOn, OthersKeep
    <3>2. LeavesAlone(y)
      BY <3>1, CalmForOthers
    <3> QED
      BY <3>1, <3>2, ExecutorKnowsOn
  <2> QED
    BY <2>1
<1>5. ASSUME NEW r \in Requests PROVE RequestCovers(r)'
  <2>1. RequestCovers(r)
    BY DEF AccountInv
  <2> QED
    BY <1>1, <2>1 DEF RequestCovers
<1>6. ScopesAreOwned'
  BY <1>1 DEF ScopesAreOwned, AccountInv
<1> QED
  BY <1>2, <1>3, <1>4, <1>5, <1>6 DEF AccountInv

-----------------------------------------------------------------------------
(***************************************************************************)
(* The steps of a registrar.                                               *)
(***************************************************************************)

\* Before its commit a registrar only adds bytes of its own.
LEMMA RegistrarIsCalm ==
  ASSUME AccountInv, TypeOK', NEW e \in Exports,
         \/ StoreBytes(e) \/ BeginPublish(e) \/ BeginImport(e) \/ ImportRowsGone(e)
         \/ LockDigest(e) \/ ProveBlobs(e)
  PROVE  AccountInv'
<1>0. TypeOK /\ RegistrarHolds(e)
  BY DEF AccountInv
<1>1. UNCHANGED rowVars /\ row' = row /\ UNCHANGED execVars
  BY DEF StoreBytes, BeginPublish, BeginImport, ImportRowsGone, LockDigest, ProveBlobs, rowVars
<1>2. store' \ loose' \subseteq store \ loose
  BY DEF StoreBytes, BeginPublish, BeginImport, ImportRowsGone, LockDigest, ProveBlobs
<1>3. OthersGoOn(e)
  <2>1. \A o \in Exports \ {e} : wpc'[o] = wpc[o]
    BY <1>0, SMT
       DEF StoreBytes, BeginPublish, BeginImport, ImportRowsGone, LockDigest, ProveBlobs, TypeOK
  <2>2. \A d \in Digests : blobLock'[d] = blobLock[d] \/ blobLock[d] = NoOne
    BY <1>0, SMT DEF StoreBytes, BeginPublish, BeginImport, ImportRowsGone, LockDigest, ProveBlobs,
       TypeOK, lockVars
  <2>3. \A t \in Tenants : tenantLock'[t] = tenantLock[t] \/ tenantLock[t] = NoOne
    BY <1>0, SMT DEF StoreBytes, BeginPublish, BeginImport, ImportRowsGone, LockDigest, ProveBlobs,
       TypeOK, lockVars
  <2>4. OthersKeep(e)
    BY <1>0, <1>1, <2>1, <2>2, <2>3, RegistrarKeepsOthers
  <2> QED
    BY <1>1, <2>4 DEF OthersGoOn, execVars
<1>4. RegistrarHolds(e)'
  <2>1. CASE StoreBytes(e) \/ BeginPublish(e) \/ ImportRowsGone(e)
    <3>1. wpc'[e] \in {"idle", "stored"} \/ (wpc'[e] = "locking" /\ row[e] = "absent")
      BY <1>0, <2>1 DEF StoreBytes, BeginPublish, ImportRowsGone, TypeOK
    <3> QED
      BY <1>1, <3>1 DEF RegistrarHolds
  <2>2. CASE BeginImport(e)
    <3>1. wpc'[e] = "locking" /\ tenantLock'[Owner[e]] = e /\ row[e] \in {"raw", "imported"}
      BY <1>0, <2>2, ProtocolConstants DEF BeginImport, TypeOK
    <3> QED
      BY <1>1, <3>1 DEF RegistrarHolds
  <2>3. CASE LockDigest(e)
    <3>1. wpc' = wpc /\ tenantLock' = tenantLock /\ wpc[e] = "locking"
      BY <2>3 DEF LockDigest
    <3> QED
      BY <1>0, <1>1, <3>1 DEF RegistrarHolds
  <2>4. CASE ProveBlobs(e)
    <3>1. /\ wpc[e] = "locking" /\ blobLock' = blobLock /\ tenantLock' = tenantLock
          /\ \A f \in Wanted(e) : blobLock[DigestOf[f]] = e
      BY <2>4 DEF ProveBlobs, WantedDigests, HeldBy, lockVars
    <3>2. Wanted(e)' = Wanted(e)
      BY <1>1, SameRow
    <3> QED
      BY <1>0, <1>1, <3>1, <3>2 DEF RegistrarHolds
  <2> QED
    BY <2>1, <2>2, <2>3, <2>4
<1>5. e \notin Executors
  BY ProtocolConstants
<1> QED
  BY <1>1, <1>2, <1>3, <1>4, <1>5, CalmStep

\* A rollback leaves the bytes behind, loose as they were.
LEMMA RollbackIsCalm ==
  ASSUME AccountInv, TypeOK', NEW e \in Exports, AbortRegistration(e)
  PROVE  AccountInv'
<1>1. /\ store' = store /\ loose' = loose /\ UNCHANGED rowVars /\ ReleaseAll(e)
      /\ UNCHANGED execVars /\ wpc'[e] = "idle" /\ \A o \in Exports \ {e} : wpc'[o] = wpc[o]
  BY DEF AbortRegistration, AccountInv, TypeOK
<1>2. OthersGoOn(e)
  <2>1. OthersKeep(e)
    BY <1>1, ReleaseKeepsOthers, ProtocolConstants DEF OthersKeep, execVars
  <2> QED
    BY <1>1, <2>1 DEF OthersGoOn, execVars
<1>3. RegistrarHolds(e)'
  BY <1>1 DEF RegistrarHolds
<1>4. e \notin Executors
  BY ProtocolConstants
<1> QED
  BY <1>1, <1>2, <1>3, <1>4, CalmStep

\* The commit: what leaves the loose bytes is referenced by the new rows.  An
\* executor that erased bytes holds their digest lock, so they are not among
\* them; one that removes rows holds the tenant lock, so none of the rows it
\* decided about changes.
LEMMA CommitAccounts ==
  ASSUME AccountInv, TypeOK', NEW e \in Exports, CommitRows(e)
  PROVE  AccountInv'
<1>0. TypeOK /\ RegistrarHolds(e) /\ ScopesAreOwned /\ UnerasedBlobsAreAccounted
  BY DEF AccountInv
<1>1. /\ store' = store /\ loose' = loose \ WantedDigests(e)
      /\ status' = status /\ scope' = scope /\ inventoried' = inventoried /\ items' = items
      /\ ReleaseAll(e) /\ UNCHANGED execVars
      /\ wpc[e] = "proved" /\ wpc'[e] = "idle"
      /\ row'[e] = IF row[e] = "absent" THEN "raw" ELSE "imported"
      /\ \A o \in Exports \ {e} : wpc'[o] = wpc[o] /\ row'[o] = row[o]
  BY <1>0 DEF CommitRows, TypeOK
<1>2. /\ \A f \in Wanted(e) : blobLock[DigestOf[f]] = e
      /\ row[e] # "absent" => tenantLock[Owner[e]] = e /\ row[e] \in {"raw", "imported"}
  BY <1>0, <1>1 DEF RegistrarHolds
<1>3. RowRefs(e) \subseteq RowRefs(e)' /\ Wanted(e) \subseteq RowRefs(e)'
  <2>1. Wanted(e) \subseteq Refs /\ RawRef[e] \in Refs
    BY WantedTyped, ProtocolConstants
  <2> QED
    BY <1>1, <1>2, <2>1 DEF RowRefs, Wanted
<1>4. \A o \in Exports : RowRefs(o) \subseteq RowRefs(o)'
  BY <1>1, <1>3, SameRow
<1>5. UnerasedBlobsAreAccounted'
  <2>1. ASSUME NEW d \in store' \ loose'
        PROVE  \/ \E o \in Live' : \E f \in RowRefs(o)' : DigestOf[f] = d
               \/ \E r \in Requests : \E f \in Refs :
                     DigestOf[f] = d /\ items'[r][f] \in {"listed", "erase"}
    <3>1. CASE d \in WantedDigests(e)
      <4>1. PICK f \in Wanted(e) : DigestOf[f] = d
        BY <3>1 DEF WantedDigests
      <4>2. e \in Live' /\ f \in RowRefs(e)'
        BY <1>1, <1>3 DEF Live
      <4> QED
        BY <4>1, <4>2
    <3>2. CASE d \notin WantedDigests(e)
      <4>1. d \in store \ loose
        BY <1>1, <3>2
      <4>2. CASE \E o \in Live : \E f \in RowRefs(o) : DigestOf[f] = d
        <5>1. PICK o \in Live, f \in Refs : f \in RowRefs(o) /\ DigestOf[f] = d
          BY <4>2 DEF RowRefs
        <5>2. o \in Exports /\ f \in RowRefs(o)'
          BY <1>4, <5>1 DEF Live
        <5>3. o \in Live'
          BY <5>2 DEF RowRefs, Live
        <5> QED
          BY <5>1, <5>2, <5>3
      <4> QED
        BY <1>0, <1>1, <4>1, <4>2 DEF UnerasedBlobsAreAccounted
    <3> QED
      BY <3>1, <3>2
  <2> QED
    BY <2>1 DEF UnerasedBlobsAreAccounted
<1>6. ASSUME NEW o \in Exports PROVE RegistrarHolds(o)'
  <2>1. CASE o = e
    BY <1>1, <2>1 DEF RegistrarHolds
  <2>2. CASE o # e
    <3>1. RegistrarHolds(o) /\ KeepsLocks(o)
      BY <1>1, <2>2, ReleaseKeepsOthers DEF AccountInv
    <3> QED
      BY <1>1, <2>2, <3>1, RegistrarHoldsOn
  <2> QED
    BY <2>1, <2>2
<1>7. ASSUME NEW y \in Executors PROVE ExecutorKnows(y)'
  <2>1. y # e
    BY ProtocolConstants
  <2>2. ExecutorKnows(y) /\ KeepsLocks(y)
    BY <1>1, <2>1, ReleaseKeepsOthers DEF AccountInv
  <2>3. /\ xpc'[y] = xpc[y] /\ xreq'[y] = xreq[y] /\ xref'[y] = xref[y]
        /\ xkeep'[y] = xkeep[y] /\ xtodo'[y] = xtodo[y]
    BY <1>1 DEF execVars
  <2>4. xpc[y] = "erased" => DigestOf[xref[y]] \notin store' \ loose'
    <3>1. xpc[y] = "erased" => DigestOf[xref[y]] \notin WantedDigests(e)
      BY <1>2, <2>1, <2>2 DEF ExecutorKnows, WantedDigests
    <3> QED
      BY <1>1, <2>2, <3>1 DEF ExecutorKnows
  <2>5. xpc[y] \in {"removing", "decided"} => ~InventoryStale(xreq[y])'
    <3>1. SUFFICES ASSUME xpc[y] \in {"removing", "decided"}
                   PROVE  ~InventoryStale(xreq[y])'
      OBVIOUS
    <3>2. /\ xreq[y] \in Requests /\ tenantLock[RequestTenant[xreq[y]]] = y
          /\ ~InventoryStale(xreq[y])
      BY <2>2, <3>1 DEF ExecutorKnows
    <3>3. e \notin scope[xreq[y]]
      BY <1>0, <1>2, <2>1, <3>2 DEF ScopesAreOwned
    <3>4. scope[xreq[y]] \subseteq Exports
      BY <1>0, <3>2 DEF TypeOK
    <3>5. \A o \in scope[xreq[y]] : row'[o] = row[o]
      BY <1>1, <3>3, <3>4
    <3> QED
      BY <1>1, <2>3, <3>2, <3>5, InventoryStays
  <2>6. ASSUME xpc[y] = "decided", NEW f \in xkeep[y], items[xreq[y]][f] # "none"
        PROVE  Referenced(f, Live \ scope[xreq[y]])'
    <3>1. Referenced(f, Live \ scope[xreq[y]])
      BY <2>2, <2>6 DEF ExecutorKnows
    <3> QED
      BY <1>1, <1>4, <2>3, <3>1, SharedStays
  <2>7. LeavesAlone(y)
    BY <1>1, <2>2, <2>4, <2>5, <2>6 DEF LeavesAlone, ExecutorKnows
  <2> QED
    BY <2>2, <2>3, <2>7, ExecutorKnowsOn
<1>8. ASSUME NEW r \in Requests PROVE RequestCovers(r)'
  <2>1. RequestCovers(r)
    BY DEF AccountInv
  <2> QED
    BY <1>1, <2>1 DEF RequestCovers
<1>9. ScopesAreOwned'
  <2>1. \A o \in Exports : row[o] # "absent" => row'[o] # "absent"
    BY <1>1
  <2> QED
    BY <1>0, <1>1, <2>1, ScopesStay
<1> QED
  BY <1>5, <1>6, <1>7, <1>8, <1>9 DEF AccountInv

-----------------------------------------------------------------------------
(***************************************************************************)
(* The steps of a deletion that change no row and no request.              *)
(***************************************************************************)

\* A step of executor x leaves everything about the other executors alone.
OnlyMoves(x) ==
    /\ OnlyExecutor(x)
    /\ \A y \in Executors \ {x} : xkeep'[y] = xkeep[y] /\ xtodo'[y] = xtodo[y]

\* The locks after a step of x: its transaction ended, or it took free ones.
LocksMove(x) ==
    \/ ReleaseAll(x)
    \/ /\ \A d \in Digests : blobLock'[d] = blobLock[d] \/ blobLock[d] = NoOne
       /\ \A t \in Tenants : tenantLock'[t] = tenantLock[t] \/ tenantLock[t] = NoOne

\* Such a step disturbs nobody.
LEMMA ExecutorLetsGoOn ==
  ASSUME NEW x \in Executors, OnlyMoves(x), LocksMove(x)
  PROVE  OthersGoOn(x)
<1>1. OthersKeep(x)
  BY ExecutorKeepsOthers DEF OnlyMoves, LocksMove
<1> QED
  BY <1>1 DEF OthersGoOn, OnlyMoves

\* It leaves the invariant to what it does to x itself.
LEMMA CalmExecutor ==
  ASSUME AccountInv, TypeOK', NEW x \in Executors, UNCHANGED rowVars, OnlyMoves(x), LocksMove(x),
         store' \ loose' \subseteq store \ loose, ExecutorKnows(x)'
  PROVE  AccountInv'
<1>1. OthersGoOn(x)
  BY ExecutorLetsGoOn
<1>2. x \notin Exports
  BY ProtocolConstants
<1> QED
  BY <1>1, <1>2, CalmStep

\* An execution that is over knows nothing.
LEMMA IdleKnows ==
  ASSUME NEW x \in Executors, xpc'[x] = "idle"
  PROVE  ExecutorKnows(x)'
BY DEF ExecutorKnows

\* Only x forgets.
LEMMA ForgetMoves ==
  ASSUME AccountInv, NEW x \in Executors, Forget(x), wpc' = wpc
  PROVE  OnlyMoves(x) /\ xpc'[x] = "idle"
BY DEF Forget, OnlyMoves, OnlyExecutor, AccountInv, TypeOK

\* The status read at the start chooses the phase.
LEMMA StartKnows ==
  ASSUME AccountInv, TypeOK', NEW x \in Executors, NEW r \in Requests, StartExecution(x, r)
  PROVE  AccountInv'
<1>1. /\ UNCHANGED rowVars /\ status' = status /\ store' = store /\ loose' = loose
      /\ UNCHANGED lockVars
      /\ OnlyMoves(x) /\ xreq'[x] = r /\ status[r] \in {"planned", "purging"}
      /\ xpc'[x] = IF status[r] = "planned" THEN "rows" ELSE "listing"
  BY DEF StartExecution, OnlyMoves, OnlyExecutor, rowVars, AccountInv, TypeOK
<1>2. LocksMove(x)
  BY <1>1 DEF LocksMove, lockVars
<1>3. ExecutorKnows(x)'
  BY <1>1 DEF ExecutorKnows
<1> QED
  BY <1>1, <1>2, <1>3, CalmExecutor

\* The plan stands when the tenant lock is taken.
LEMMA BeginRemoveRowsKnows ==
  ASSUME AccountInv, TypeOK', NEW x \in Executors, BeginRemoveRows(x)
  PROVE  AccountInv'
<1>0. ExecutorKnows(x)
  BY DEF AccountInv
<1>1. /\ UNCHANGED rowVars /\ store' = store /\ loose' = loose /\ blobLock' = blobLock
      /\ row' = row /\ status' = status /\ scope' = scope /\ inventoried' = inventoried
      /\ OnlyMoves(x) /\ xreq' = xreq /\ xpc[x] = "rows" /\ xpc'[x] = "removing"
      /\ status[xreq[x]] = "planned" /\ ~InventoryStale(xreq[x])
      /\ tenantLock[RequestTenant[xreq[x]]] = NoOne
      /\ tenantLock' = [tenantLock EXCEPT ![RequestTenant[xreq[x]]] = x]
  BY DEF BeginRemoveRows, OnlyMoves, OnlyExecutor, rowVars, AccountInv, TypeOK
<1>2. xreq[x] \in Requests /\ RequestTenant[xreq[x]] \in Tenants
  BY <1>0, <1>1, ProtocolConstants DEF ExecutorKnows
<1>3. /\ tenantLock'[RequestTenant[xreq[x]]] = x
      /\ \A t \in Tenants : tenantLock'[t] = tenantLock[t] \/ tenantLock[t] = NoOne
  BY <1>1, <1>2 DEF AccountInv, TypeOK
<1>4. LocksMove(x)
  BY <1>1, <1>3 DEF LocksMove
<1>5. ~InventoryStale(xreq[x])'
  BY <1>1, InventoryStays
<1>6. ExecutorKnows(x)'
  BY <1>1, <1>2, <1>3, <1>5 DEF ExecutorKnows
<1> QED
  BY <1>1, <1>4, <1>6, CalmExecutor

\* Rows that are no longer planned are removed already.
LEMMA RowsAlreadyRemovedKnows ==
  ASSUME AccountInv, TypeOK', NEW x \in Executors, RowsAlreadyRemoved(x)
  PROVE  AccountInv'
<1>0. ExecutorKnows(x)
  BY DEF AccountInv
<1>1. /\ UNCHANGED rowVars /\ status' = status /\ store' = store /\ loose' = loose
      /\ UNCHANGED lockVars /\ OnlyMoves(x) /\ xreq' = xreq
      /\ xpc[x] = "rows" /\ xpc'[x] = "listing" /\ status[xreq[x]] # "planned"
  BY DEF RowsAlreadyRemoved, OnlyMoves, OnlyExecutor, rowVars, AccountInv, TypeOK
<1>2. xreq[x] \in Requests /\ status[xreq[x]] \in {"purging", "completed"}
  <2>1. xreq[x] \in Requests /\ status[xreq[x]] # "none"
    BY <1>0, <1>1 DEF ExecutorKnows
  <2>2. status[xreq[x]] \in {"none", "planned", "purging", "completed"}
    BY <2>1 DEF AccountInv, TypeOK
  <2> QED
    BY <1>1, <2>1, <2>2
<1>3. LocksMove(x)
  BY <1>1 DEF LocksMove, lockVars
<1>4. ExecutorKnows(x)'
  BY <1>1, <1>2 DEF ExecutorKnows
<1> QED
  BY <1>1, <1>3, <1>4, CalmExecutor

\* A refused deletion ends the execution.
LEMMA RemoveRowsRefusedKnows ==
  ASSUME AccountInv, TypeOK', NEW x \in Executors, RemoveRowsRefused(x)
  PROVE  AccountInv'
<1>1. UNCHANGED rowVars /\ store' = store /\ loose' = loose /\ UNCHANGED lockVars
  BY DEF RemoveRowsRefused
<1>2. OnlyMoves(x) /\ xpc'[x] = "idle"
  BY ForgetMoves DEF RemoveRowsRefused
<1>3. LocksMove(x)
  BY <1>1 DEF LocksMove, lockVars
<1> QED
  BY <1>1, <1>2, <1>3, IdleKnows, CalmExecutor

\* What is found shared is referenced outside the scope.
LEMMA RecomputeBlobSharingKnows ==
  ASSUME AccountInv, TypeOK', NEW x \in Executors, RecomputeBlobSharing(x)
  PROVE  AccountInv'
<1>0. ExecutorKnows(x)
  BY DEF AccountInv
<1>1. /\ UNCHANGED rowVars /\ store' = store /\ loose' = loose /\ UNCHANGED lockVars
      /\ row' = row /\ status' = status /\ scope' = scope /\ inventoried' = inventoried
      /\ tenantLock' = tenantLock
      /\ OnlyMoves(x) /\ xreq' = xreq /\ xpc[x] = "removing" /\ xpc'[x] = "decided"
      /\ xkeep'[x] = {f \in Refs : Referenced(f, Live \ scope[xreq[x]])}
  BY DEF RecomputeBlobSharing, OnlyMoves, OnlyExecutor, rowVars, lockVars, AccountInv, TypeOK
<1>2. LocksMove(x)
  BY <1>1 DEF LocksMove, lockVars
<1>3. ~InventoryStale(xreq[x])'
  BY <1>0, <1>1, InventoryStays DEF ExecutorKnows
<1>4. ASSUME NEW f \in xkeep'[x] PROVE Referenced(f, Live \ scope[xreq[x]])'
  <2>1. Referenced(f, Live \ scope[xreq[x]])
    BY <1>1, <1>4
  <2>2. \A e \in Exports : RowRefs(e)' = RowRefs(e)
    BY <1>1, SameRow
  <2> QED
    BY <1>1, <2>1, <2>2, SharedStays
<1>5. ExecutorKnows(x)'
  BY <1>0, <1>1, <1>3, <1>4 DEF ExecutorKnows
<1> QED
  BY <1>1, <1>2, <1>5, CalmExecutor

\* The work list holds every item that is still to be erased.
LEMMA ListItemsKnows ==
  ASSUME AccountInv, TypeOK', NEW x \in Executors, ListItems(x)
  PROVE  AccountInv'
<1>0. ExecutorKnows(x)
  BY DEF AccountInv
<1>1. /\ UNCHANGED rowVars /\ store' = store /\ loose' = loose /\ UNCHANGED lockVars
      /\ status' = status /\ items' = items
      /\ OnlyMoves(x) /\ xreq' = xreq /\ xpc[x] = "listing" /\ xpc'[x] = "visiting"
      /\ xtodo'[x] = {f \in Refs : items[xreq[x]][f] = "erase"}
  BY DEF ListItems, OnlyMoves, OnlyExecutor, rowVars, AccountInv, TypeOK
<1>2. LocksMove(x)
  BY <1>1 DEF LocksMove, lockVars
<1>3. ExecutorKnows(x)'
  BY <1>0, <1>1 DEF ExecutorKnows
<1> QED
  BY <1>1, <1>2, <1>3, CalmExecutor

\* A visit takes an item of the work list.
LEMMA VisitItemKnows ==
  ASSUME AccountInv, TypeOK', NEW x \in Executors, VisitItem(x)
  PROVE  AccountInv'
<1>0. ExecutorKnows(x)
  BY DEF AccountInv
<1>1. /\ UNCHANGED rowVars /\ store' = store /\ loose' = loose /\ blobLock' = blobLock
      /\ status' = status /\ items' = items /\ xreq' = xreq /\ xtodo' = xtodo
      /\ xpc[x] = "visiting" /\ xpc'[x] = "tenant"
      /\ tenantLock[RequestTenant[xreq[x]]] = NoOne
      /\ tenantLock' = [tenantLock EXCEPT ![RequestTenant[xreq[x]]] = x]
  BY DEF VisitItem, rowVars, AccountInv, TypeOK
<1>2. PICK f \in xtodo[x] : xref' = [xref EXCEPT ![x] = f]
  BY DEF VisitItem
<1>3. f \in Refs /\ xref'[x] = f
  BY <1>2 DEF AccountInv, TypeOK
<1>4. OnlyMoves(x)
  BY <1>2 DEF VisitItem, OnlyMoves, OnlyExecutor, AccountInv, TypeOK
<1>5. \A t \in Tenants : tenantLock'[t] = tenantLock[t] \/ tenantLock[t] = NoOne
  BY <1>1 DEF AccountInv, TypeOK
<1>6. LocksMove(x)
  BY <1>1, <1>5 DEF LocksMove
<1>7. ExecutorKnows(x)'
  BY <1>0, <1>1, <1>3 DEF ExecutorKnows
<1> QED
  BY <1>1, <1>4, <1>6, <1>7, CalmExecutor

\* The digest lock is taken when it is free.
LEMMA LockItemKnows ==
  ASSUME AccountInv, TypeOK', NEW x \in Executors, LockItem(x)
  PROVE  AccountInv'
<1>0. ExecutorKnows(x)
  BY DEF AccountInv
<1>1. /\ UNCHANGED rowVars /\ store' = store /\ loose' = loose /\ tenantLock' = tenantLock
      /\ status' = status /\ items' = items /\ xreq' = xreq /\ xtodo' = xtodo /\ xref' = xref
      /\ OnlyMoves(x) /\ xpc[x] = "tenant" /\ xpc'[x] = "locked"
      /\ blobLock[DigestOf[xref[x]]] = NoOne
      /\ blobLock' = [blobLock EXCEPT ![DigestOf[xref[x]]] = x]
  BY DEF LockItem, OnlyMoves, OnlyExecutor, rowVars, AccountInv, TypeOK
<1>2. xref[x] \in Refs /\ DigestOf[xref[x]] \in Digests
  BY <1>0, <1>1, ProtocolConstants DEF ExecutorKnows
<1>3. /\ blobLock'[DigestOf[xref[x]]] = x
      /\ \A d \in Digests : blobLock'[d] = blobLock[d] \/ blobLock[d] = NoOne
  BY <1>1, <1>2 DEF AccountInv, TypeOK
<1>4. LocksMove(x)
  BY <1>1, <1>3 DEF LocksMove
<1>5. ExecutorKnows(x)'
  BY <1>0, <1>1, <1>2, <1>3 DEF ExecutorKnows
<1> QED
  BY <1>1, <1>4, <1>5, CalmExecutor

\* A cleared item keeps its place in the work list.
LEMMA ClearItemKnows ==
  ASSUME AccountInv, TypeOK', NEW x \in Executors, ClearItem(x)
  PROVE  AccountInv'
<1>0. ExecutorKnows(x)
  BY DEF AccountInv
<1>1. /\ UNCHANGED rowVars /\ store' = store /\ loose' = loose /\ UNCHANGED lockVars
      /\ blobLock' = blobLock
      /\ status' = status /\ items' = items /\ xreq' = xreq /\ xtodo' = xtodo /\ xref' = xref
      /\ OnlyMoves(x) /\ xpc[x] = "locked" /\ xpc'[x] = "cleared"
  BY DEF ClearItem, OnlyMoves, OnlyExecutor, rowVars, lockVars, AccountInv, TypeOK
<1>2. LocksMove(x)
  BY <1>1 DEF LocksMove, lockVars
<1>3. ExecutorKnows(x)'
  BY <1>0, <1>1 DEF ExecutorKnows
<1> QED
  BY <1>1, <1>2, <1>3, CalmExecutor

\* The bytes are gone, loose or not.
LEMMA EraseBytesKnows ==
  ASSUME AccountInv, TypeOK', NEW x \in Executors, EraseBytes(x)
  PROVE  AccountInv'
<1>0. ExecutorKnows(x)
  BY DEF AccountInv
<1>1. /\ UNCHANGED rowVars /\ UNCHANGED lockVars /\ blobLock' = blobLock
      /\ store' = store \ {DigestOf[xref[x]]} /\ loose' = loose \ {DigestOf[xref[x]]}
      /\ status' = status /\ items' = items /\ xreq' = xreq /\ xtodo' = xtodo /\ xref' = xref
      /\ OnlyMoves(x) /\ xpc[x] = "cleared" /\ xpc'[x] = "erased"
  BY DEF EraseBytes, OnlyMoves, OnlyExecutor, rowVars, lockVars, AccountInv, TypeOK
<1>2. LocksMove(x)
  BY <1>1 DEF LocksMove, lockVars
<1>3. store' \ loose' \subseteq store \ loose /\ DigestOf[xref[x]] \notin store'
  BY <1>1
<1>4. ExecutorKnows(x)'
  BY <1>0, <1>1, <1>3 DEF ExecutorKnows
<1> QED
  BY <1>1, <1>2, <1>3, <1>4, CalmExecutor

\* A crash leaves the durable items as they are.
LEMMA CrashExecutorKnows ==
  ASSUME AccountInv, TypeOK', NEW x \in Executors, CrashExecutor(x)
  PROVE  AccountInv'
<1>1. UNCHANGED rowVars /\ store' = store /\ loose' = loose /\ LocksMove(x)
  BY DEF CrashExecutor, LocksMove
<1>2. OnlyMoves(x) /\ xpc'[x] = "idle"
  BY ForgetMoves DEF CrashExecutor
<1> QED
  BY <1>1, <1>2, IdleKnows, CalmExecutor

\* So does the loss of the session.
LEMMA LoseSessionKnows ==
  ASSUME AccountInv, TypeOK', NEW x \in Executors, LoseSession(x)
  PROVE  AccountInv'
<1>0. ExecutorKnows(x)
  BY DEF AccountInv
<1>1. /\ UNCHANGED rowVars /\ store' = store /\ loose' = loose /\ LocksMove(x)
      /\ status' = status /\ xreq' = xreq /\ xref' = xref
      /\ OnlyMoves(x) /\ xpc[x] = "cleared" /\ xpc'[x] = "unguarded"
  BY DEF LoseSession, LocksMove, OnlyMoves, OnlyExecutor, rowVars, AccountInv, TypeOK
<1>2. ExecutorKnows(x)'
  BY <1>0, <1>1 DEF ExecutorKnows
<1> QED
  BY <1>1, <1>2, CalmExecutor

\* Bytes erased without a lock are gone too; their item stays.
LEMMA EraseUnguardedKnows ==
  ASSUME AccountInv, TypeOK', NEW x \in Executors, EraseUnguarded(x)
  PROVE  AccountInv'
<1>1. /\ UNCHANGED rowVars /\ UNCHANGED lockVars
      /\ store' \ loose' \subseteq store \ loose
  BY DEF EraseUnguarded
<1>2. OnlyMoves(x) /\ xpc'[x] = "idle"
  BY ForgetMoves DEF EraseUnguarded
<1>3. LocksMove(x)
  BY <1>1 DEF LocksMove, lockVars
<1> QED
  BY <1>1, <1>2, <1>3, IdleKnows, CalmExecutor

-----------------------------------------------------------------------------
(***************************************************************************)
(* The steps that change a request.                                        *)
(***************************************************************************)

\* An executor at work has a request that was planned.
LEMMA WorkIsPlanned ==
  ASSUME AccountInv, NEW y \in Executors, xpc[y] # "idle"
  PROVE  xreq[y] \in Requests /\ status[xreq[y]] # "none"
<1>1. xpc[y] \in {"rows", "removing", "decided", "listing", "visiting", "tenant", "locked",
                  "cleared", "unguarded", "erased"}
  BY DEF AccountInv, TypeOK, ExecutorStates
<1> QED
  BY <1>1 DEF AccountInv, ExecutorKnows

\* A row references what its export may reference.
LEMMA RowRefsBounded ==
  ASSUME NEW e \in Exports
  PROVE  RowRefs(e) \subseteq MayReference(e)
BY DEF RowRefs, MayReference

\* A plan lists every reference of the rows it covers, and adds items only.
LEMMA PlanAccounts ==
  ASSUME AccountInv, TypeOK', NEW r \in Requests, PlanDeletion(r)
  PROVE  AccountInv'
<1>0. TypeOK /\ RequestCovers(r) /\ ScopesAreOwned /\ UnerasedBlobsAreAccounted
  BY DEF AccountInv
<1>1. PICK S \in SUBSET {e \in Live : Owner[e] = RequestTenant[r]} :
          /\ scope' = [scope EXCEPT ![r] = S]
          /\ inventoried' = [inventoried EXCEPT ![r] = {e \in S : row[e] = "imported"}]
          /\ items' = [items EXCEPT ![r] =
                          [f \in Refs |-> IF Referenced(f, S) THEN "listed" ELSE "none"]]
  BY DEF PlanDeletion
<1>2. /\ store' = store /\ loose' = loose /\ row' = row /\ wpc' = wpc
      /\ UNCHANGED lockVars /\ UNCHANGED execVars
      /\ status[r] = "none" /\ status' = [status EXCEPT ![r] = "planned"]
  BY DEF PlanDeletion
<1>3. /\ scope'[r] = S /\ inventoried'[r] = {e \in S : row[e] = "imported"}
      /\ status'[r] = "planned"
      /\ \A f \in Refs : items'[r][f] = IF Referenced(f, S) THEN "listed" ELSE "none"
  BY <1>0, <1>1, <1>2 DEF TypeOK
<1>4. \A q \in Requests \ {r} : /\ scope'[q] = scope[q] /\ inventoried'[q] = inventoried[q]
                                /\ status'[q] = status[q] /\ items'[q] = items[q]
  BY <1>0, <1>1, <1>2 DEF TypeOK
<1>5. \A e \in Exports : RowRefs(e)' = RowRefs(e)
  BY <1>2, SameRow
<1>6. \A e \in S : e \in Exports /\ row[e] \in {"raw", "imported"} /\ Owner[e] = RequestTenant[r]
  BY <1>1 DEF Live
<1>7. UnerasedBlobsAreAccounted'
  <2>1. ASSUME NEW q \in Requests, NEW f \in Refs, items[q][f] \in {"listed", "erase"}
        PROVE  items'[q][f] \in {"listed", "erase"}
    <3>1. q # r
      BY <1>0, <1>2, <2>1 DEF RequestCovers
    <3> QED
      BY <1>4, <2>1, <3>1
  <2> QED
    BY <1>0, <1>2, <1>5, <2>1, AccountStays
<1>8. ScopesAreOwned'
  <2>1. ASSUME NEW q \in Requests, NEW e \in scope'[q]
        PROVE  Owner[e] = RequestTenant[q] /\ row'[e] # "absent"
    <3>1. CASE q = r
      BY <1>2, <1>3, <1>6, <2>1, <3>1
    <3>2. CASE q # r
      BY <1>0, <1>2, <1>4, <2>1, <3>2 DEF ScopesAreOwned
    <3> QED
      BY <3>1, <3>2
  <2> QED
    BY <2>1 DEF ScopesAreOwned
<1>9. ASSUME NEW o \in Exports PROVE RegistrarHolds(o)'
  <2>1. KeepsLocks(o)
    BY <1>2 DEF KeepsLocks, lockVars
  <2> QED
    BY <1>2, <2>1, RegistrarHoldsOn DEF AccountInv
<1>10. ASSUME NEW y \in Executors PROVE ExecutorKnows(y)'
  <2>1. /\ xpc'[y] = xpc[y] /\ xreq'[y] = xreq[y] /\ xref'[y] = xref[y]
        /\ xkeep'[y] = xkeep[y] /\ xtodo'[y] = xtodo[y]
    BY <1>2 DEF execVars
  <2>2. CASE xpc[y] = "idle"
    BY <2>1, <2>2, IdleKnows
  <2>3. CASE xpc[y] # "idle"
    <3>1. xreq[y] \in Requests \ {r}
      BY <1>2, <2>3, WorkIsPlanned
    <3>2. /\ scope'[xreq[y]] = scope[xreq[y]] /\ inventoried'[xreq[y]] = inventoried[xreq[y]]
          /\ status'[xreq[y]] = status[xreq[y]] /\ items'[xreq[y]] = items[xreq[y]]
      BY <1>4, <3>1
    <3>3. ExecutorKnows(y) /\ KeepsLocks(y)
      BY <1>2 DEF AccountInv, KeepsLocks, lockVars
    <3>4. xpc[y] \in {"removing", "decided"} => ~InventoryStale(xreq[y])'
      BY <1>2, <2>1, <3>2, <3>3, InventoryStays DEF ExecutorKnows
    <3>5. ASSUME xpc[y] = "decided", NEW f \in xkeep[y], items[xreq[y]][f] # "none"
          PROVE  Referenced(f, Live \ scope[xreq[y]])'
      BY <1>5, <2>1, <3>2, <3>3, <3>5, SharedStays DEF ExecutorKnows
    <3>6. LeavesAlone(y)
      BY <1>2, <3>2, <3>3, <3>4, <3>5 DEF LeavesAlone, ExecutorKnows
    <3> QED
      BY <2>1, <3>3, <3>6, ExecutorKnowsOn
  <2> QED
    BY <2>2, <2>3
<1>11. ASSUME NEW q \in Requests PROVE RequestCovers(q)'
  <2>1. CASE q # r
    <3>1. RequestCovers(q)
      BY DEF AccountInv
    <3>2. /\ scope'[q] = scope[q] /\ inventoried'[q] = inventoried[q]
          /\ status'[q] = status[q] /\ items'[q] = items[q]
      BY <1>4, <2>1
    <3> QED
      BY <3>1, <3>2 DEF RequestCovers
  <2>2. CASE q = r
    <3>1. ASSUME NEW e \in S, NEW f \in Refs,
                 f = RawRef[e] \/ (row[e] = "imported" /\ f \in PartRefs[e])
          PROVE  items'[r][f] = "listed"
      <4>1. f \in RowRefs(e)
        BY <1>6, <3>1 DEF RowRefs
      <4>2. Referenced(f, S)
        BY <4>1 DEF Referenced
      <4> QED
        BY <1>3, <4>2
    <3>2. ASSUME NEW f \in Refs, items'[r][f] # "none"
          PROVE  \E e \in Exports : Owner[e] = RequestTenant[r] /\ f \in MayReference(e)
      <4>1. Referenced(f, S)
        BY <1>3, <3>2
      <4>2. PICK e \in S : f \in RowRefs(e)
        BY <4>1 DEF Referenced
      <4> QED
        BY <1>6, <4>2, RowRefsBounded
    <3> QED
      BY <1>3, <2>2, <3>1, <3>2 DEF RequestCovers
  <2> QED
    BY <2>1, <2>2
<1> QED
  BY <1>7, <1>8, <1>9, <1>10, <1>11 DEF AccountInv

\* The end of a visit: the item is settled.  Nothing else accounts for the
\* bytes than the rows that still reference them.
LEMMA VisitEnds ==
  ASSUME AccountInv, TypeOK', NEW x \in Executors, NEW state \in {"retained", "purged"},
         xpc[x] \in {"locked", "erased"}, SetItemState(x, state), EndVisit(x),
         UNCHANGED <<store, loose, row, status, scope, inventoried, wpc, xreq, xkeep>>,
         DigestOf[xref[x]] \in store \ loose => Referenced(xref[x], Live)
  PROVE  AccountInv'
<1>0. TypeOK /\ ExecutorKnows(x) /\ ScopesAreOwned /\ UnerasedBlobsAreAccounted
  BY DEF AccountInv
<1>1. PICK f : f = xref[x]
  OBVIOUS
<1>2. PICK q : q = xreq[x]
  OBVIOUS
<1>3. /\ q \in Requests /\ f \in Refs /\ status[q] \in {"purging", "completed"}
      /\ \A g \in Refs : items[q][g] = "erase" => g \in xtodo[x]
  BY <1>0, <1>1, <1>2 DEF ExecutorKnows
<1>4. items' = [items EXCEPT ![q][f] = IF @ = "none" THEN "none" ELSE state]
  BY <1>1, <1>2 DEF SetItemState
<1>5. \A p \in Requests, g \in Refs :
         items'[p][g] = IF p = q /\ g = f /\ items[p][g] # "none" THEN state ELSE items[p][g]
  BY <1>0, <1>3, <1>4 DEF TypeOK
<1>6. /\ \A p \in Requests, g \in Refs : items'[p][g] # "none" => items[p][g] # "none"
      /\ \A p \in Requests, g \in Refs : items'[p][g] = "erase" => items[p][g] = "erase"
      /\ \A p \in Requests, g \in Refs : items'[p][g] = "listed" => items[p][g] = "listed"
  BY <1>5
<1>7. /\ OnlyMoves(x) /\ ReleaseAll(x) /\ xpc'[x] = "visiting"
      /\ xtodo'[x] = xtodo[x] \ {f}
  BY <1>0, <1>1 DEF EndVisit, OnlyMoves, OnlyExecutor, TypeOK
<1>8. OthersGoOn(x)
  BY <1>7, ExecutorLetsGoOn DEF LocksMove
<1>9. \A e \in Exports : RowRefs(e)' = RowRefs(e)
  BY SameRow
<1>10. Live' = Live
  BY DEF Live
<1>11. UnerasedBlobsAreAccounted'
  <2>1. ASSUME NEW d \in store \ loose
        PROVE  \/ \E e \in Live : \E g \in RowRefs(e) : DigestOf[g] = d
               \/ \E p \in Requests : \E g \in Refs :
                     DigestOf[g] = d /\ items'[p][g] \in {"listed", "erase"}
    <3>1. CASE d = DigestOf[f]
      BY <1>1, <3>1 DEF Referenced
    <3>2. CASE d # DigestOf[f]
      BY <1>0, <1>5, <3>2 DEF UnerasedBlobsAreAccounted
    <3> QED
      BY <3>1, <3>2
  <2>2. \A e \in Live' : e \in Exports
    BY DEF Live
  <2>3. ASSUME NEW d \in store' \ loose'
        PROVE  \/ \E e \in Live' : \E g \in RowRefs(e)' : DigestOf[g] = d
               \/ \E p \in Requests : \E g \in Refs :
                     DigestOf[g] = d /\ items'[p][g] \in {"listed", "erase"}
    <3>1. d \in store \ loose
      OBVIOUS
    <3>2. CASE \E e \in Live : \E g \in RowRefs(e) : DigestOf[g] = d
      <4>1. PICK e \in Live : \E g \in RowRefs(e) : DigestOf[g] = d
        BY <3>2
      <4>2. e \in Live' /\ RowRefs(e)' = RowRefs(e)
        BY <1>9, <1>10, <2>2
      <4> QED
        BY <4>1, <4>2
    <3> QED
      BY <2>1, <3>1, <3>2
  <2> QED
    BY <2>3 DEF UnerasedBlobsAreAccounted
<1>12. ASSUME NEW o \in Exports PROVE RegistrarHolds(o)'
  <2>1. o # x
    BY ProtocolConstants
  <2> QED
    BY <1>8, <2>1, RegistrarHoldsOn DEF AccountInv, OthersGoOn, OthersKeep
<1>13. ASSUME NEW y \in Executors PROVE ExecutorKnows(y)'
  <2>1. CASE y = x
    <3>1. ASSUME NEW g \in Refs, items'[q][g] = "erase" PROVE g \in xtodo'[x]
      <4>1. g # f
        BY <1>3, <1>5, <3>1
      <4> QED
        BY <1>3, <1>6, <1>7, <3>1, <4>1
    <3> QED
      BY <1>2, <1>3, <1>7, <2>1, <3>1 DEF ExecutorKnows
  <2>2. CASE y # x
    <3>1. /\ ExecutorKnows(y) /\ KeepsLocks(y)
          /\ xpc'[y] = xpc[y] /\ xreq'[y] = xreq[y] /\ xref'[y] = xref[y]
          /\ xkeep'[y] = xkeep[y] /\ xtodo'[y] = xtodo[y]
      BY <1>8, <2>2 DEF AccountInv, OthersGoOn, OthersKeep
    <3>2. xpc[y] \in {"removing", "decided"} => ~InventoryStale(xreq[y])'
      BY <3>1, InventoryStays DEF ExecutorKnows
    <3>3. ASSUME xpc[y] = "decided", NEW g \in xkeep[y], items'[xreq[y]][g] # "none"
          PROVE  Referenced(g, Live \ scope[xreq[y]])'
      <4>1. xreq[y] \in Requests /\ g \in Refs
        BY <1>0, <3>1, <3>3 DEF ExecutorKnows, TypeOK
      <4>2. Referenced(g, Live \ scope[xreq[y]])
        BY <1>6, <3>1, <3>3, <4>1 DEF ExecutorKnows
      <4> QED
        BY <1>9, <3>1, <4>2, SharedStays
    <3>4. xpc[y] # "idle" => xreq[y] \in Requests
      BY <3>1 DEF ExecutorKnows
    <3>5. LeavesAlone(y)
      BY <1>6, <3>1, <3>2, <3>3, <3>4 DEF LeavesAlone, ExecutorKnows
    <3> QED
      BY <3>1, <3>5, ExecutorKnowsOn
  <2> QED
    BY <2>1, <2>2
<1>14. ASSUME NEW p \in Requests PROVE RequestCovers(p)'
  <2>1. RequestCovers(p)
    BY DEF AccountInv
  <2>2. ASSUME status[p] = "planned", NEW g \in Refs, items[p][g] = "listed"
        PROVE  items'[p][g] = "listed"
    BY <1>3, <1>5, <2>2
  <2>3. ASSUME status[p] = "none", NEW g \in Refs PROVE items'[p][g] = "none"
    BY <1>6, <2>1, <2>3 DEF RequestCovers
  <2>4. ASSUME status[p] \in {"purging", "completed"}, NEW g \in Refs PROVE items'[p][g] # "listed"
    BY <1>6, <2>1, <2>4 DEF RequestCovers
  <2>5. ASSUME NEW g \in Refs, items'[p][g] # "none"
        PROVE  \E e \in Exports : Owner[e] = RequestTenant[p] /\ g \in MayReference(e)
    BY <1>6, <2>1, <2>5 DEF RequestCovers
  <2> QED
    BY <2>1, <2>2, <2>3, <2>4, <2>5 DEF RequestCovers
<1>15. ScopesAreOwned'
  BY <1>0 DEF ScopesAreOwned
<1> QED
  BY <1>11, <1>12, <1>13, <1>14, <1>15 DEF AccountInv

\* A kept item is referenced by a row.
LEMMA KeepItemAccounts ==
  ASSUME AccountInv, TypeOK', NEW x \in Executors, KeepItem(x)
  PROVE  AccountInv'
<1>1. /\ xpc[x] \in {"locked", "erased"} /\ SetItemState(x, "retained") /\ EndVisit(x)
      /\ UNCHANGED <<store, loose, row, status, scope, inventoried, wpc, xreq, xkeep>>
      /\ Referenced(xref[x], Live)
  BY DEF KeepItem
<1> QED
  BY <1>1, VisitEnds

\* A purged item has no bytes, or loose ones.
LEMMA CommitEraseAccounts ==
  ASSUME AccountInv, TypeOK', NEW x \in Executors, CommitErase(x)
  PROVE  AccountInv'
<1>1. /\ xpc[x] \in {"locked", "erased"} /\ SetItemState(x, "purged") /\ EndVisit(x)
      /\ UNCHANGED <<store, loose, row, status, scope, inventoried, wpc, xreq, xkeep>>
      /\ xpc[x] = "erased"
  BY DEF CommitErase
<1>2. DigestOf[xref[x]] \notin store \ loose
  BY <1>1 DEF AccountInv, ExecutorKnows
<1> QED
  BY <1>1, <1>2, VisitEnds

\* A request completes when its work list is empty, so none of its items is
\* still to be erased.
LEMMA CompleteAccounts ==
  ASSUME AccountInv, TypeOK', NEW x \in Executors, CompleteRequest(x)
  PROVE  AccountInv'
<1>0. TypeOK /\ ExecutorKnows(x) /\ ScopesAreOwned /\ UnerasedBlobsAreAccounted
  BY DEF AccountInv
<1>1. PICK r : r = xreq[x]
  OBVIOUS
<1>2. /\ store' = store /\ loose' = loose /\ row' = row /\ wpc' = wpc /\ UNCHANGED lockVars
      /\ xpc[x] = "visiting" /\ xtodo[x] = {} /\ tenantLock[RequestTenant[r]] = NoOne
      /\ status' = [status EXCEPT ![r] = "completed"]
      /\ items' = [items EXCEPT ![r] = [f \in Refs |-> "none"]]
      /\ scope' = [scope EXCEPT ![r] = {}] /\ inventoried' = [inventoried EXCEPT ![r] = {}]
  BY <1>1 DEF CompleteRequest
<1>3. OnlyMoves(x) /\ xpc'[x] = "idle"
  BY <1>2, ForgetMoves DEF CompleteRequest
<1>4. /\ r \in Requests /\ status[r] \in {"purging", "completed"}
      /\ \A f \in Refs : items[r][f] # "erase"
  BY <1>0, <1>1, <1>2 DEF ExecutorKnows
<1>5. /\ status'[r] = "completed" /\ scope'[r] = {}
      /\ \A f \in Refs : items'[r][f] = "none"
  BY <1>0, <1>2, <1>4 DEF TypeOK
<1>6. \A q \in Requests \ {r} : /\ scope'[q] = scope[q] /\ inventoried'[q] = inventoried[q]
                                /\ status'[q] = status[q] /\ items'[q] = items[q]
  BY <1>0, <1>2 DEF TypeOK
<1>7. \A e \in Exports : RowRefs(e)' = RowRefs(e)
  BY <1>2, SameRow
<1>8. OthersGoOn(x)
  <2>1. LocksMove(x)
    BY <1>2 DEF LocksMove, lockVars
  <2> QED
    BY <1>3, <2>1, ExecutorLetsGoOn
<1>9. UnerasedBlobsAreAccounted'
  <2>1. ASSUME NEW q \in Requests, NEW f \in Refs, items[q][f] \in {"listed", "erase"}
        PROVE  items'[q][f] \in {"listed", "erase"}
    <3>1. q # r
      BY <1>4, <2>1 DEF AccountInv, RequestCovers
    <3> QED
      BY <1>6, <2>1, <3>1
  <2> QED
    BY <1>0, <1>2, <1>7, <2>1, AccountStays
<1>10. ScopesAreOwned'
  <2>1. \A q \in Requests : scope'[q] \subseteq scope[q]
    BY <1>5, <1>6
  <2> QED
    BY <1>0, <1>2, <2>1, ScopesStay
<1>11. ASSUME NEW o \in Exports PROVE RegistrarHolds(o)'
  <2>1. o # x
    BY ProtocolConstants
  <2> QED
    BY <1>2, <1>8, <2>1, RegistrarHoldsOn DEF AccountInv, OthersGoOn, OthersKeep
<1>12. ASSUME NEW y \in Executors PROVE ExecutorKnows(y)'
  <2>1. CASE y = x
    BY <1>3, <2>1, IdleKnows
  <2>2. CASE y # x
    <3>1. /\ ExecutorKnows(y) /\ KeepsLocks(y)
          /\ xpc'[y] = xpc[y] /\ xreq'[y] = xreq[y] /\ xref'[y] = xref[y]
          /\ xkeep'[y] = xkeep[y] /\ xtodo'[y] = xtodo[y]
      BY <1>8, <2>2 DEF AccountInv, OthersGoOn, OthersKeep
    <3>2. CASE xpc[y] = "idle"
      BY <3>1, <3>2, IdleKnows
    <3>3. CASE xpc[y] # "idle" /\ xreq[y] = r
      <4>1. xpc[y] \notin {"removing", "decided"}
        <5>1. y # NoOne
          BY ProtocolConstants
        <5> QED
          BY <1>2, <3>1, <3>3, <5>1 DEF ExecutorKnows
      <4>2. LeavesAlone(y)
        BY <1>2, <1>5, <3>1, <3>3, <4>1 DEF LeavesAlone, ExecutorKnows
      <4> QED
        BY <3>1, <4>2, ExecutorKnowsOn
    <3>4. CASE xpc[y] # "idle" /\ xreq[y] # r
      <4>1. xreq[y] \in Requests \ {r}
        BY <3>1, <3>4 DEF ExecutorKnows
      <4>2. /\ scope'[xreq[y]] = scope[xreq[y]] /\ inventoried'[xreq[y]] = inventoried[xreq[y]]
            /\ status'[xreq[y]] = status[xreq[y]] /\ items'[xreq[y]] = items[xreq[y]]
        BY <1>6, <4>1
      <4>3. xpc[y] \in {"removing", "decided"} => ~InventoryStale(xreq[y])'
        BY <1>2, <3>1, <4>2, InventoryStays DEF ExecutorKnows
      <4>4. ASSUME xpc[y] = "decided", NEW f \in xkeep[y], items[xreq[y]][f] # "none"
            PROVE  Referenced(f, Live \ scope[xreq[y]])'
        BY <1>7, <3>1, <4>2, <4>4, SharedStays DEF ExecutorKnows
      <4>5. LeavesAlone(y)
        BY <1>2, <3>1, <4>2, <4>3, <4>4 DEF LeavesAlone, ExecutorKnows
      <4> QED
        BY <3>1, <4>5, ExecutorKnowsOn
    <3> QED
      BY <3>2, <3>3, <3>4
  <2> QED
    BY <2>1, <2>2
<1>13. ASSUME NEW q \in Requests PROVE RequestCovers(q)'
  <2>1. CASE q # r
    <3>1. RequestCovers(q)
      BY DEF AccountInv
    <3>2. /\ scope'[q] = scope[q] /\ inventoried'[q] = inventoried[q]
          /\ status'[q] = status[q] /\ items'[q] = items[q]
      BY <1>6, <2>1
    <3> QED
      BY <3>1, <3>2 DEF RequestCovers
  <2>2. CASE q = r
    BY <1>5, <2>2 DEF RequestCovers
  <2> QED
    BY <2>1, <2>2
<1> QED
  BY <1>9, <1>10, <1>11, <1>12, <1>13 DEF AccountInv

\* The commit of a row deletion: the references of the removed rows are all
\* listed, and an item is retained only for a row outside the scope.  That row
\* stands, for no other deletion that could remove it holds a tenant lock
\* beside this one or shares the reference.
LEMMA RemovalAccounts ==
  ASSUME DeletionsShareNothing, AccountInv, TypeOK', NEW x \in Executors, CommitRemoveRows(x)
  PROVE  AccountInv'
<1>0. TypeOK /\ ExecutorKnows(x) /\ ScopesAreOwned /\ UnerasedBlobsAreAccounted
  BY DEF AccountInv
<1>1. PICK r : r = xreq[x]
  OBVIOUS
<1>2. /\ store' = store /\ loose' = loose /\ scope' = scope /\ inventoried' = inventoried
      /\ ReleaseAll(x) /\ OnlyMoves(x) /\ xreq' = xreq
      /\ xpc[x] = "decided" /\ xpc'[x] = "listing"
      /\ row' = [e \in Exports |-> IF e \in scope[r] THEN "deleted" ELSE row[e]]
      /\ items' = [items EXCEPT ![r] =
                      [f \in Refs |-> IF items[r][f] \in {"none", "purged"} THEN items[r][f]
                                     ELSE IF f \in xkeep[x] THEN "retained" ELSE "erase"]]
      /\ status' = [status EXCEPT ![r] = "purging"]
  <2>1. OnlyMoves(x) /\ xpc'[x] = "listing"
    BY <1>0 DEF CommitRemoveRows, OnlyMoves, OnlyExecutor, TypeOK
  <2> QED
    BY <1>1, <2>1 DEF CommitRemoveRows
<1>3. /\ r \in Requests /\ status[r] = "planned" /\ ~InventoryStale(r)
      /\ tenantLock[RequestTenant[r]] = x
      /\ \A f \in xkeep[x] : items[r][f] # "none" => Referenced(f, Live \ scope[r])
  BY <1>0, <1>1, <1>2 DEF ExecutorKnows
<1>4. /\ status'[r] = "purging"
      /\ \A f \in Refs : items'[r][f] = IF items[r][f] \in {"none", "purged"} THEN items[r][f]
                                       ELSE IF f \in xkeep[x] THEN "retained" ELSE "erase"
  BY <1>0, <1>2, <1>3 DEF TypeOK
<1>5. \A q \in Requests \ {r} : status'[q] = status[q] /\ items'[q] = items[q]
  BY <1>0, <1>2 DEF TypeOK
<1>6. \A e \in Exports : row'[e] = IF e \in scope[r] THEN "deleted" ELSE row[e]
  BY <1>2
<1>7. \A e \in Exports \ scope[r] : RowRefs(e)' = RowRefs(e)
  BY <1>6, SameRow
<1>8. \A e \in scope[r] : e \in Exports /\ Owner[e] = RequestTenant[r] /\ row[e] # "absent"
  BY <1>0, <1>3 DEF ScopesAreOwned, TypeOK
<1>9. OthersGoOn(x)
  BY <1>2, ExecutorLetsGoOn DEF LocksMove
<1>10. ASSUME NEW f \in Refs, items[r][f] \in {"listed", "erase"}
      PROVE  \/ \E e \in Live' : f \in RowRefs(e)'
             \/ items'[r][f] \in {"listed", "erase"}
  <2>1. CASE f \in xkeep[x]
    <3>1. Referenced(f, Live \ scope[r])
      BY <1>3, <1>10, <2>1
    <3>2. PICK e \in Live \ scope[r] : f \in RowRefs(e)
      BY <3>1 DEF Referenced
    <3>3. e \in Exports \ scope[r]
      BY <3>2 DEF Live
    <3>4. f \in RowRefs(e)' /\ e \in Live'
      BY <1>6, <1>7, <3>2, <3>3 DEF Live
    <3> QED
      BY <3>4
  <2>2. CASE f \notin xkeep[x]
    BY <1>4, <1>10, <2>2
  <2> QED
    BY <2>1, <2>2
<1>11. UnerasedBlobsAreAccounted'
  <2>1. ASSUME NEW d \in store' \ loose'
        PROVE  \/ \E e \in Live' : \E f \in RowRefs(e)' : DigestOf[f] = d
               \/ \E q \in Requests : \E f \in Refs :
                     DigestOf[f] = d /\ items'[q][f] \in {"listed", "erase"}
    <3>1. \/ \E e \in Live : \E f \in RowRefs(e) : DigestOf[f] = d
          \/ \E q \in Requests : \E f \in Refs :
                DigestOf[f] = d /\ items[q][f] \in {"listed", "erase"}
      BY <1>0, <1>2 DEF UnerasedBlobsAreAccounted
    <3>2. ASSUME NEW f \in Refs, DigestOf[f] = d, items[r][f] \in {"listed", "erase"}
          PROVE  \/ \E e \in Live' : \E g \in RowRefs(e)' : DigestOf[g] = d
                 \/ \E q \in Requests : \E g \in Refs :
                       DigestOf[g] = d /\ items'[q][g] \in {"listed", "erase"}
      BY <1>3, <1>10, <3>2
    <3>3. ASSUME NEW e \in Live, NEW f \in RowRefs(e), DigestOf[f] = d
          PROVE  \/ \E o \in Live' : \E g \in RowRefs(o)' : DigestOf[g] = d
                 \/ \E q \in Requests : \E g \in Refs :
                       DigestOf[g] = d /\ items'[q][g] \in {"listed", "erase"}
      <4>1. e \in Exports /\ f \in Refs
        BY DEF Live, RowRefs
      <4>2. CASE e \in scope[r]
        <5>1. f = RawRef[e] \/ (e \in inventoried[r] /\ f \in PartRefs[e])
          BY <1>3, <4>2 DEF RowRefs, InventoryStale
        <5>2. items[r][f] = "listed"
          BY <1>3, <4>1, <4>2, <5>1 DEF AccountInv, RequestCovers
        <5> QED
          BY <3>2, <3>3, <4>1, <5>2
      <4>3. CASE e \notin scope[r]
        <5>1. e \in Live' /\ f \in RowRefs(e)'
          BY <1>6, <1>7, <4>1, <4>3 DEF Live
        <5> QED
          BY <3>3, <5>1
      <4> QED
        BY <4>2, <4>3
    <3>4. ASSUME NEW q \in Requests, NEW f \in Refs, DigestOf[f] = d,
                 items[q][f] \in {"listed", "erase"}
          PROVE  \/ \E o \in Live' : \E g \in RowRefs(o)' : DigestOf[g] = d
                 \/ \E p \in Requests : \E g \in Refs :
                       DigestOf[g] = d /\ items'[p][g] \in {"listed", "erase"}
      <4>1. CASE q = r
        BY <3>2, <3>4, <4>1
      <4>2. CASE q # r
        <5>1. items'[q][f] \in {"listed", "erase"}
          BY <1>5, <3>4, <4>2
        <5> QED
          BY <3>4, <5>1
      <4> QED
        BY <4>1, <4>2
    <3> QED
      BY <3>1, <3>3, <3>4
  <2> QED
    BY <2>1 DEF UnerasedBlobsAreAccounted
<1>12. ScopesAreOwned'
  <2>1. \A e \in Exports : row[e] # "absent" => row'[e] # "absent"
    BY <1>6
  <2> QED
    BY <1>0, <1>2, <2>1, ScopesStay
<1>13. ASSUME NEW o \in Exports PROVE RegistrarHolds(o)'
  <2>1. o # x
    BY ProtocolConstants
  <2>2. RegistrarHolds(o) /\ KeepsLocks(o) /\ wpc'[o] = wpc[o]
    BY <1>9, <2>1 DEF AccountInv, OthersGoOn, OthersKeep
  <2>3. CASE o \in scope[r]
    <3>1. wpc[o] \notin {"locking", "proved"}
      BY <1>3, <1>8, <2>1, <2>2, <2>3 DEF RegistrarHolds
    <3> QED
      BY <2>2, <3>1 DEF RegistrarHolds
  <2>4. CASE o \notin scope[r]
    BY <1>6, <2>2, <2>4, RegistrarHoldsOn
  <2> QED
    BY <2>3, <2>4
<1>14. ASSUME NEW y \in Executors PROVE ExecutorKnows(y)'
  <2>1. CASE y = x
    BY <1>1, <1>2, <1>3, <1>4, <2>1 DEF ExecutorKnows
  <2>2. CASE y # x
    <3>1. /\ ExecutorKnows(y) /\ KeepsLocks(y)
          /\ xpc'[y] = xpc[y] /\ xreq'[y] = xreq[y] /\ xref'[y] = xref[y]
          /\ xkeep'[y] = xkeep[y] /\ xtodo'[y] = xtodo[y]
      BY <1>9, <2>2 DEF AccountInv, OthersGoOn, OthersKeep
    <3>2. xpc[y] # "idle" => xreq[y] \in Requests
      BY <3>1 DEF ExecutorKnows
    <3>3. xpc[y] \in {"removing", "decided"} => RequestTenant[xreq[y]] # RequestTenant[r]
      BY <1>3, <2>2, <3>1 DEF ExecutorKnows
    <3>4. xpc[y] \in {"removing", "decided"} => status'[xreq[y]] = "planned"
      BY <1>5, <3>1, <3>2, <3>3 DEF ExecutorKnows
    <3>5. xpc[y] \in {"removing", "decided"} => ~InventoryStale(xreq[y])'
      <4>1. SUFFICES ASSUME xpc[y] \in {"removing", "decided"}
                     PROVE  ~InventoryStale(xreq[y])'
        OBVIOUS
      <4>2. scope[xreq[y]] \subseteq Exports
        BY <1>0, <3>2, <4>1 DEF TypeOK
      <4>3. \A e \in scope[xreq[y]] : row'[e] = "imported" => row[e] = "imported"
        BY <1>6, <4>2
      <4>4. ~InventoryStale(xreq[y])
        BY <3>1, <4>1 DEF ExecutorKnows
      <4> QED
        BY <1>2, <3>1, <4>3, <4>4, InventoryStays
    <3>6. ASSUME xpc[y] = "decided", NEW f \in xkeep[y], items'[xreq[y]][f] # "none"
          PROVE  Referenced(f, Live \ scope[xreq[y]])'
      <4>1. xreq[y] \in Requests /\ xreq[y] # r /\ f \in Refs
        BY <1>0, <3>2, <3>3, <3>6 DEF TypeOK
      <4>2. items[xreq[y]][f] # "none"
        BY <1>5, <3>6, <4>1
      <4>3. Referenced(f, Live \ scope[xreq[y]])
        BY <3>1, <3>6, <4>2 DEF ExecutorKnows
      <4>4. PICK e \in Exports : Owner[e] = RequestTenant[xreq[y]] /\ f \in MayReference(e)
        BY <4>1, <4>2 DEF AccountInv, RequestCovers
      <4>5. ASSUME NEW o \in scope[r] PROVE f \notin RowRefs(o)
        <5>1. o \in Exports /\ Owner[o] = RequestTenant[r]
          BY <1>8
        <5>2. MayReference(e) \cap MayReference(o) = {}
          BY <1>3, <3>3, <3>6, <4>1, <4>4, <5>1 DEF DeletionsShareNothing
        <5> QED
          BY <4>4, <5>1, <5>2, RowRefsBounded
      <4>6. \A o \in Exports : f \in RowRefs(o) => f \in RowRefs(o)'
        BY <1>7, <4>5
      <4> QED
        BY <1>2, <3>1, <4>3, <4>6, SharedStays
    <3>7. xpc[y] # "idle" /\ status[xreq[y]] # "none" => status'[xreq[y]] # "none"
      BY <1>4, <1>5, <3>2
    <3>8. xpc[y] # "idle" /\ status[xreq[y]] \in {"purging", "completed"}
             => status'[xreq[y]] = status[xreq[y]] /\ items'[xreq[y]] = items[xreq[y]]
      BY <1>3, <1>5, <3>2
    <3>9. xpc[y] = "erased" => DigestOf[xref[y]] \notin store' \ loose'
      BY <1>2, <3>1 DEF ExecutorKnows
    <3>10. LeavesAlone(y)
      BY <3>4, <3>5, <3>6, <3>7, <3>8, <3>9 DEF LeavesAlone
    <3> QED
      BY <3>1, <3>10, ExecutorKnowsOn
  <2> QED
    BY <2>1, <2>2
<1>15. ASSUME NEW q \in Requests PROVE RequestCovers(q)'
  <2>1. RequestCovers(q)
    BY DEF AccountInv
  <2>2. CASE q # r
    <3>1. /\ scope'[q] = scope[q] /\ inventoried'[q] = inventoried[q]
          /\ status'[q] = status[q] /\ items'[q] = items[q]
      BY <1>2, <1>5, <2>2
    <3> QED
      BY <2>1, <3>1 DEF RequestCovers
  <2>3. CASE q = r
    <3>1. \A f \in Refs : items'[r][f] # "listed" /\ (items'[r][f] # "none" => items[r][f] # "none")
      BY <1>4
    <3> QED
      BY <1>4, <2>1, <2>3, <3>1 DEF RequestCovers
  <2> QED
    BY <2>2, <2>3
<1> QED
  BY <1>11, <1>12, <1>13, <1>14, <1>15 DEF AccountInv

-----------------------------------------------------------------------------
\* Every step of the protocol keeps the invariant.
LEMMA AccountInvNext ==
  ASSUME DeletionsShareNothing
  PROVE  AccountInv /\ [Next]_vars => AccountInv'
<1> SUFFICES ASSUME AccountInv, [Next]_vars PROVE AccountInv'
  OBVIOUS
<1>0. TypeOK'
  BY TypeNext DEF AccountInv
<1>1. ASSUME NEW e \in Exports, RegistrarStep(e) PROVE AccountInv'
  BY <1>0, <1>1, RegistrarIsCalm, CommitAccounts DEF RegistrarStep
<1>2. ASSUME NEW e \in Exports, AbortRegistration(e) PROVE AccountInv'
  BY <1>0, <1>2, RollbackIsCalm
<1>3. ASSUME NEW r \in Requests, PlanDeletion(r) PROVE AccountInv'
  BY <1>0, <1>3, PlanAccounts
<1>4. ASSUME NEW x \in Executors, NEW r \in Requests, StartExecution(x, r) PROVE AccountInv'
  BY <1>0, <1>4, StartKnows
<1>5. ASSUME NEW x \in Executors, ExecutorStep(x) PROVE AccountInv'
  BY <1>0, <1>5, BeginRemoveRowsKnows, RowsAlreadyRemovedKnows, RemoveRowsRefusedKnows,
     RecomputeBlobSharingKnows, RemovalAccounts, ListItemsKnows, VisitItemKnows, LockItemKnows,
     KeepItemAccounts, ClearItemKnows, EraseBytesKnows, CommitEraseAccounts, CompleteAccounts,
     EraseUnguardedKnows DEF ExecutorStep
<1>6. ASSUME NEW x \in Executors, CrashExecutor(x) \/ LoseSession(x) PROVE AccountInv'
  BY <1>0, <1>6, CrashExecutorKnows, LoseSessionKnows
<1>7. CASE UNCHANGED vars
  <2>1. UNCHANGED rowVars /\ OthersGoOn(NoOne) /\ store' = store /\ loose' = loose
    BY <1>7 DEF vars, rowVars, OthersGoOn, OthersKeep, KeepsLocks
  <2>2. NoOne \notin Exports /\ NoOne \notin Executors
    BY ProtocolConstants
  <2> QED
    BY <1>0, <2>1, <2>2, CalmStep
<1> QED
  BY <1>1, <1>2, <1>3, <1>4, <1>5, <1>6, <1>7 DEF Next

\* "Every blob not yet erased is listed in a durable item" (rows.rs): when the
\* tenants that delete share no references, bytes that a committed row once
\* referenced are referenced by a row or wait in an item of a request that is
\* not completed, whatever crashes, rolls back or loses its session.
THEOREM NoForgottenBlob ==
  ASSUME DeletionsShareNothing
  PROVE  Spec => []UnerasedBlobsAreAccounted
<1>1. AccountInv => UnerasedBlobsAreAccounted
  BY DEF AccountInv
<1> QED
  BY <1>1, AccountInvInit, AccountInvNext, PTL DEF Spec
=============================================================================
