----------------------------- MODULE BlobProtocol -----------------------------
(***************************************************************************)
(* The lock protocol between blob registration and blob erasure.           *)
(*                                                                         *)
(* The blob store is content addressed and shared by all tenants and all   *)
(* exports.  A registrar (the receipt publishing an export, the import     *)
(* worker or a reparse adding extracted artifacts) stores bytes outside    *)
(* any transaction and later commits rows that reference them.  A privacy  *)
(* deletion removes rows in one transaction and erases bytes in later      *)
(* ones.  Both sides take the digest lock; the import side and the         *)
(* deletion side also take the tenant lock, always before digest locks.    *)
(*                                                                         *)
(* An export stands for one row identity: once deleted it never comes      *)
(* back, and a re-upload of the same bytes is another element of Exports   *)
(* with the same RawRef.  Bytes are represented by their digest.           *)
(***************************************************************************)
EXTENDS Integers

CONSTANTS
    Exports,        \* identities of export rows (one registrar works on each)
    Executors,      \* processes that execute deletion requests
    Requests,       \* privacy deletion requests
    Tenants,        \* owning accounts
    Refs,           \* blob references (the JSON value stored in a blob_ref column)
    Digests,        \* SHA-256 digests, ordered: the lock order is ascending
    NoOne,          \* holder of a free lock
    Owner,          \* Owner[e]: the tenant of export e
    RequestTenant,  \* RequestTenant[r]: the tenant of request r
    RawRef,         \* RawRef[e]: the reference of the archive bytes of e
    PartRefs,       \* PartRefs[e]: the references of the artifacts extracted from e
    DigestOf,       \* DigestOf[f]: the digest inside reference f
    SessionLoss,    \* may an eraser lose its database session inside the erase window
    MaxFaults       \* bound on crashes, rollbacks and lost sessions

ASSUME ProtocolConstants ==
    /\ Digests \subseteq Nat
    /\ Owner \in [Exports -> Tenants]
    /\ RequestTenant \in [Requests -> Tenants]
    /\ RawRef \in [Exports -> Refs]
    /\ PartRefs \in [Exports -> SUBSET Refs]
    /\ DigestOf \in [Refs -> Digests]
    /\ Exports \cap Executors = {}
    /\ NoOne \notin Exports \cup Executors
    /\ SessionLoss \in BOOLEAN
    /\ MaxFaults \in Nat

VARIABLES
    store,       \* digests whose object exists in the blob store
    row,         \* row[e]: which committed rows of export e exist
    blobLock,    \* blobLock[d]: transaction that holds the digest lock
    tenantLock,  \* tenantLock[t]: transaction that holds the tenant lock
    wpc,         \* wpc[e]: program counter of the registrar of e
    status,      \* status[r]: durable status of the deletion request
    scope,       \* scope[r]: the exports its inventory removes
    inventoried, \* inventoried[r]: the scoped exports that were imported at planning
    items,       \* items[r][f]: the durable inventory item of reference f
    xpc,         \* xpc[x]: program counter of executor x
    xreq,        \* xreq[x]: the request x executes
    xkeep,       \* xkeep[x]: references x found shared while removing rows
    xtodo,       \* xtodo[x]: items x read and has still to visit
    xref,        \* xref[x]: the reference x is visiting
    loose,       \* history: digests stored for a registration that has not committed
    faults       \* number of crashes, rollbacks and lost sessions so far

rowVars == <<row, status, scope, inventoried, items>>
lockVars == <<blobLock, tenantLock>>
execVars == <<xpc, xreq, xkeep, xtodo, xref>>
vars == <<store, row, blobLock, tenantLock, wpc, status, scope, inventoried,
          items, xpc, xreq, xkeep, xtodo, xref, loose, faults>>

RowStates == {"absent", "raw", "imported", "deleted"}
RegistrarStates == {"idle", "stored", "locking", "proved"}
ItemStates == {"none", "listed", "erase", "retained", "purged"}
ExecutorStates == {"idle", "rows", "removing", "decided", "listing", "visiting",
                   "tenant", "locked", "cleared", "unguarded", "erased"}

(***************************************************************************)
(* What a committed row references, and what a registrar is about to.      *)
(***************************************************************************)
RowRefs(e) ==
    {f \in Refs : \/ row[e] \in {"raw", "imported"} /\ f = RawRef[e]
                  \/ row[e] = "imported" /\ f \in PartRefs[e]}

Live == {e \in Exports : row[e] \in {"raw", "imported"}}

Wanted(e) == IF row[e] = "absent" THEN {RawRef[e]} ELSE PartRefs[e]

WantedDigests(e) == {DigestOf[f] : f \in Wanted(e)}

\* blob_is_referenced compares the whole reference, not only its digest.
Referenced(f, exports) == \E e \in exports : f \in RowRefs(e)

SameArchive(e) == {o \in Live : Owner[o] = Owner[e] /\ DigestOf[RawRef[o]] = DigestOf[RawRef[e]]}

PrivacyBlocked(t) ==
    \E r \in Requests : RequestTenant[r] = t /\ status[r] \in {"planned", "purging"}

HeldBy(p) == {d \in Digests : blobLock[d] = p}

ReleaseAll(p) ==
    /\ blobLock' = [d \in Digests |-> IF blobLock[d] = p THEN NoOne ELSE blobLock[d]]
    /\ tenantLock' = [t \in Tenants |-> IF tenantLock[t] = p THEN NoOne ELSE tenantLock[t]]

\* The local variables of an execution go with it.
Forget(x) ==
    /\ xpc' = [xpc EXCEPT ![x] = "idle"]
    /\ xreq' = [xreq EXCEPT ![x] = NoOne]
    /\ xkeep' = [xkeep EXCEPT ![x] = {}]
    /\ xtodo' = [xtodo EXCEPT ![x] = {}]
    /\ xref' = [xref EXCEPT ![x] = NoOne]

Fault == faults < MaxFaults /\ faults' = faults + 1

Init ==
    /\ store = {}
    /\ row = [e \in Exports |-> "absent"]
    /\ blobLock = [d \in Digests |-> NoOne]
    /\ tenantLock = [t \in Tenants |-> NoOne]
    /\ wpc = [e \in Exports |-> "idle"]
    /\ status = [r \in Requests |-> "none"]
    /\ scope = [r \in Requests |-> {}]
    /\ inventoried = [r \in Requests |-> {}]
    /\ items = [r \in Requests |-> [f \in Refs |-> "none"]]
    /\ xpc = [x \in Executors |-> "idle"]
    /\ xreq = [x \in Executors |-> NoOne]
    /\ xkeep = [x \in Executors |-> {}]
    /\ xtodo = [x \in Executors |-> {}]
    /\ xref = [x \in Executors |-> NoOne]
    /\ loose = {}
    /\ faults = 0

-----------------------------------------------------------------------------
(***************************************************************************)
(* Registrars.                                                             *)
(***************************************************************************)

\* Bytes go to the store before any transaction: publish_staged for an
\* archive that has no export row yet, build_initial_plan for artifacts, and
\* ReparseService::apply for an imported export, which first asks whether the
\* tenant has a deletion that is not completed (privacy_blocked).
StoreBytes(e) ==
    /\ wpc[e] = "idle"
    /\ row[e] # "deleted"
    /\ row[e] = "absent" => SameArchive(e) = {}
    /\ row[e] = "imported" => ~PrivacyBlocked(Owner[e])
    /\ store' = store \cup WantedDigests(e)
    /\ loose' = loose \cup WantedDigests(e)
    /\ wpc' = [wpc EXCEPT ![e] = "stored"]
    /\ UNCHANGED <<rowVars, lockVars, execVars, faults>>

\* publish_export: the account upsert keeps the account row locked until the
\* end of the transaction, so publishers of one account follow each other.
\* No tenant lock is taken.  An existing export of the same bytes ends it.
BeginPublish(e) ==
    /\ wpc[e] = "stored" /\ row[e] = "absent"
    /\ \A o \in Exports : Owner[o] = Owner[e] /\ row[o] = "absent"
                             => wpc[o] \notin {"locking", "proved"}
    /\ wpc' = [wpc EXCEPT ![e] = IF SameArchive(e) = {} THEN "locking" ELSE "idle"]
    /\ UNCHANGED <<store, rowVars, lockVars, execVars, loose, faults>>

\* The import (or reparse) transaction takes the tenant lock first.
BeginImport(e) ==
    /\ wpc[e] = "stored" /\ row[e] \in {"raw", "imported"}
    /\ tenantLock[Owner[e]] = NoOne
    /\ tenantLock' = [tenantLock EXCEPT ![Owner[e]] = e]
    /\ wpc' = [wpc EXCEPT ![e] = "locking"]
    /\ UNCHANGED <<store, rowVars, blobLock, execVars, loose, faults>>

\* It ends without effect when its rows are gone by then.
ImportRowsGone(e) ==
    /\ wpc[e] = "stored" /\ row[e] = "deleted"
    /\ tenantLock[Owner[e]] = NoOne
    /\ wpc' = [wpc EXCEPT ![e] = "idle"]
    /\ UNCHANGED <<store, rowVars, lockVars, execVars, loose, faults>>

\* Mutant: the digests are locked in any order.
LockDigestUnordered(e) ==
    /\ wpc[e] = "locking"
    /\ \E d \in WantedDigests(e) \ HeldBy(e) :
          /\ blobLock[d] = NoOne
          /\ blobLock' = [blobLock EXCEPT ![d] = e]
    /\ UNCHANGED <<store, rowVars, tenantLock, wpc, execVars, loose, faults>>

\* register_blobs, first loop: digest locks in ascending order.
LockDigest(e) ==
    /\ wpc[e] = "locking"
    /\ \E d \in WantedDigests(e) \ HeldBy(e) :
          /\ \A o \in WantedDigests(e) \ HeldBy(e) : d <= o
          /\ blobLock[d] = NoOne
          /\ blobLock' = [blobLock EXCEPT ![d] = e]
    /\ UNCHANGED <<store, rowVars, tenantLock, wpc, execVars, loose, faults>>

\* Mutant: the registrar trusts the bytes it stored before the transaction.
ProveBlobsUnseen(e) ==
    /\ wpc[e] = "locking"
    /\ WantedDigests(e) \subseteq HeldBy(e)
    /\ wpc' = [wpc EXCEPT ![e] = "proved"]
    /\ UNCHANGED <<store, rowVars, lockVars, execVars, loose, faults>>

\* register_blobs, second loop: every blob is present or stored again from
\* the bytes the registrar still holds.
ProveBlobs(e) ==
    /\ wpc[e] = "locking"
    /\ WantedDigests(e) \subseteq HeldBy(e)
    /\ store' = store \cup WantedDigests(e)
    /\ loose' = loose \cup WantedDigests(e)
    /\ wpc' = [wpc EXCEPT ![e] = "proved"]
    /\ UNCHANGED <<rowVars, lockVars, execVars, faults>>

CommitRows(e) ==
    /\ wpc[e] = "proved"
    /\ row' = [row EXCEPT ![e] = IF row[e] = "absent" THEN "raw" ELSE "imported"]
    /\ loose' = loose \ WantedDigests(e)
    /\ wpc' = [wpc EXCEPT ![e] = "idle"]
    /\ ReleaseAll(e)
    /\ UNCHANGED <<store, status, scope, inventoried, items, execVars, faults>>

\* A crash, a database error or RegistrationError::Unavailable: the
\* transaction rolls back and the stored bytes stay behind.
AbortRegistration(e) ==
    /\ wpc[e] # "idle"
    /\ Fault
    /\ wpc' = [wpc EXCEPT ![e] = "idle"]
    /\ ReleaseAll(e)
    /\ UNCHANGED <<store, rowVars, execVars, loose>>

-----------------------------------------------------------------------------
(***************************************************************************)
(* Privacy deletion.                                                       *)
(***************************************************************************)

\* plan: under the tenant lock, the inventory lists every blob reference of
\* the selected exports.
PlanDeletion(r) ==
    /\ status[r] = "none"
    /\ tenantLock[RequestTenant[r]] = NoOne
    /\ \E S \in SUBSET {e \in Live : Owner[e] = RequestTenant[r]} :
          /\ S # {}
          /\ scope' = [scope EXCEPT ![r] = S]
          /\ inventoried' = [inventoried EXCEPT ![r] = {e \in S : row[e] = "imported"}]
          /\ items' = [items EXCEPT ![r] =
                          [f \in Refs |-> IF Referenced(f, S) THEN "listed" ELSE "none"]]
    /\ status' = [status EXCEPT ![r] = "planned"]
    /\ UNCHANGED <<store, row, lockVars, wpc, execVars, loose, faults>>

\* Mutant: only a planned request is executed.
StartExecutionPlanned(x, r) ==
    /\ xpc[x] = "idle"
    /\ status[r] = "planned"
    /\ xreq' = [xreq EXCEPT ![x] = r]
    /\ xpc' = [xpc EXCEPT ![x] = "rows"]
    /\ UNCHANGED <<store, rowVars, lockVars, wpc, xkeep, xtodo, xref, loose, faults>>

\* execute: the durable status read here chooses the phase.
StartExecution(x, r) ==
    /\ xpc[x] = "idle"
    /\ status[r] \in {"planned", "purging"}
    /\ xreq' = [xreq EXCEPT ![x] = r]
    /\ xpc' = [xpc EXCEPT ![x] = IF status[r] = "planned" THEN "rows" ELSE "listing"]
    /\ UNCHANGED <<store, rowVars, lockVars, wpc, xkeep, xtodo, xref, loose, faults>>

\* The completeness report an import adds after planning is not in the
\* inventory, and its foreign key refuses the deletion of the import run.
InventoryStale(r) == \E e \in scope[r] : row[e] = "imported" /\ e \notin inventoried[r]

\* remove_rows up to the deletes: tenant lock, status re-read, row deletion.
BeginRemoveRows(x) ==
    LET r == xreq[x]  t == RequestTenant[xreq[x]] IN
    /\ xpc[x] = "rows"
    /\ tenantLock[t] = NoOne
    /\ status[r] = "planned" /\ ~InventoryStale(r)
    /\ tenantLock' = [tenantLock EXCEPT ![t] = x]
    /\ xpc' = [xpc EXCEPT ![x] = "removing"]
    /\ UNCHANGED <<store, rowVars, blobLock, wpc, xreq, xkeep, xtodo, xref, loose, faults>>

\* remove_rows returns at once when another executor already removed the rows.
RowsAlreadyRemoved(x) ==
    /\ xpc[x] = "rows"
    /\ tenantLock[RequestTenant[xreq[x]]] = NoOne
    /\ status[xreq[x]] # "planned"
    /\ xpc' = [xpc EXCEPT ![x] = "listing"]
    /\ UNCHANGED <<store, rowVars, lockVars, wpc, xreq, xkeep, xtodo, xref, loose, faults>>

\* The foreign key refuses the deletes: the transaction rolls back and the
\* execution fails.
RemoveRowsRefused(x) ==
    /\ xpc[x] = "rows"
    /\ tenantLock[RequestTenant[xreq[x]]] = NoOne
    /\ status[xreq[x]] = "planned" /\ InventoryStale(xreq[x])
    /\ Forget(x)
    /\ UNCHANGED <<store, rowVars, lockVars, wpc, loose, faults>>

\* Mutant: sharing is decided before the rows are deleted.
RecomputeBeforeDeletes(x) ==
    /\ xpc[x] = "removing"
    /\ xkeep' = [xkeep EXCEPT ![x] = {f \in Refs : Referenced(f, Live)}]
    /\ xpc' = [xpc EXCEPT ![x] = "decided"]
    /\ UNCHANGED <<store, rowVars, lockVars, wpc, xreq, xtodo, xref, loose, faults>>

\* recompute_blob_sharing: the transaction sees its own deletes and, of the
\* other transactions, only what has committed.  No digest lock is held.
RecomputeBlobSharing(x) ==
    /\ xpc[x] = "removing"
    /\ xkeep' = [xkeep EXCEPT ![x] =
                    {f \in Refs : Referenced(f, Live \ scope[xreq[x]])}]
    /\ xpc' = [xpc EXCEPT ![x] = "decided"]
    /\ UNCHANGED <<store, rowVars, lockVars, wpc, xreq, xtodo, xref, loose, faults>>

CommitRemoveRows(x) ==
    LET r == xreq[x] IN
    /\ xpc[x] = "decided"
    /\ row' = [e \in Exports |-> IF e \in scope[r] THEN "deleted" ELSE row[e]]
    /\ items' = [items EXCEPT ![r] =
                    [f \in Refs |-> IF items[r][f] \in {"none", "purged"} THEN items[r][f]
                                   ELSE IF f \in xkeep[x] THEN "retained" ELSE "erase"]]
    /\ status' = [status EXCEPT ![r] = "purging"]
    /\ xpc' = [xpc EXCEPT ![x] = "listing"]
    /\ xkeep' = [xkeep EXCEPT ![x] = {}]
    /\ ReleaseAll(x)
    /\ UNCHANGED <<store, scope, inventoried, wpc, xreq, xtodo, xref, loose, faults>>

\* erase_listed_blobs reads its work list outside any transaction.
ListItems(x) ==
    /\ xpc[x] = "listing"
    /\ xtodo' = [xtodo EXCEPT ![x] = {f \in Refs : items[xreq[x]][f] = "erase"}]
    /\ xpc' = [xpc EXCEPT ![x] = "visiting"]
    /\ UNCHANGED <<store, rowVars, lockVars, wpc, xreq, xkeep, xref, loose, faults>>

\* One transaction per item: tenant lock, then digest lock.
VisitItem(x) ==
    LET t == RequestTenant[xreq[x]] IN
    /\ xpc[x] = "visiting"
    /\ tenantLock[t] = NoOne
    /\ \E f \in xtodo[x] : xref' = [xref EXCEPT ![x] = f]
    /\ tenantLock' = [tenantLock EXCEPT ![t] = x]
    /\ xpc' = [xpc EXCEPT ![x] = "tenant"]
    /\ UNCHANGED <<store, rowVars, blobLock, wpc, xreq, xkeep, xtodo, loose, faults>>

LockItem(x) ==
    LET d == DigestOf[xref[x]] IN
    /\ xpc[x] = "tenant"
    /\ blobLock[d] = NoOne
    /\ blobLock' = [blobLock EXCEPT ![d] = x]
    /\ xpc' = [xpc EXCEPT ![x] = "locked"]
    /\ UNCHANGED <<store, rowVars, tenantLock, wpc, xreq, xkeep, xtodo, xref, loose, faults>>

\* set_item_state updates nothing once a completion has dropped the items.
SetItemState(x, state) ==
    items' = [items EXCEPT ![xreq[x]][xref[x]] = IF @ = "none" THEN "none" ELSE state]

EndVisit(x) ==
    /\ xtodo' = [xtodo EXCEPT ![x] = @ \ {xref[x]}]
    /\ xref' = [xref EXCEPT ![x] = NoOne]
    /\ xpc' = [xpc EXCEPT ![x] = "visiting"]
    /\ ReleaseAll(x)

\* The re-check under the digest lock found a reference: the blob is kept.
KeepItem(x) ==
    /\ xpc[x] = "locked"
    /\ Referenced(xref[x], Live)
    /\ SetItemState(x, "retained")
    /\ EndVisit(x)
    /\ UNCHANGED <<store, row, status, scope, inventoried, wpc, xreq, xkeep, loose, faults>>

\* The re-check found none: the file may go.
ClearItem(x) ==
    /\ xpc[x] = "locked"
    /\ ~Referenced(xref[x], Live)
    /\ xpc' = [xpc EXCEPT ![x] = "cleared"]
    /\ UNCHANGED <<store, rowVars, lockVars, wpc, xreq, xkeep, xtodo, xref, loose, faults>>

EraseBytes(x) ==
    /\ xpc[x] = "cleared"
    /\ store' = store \ {DigestOf[xref[x]]}
    /\ loose' = loose \ {DigestOf[xref[x]]}
    /\ xpc' = [xpc EXCEPT ![x] = "erased"]
    /\ UNCHANGED <<rowVars, lockVars, wpc, xreq, xkeep, xtodo, xref, faults>>

\* Mutant: an item state the schema does not know.
CommitEraseMisspelt(x) ==
    /\ xpc[x] = "erased"
    /\ SetItemState(x, "erased")
    /\ EndVisit(x)
    /\ UNCHANGED <<store, row, status, scope, inventoried, wpc, xreq, xkeep, loose, faults>>

CommitErase(x) ==
    /\ xpc[x] = "erased"
    /\ SetItemState(x, "purged")
    /\ EndVisit(x)
    /\ UNCHANGED <<store, row, status, scope, inventoried, wpc, xreq, xkeep, loose, faults>>

\* Mutant: completion does not wait for the items.
CompleteEarly(x) ==
    LET r == xreq[x] IN
    /\ xpc[x] = "visiting"
    /\ tenantLock[RequestTenant[r]] = NoOne
    /\ status' = [status EXCEPT ![r] = "completed"]
    /\ items' = [items EXCEPT ![r] = [f \in Refs |-> "none"]]
    /\ scope' = [scope EXCEPT ![r] = {}]
    /\ inventoried' = [inventoried EXCEPT ![r] = {}]
    /\ Forget(x)
    /\ UNCHANGED <<store, row, lockVars, wpc, loose, faults>>

\* complete: audit, status and the drop of the items (scope and inventory are
\* items too) in one transaction.  A request that another executor completed
\* is left as it is, which is the same state.
CompleteRequest(x) ==
    LET r == xreq[x] IN
    /\ xpc[x] = "visiting"
    /\ xtodo[x] = {}
    /\ tenantLock[RequestTenant[r]] = NoOne
    /\ status' = [status EXCEPT ![r] = "completed"]
    /\ items' = [items EXCEPT ![r] = [f \in Refs |-> "none"]]
    /\ scope' = [scope EXCEPT ![r] = {}]
    /\ inventoried' = [inventoried EXCEPT ![r] = {}]
    /\ Forget(x)
    /\ UNCHANGED <<store, row, lockVars, wpc, loose, faults>>

\* The executor dies or its transaction fails: locks go, committed state stays.
CrashExecutor(x) ==
    /\ xpc[x] \notin {"idle", "unguarded"}
    /\ Fault
    /\ Forget(x)
    /\ ReleaseAll(x)
    /\ UNCHANGED <<store, rowVars, wpc, loose>>

\* The database session ends between the re-check and the file removal: the
\* server releases the locks and the process goes on.
LoseSession(x) ==
    /\ SessionLoss
    /\ xpc[x] = "cleared"
    /\ Fault
    /\ xpc' = [xpc EXCEPT ![x] = "unguarded"]
    /\ ReleaseAll(x)
    /\ UNCHANGED <<store, rowVars, wpc, xreq, xkeep, xtodo, xref, loose>>

\* It removes the file without its locks; its commit then fails.
EraseUnguarded(x) ==
    /\ xpc[x] = "unguarded"
    /\ store' = store \ {DigestOf[xref[x]]}
    /\ loose' = loose \ {DigestOf[xref[x]]}
    /\ Forget(x)
    /\ UNCHANGED <<rowVars, lockVars, wpc, faults>>

-----------------------------------------------------------------------------
RegistrarStep(e) ==
    \/ StoreBytes(e) \/ BeginPublish(e) \/ BeginImport(e) \/ ImportRowsGone(e)
    \/ LockDigest(e) \/ ProveBlobs(e) \/ CommitRows(e)

ExecutorStep(x) ==
    \/ BeginRemoveRows(x) \/ RowsAlreadyRemoved(x) \/ RemoveRowsRefused(x)
    \/ RecomputeBlobSharing(x) \/ CommitRemoveRows(x)
    \/ ListItems(x) \/ VisitItem(x) \/ LockItem(x) \/ KeepItem(x) \/ ClearItem(x)
    \/ EraseBytes(x) \/ CommitErase(x) \/ CompleteRequest(x) \/ EraseUnguarded(x)

Next ==
    \/ \E e \in Exports : RegistrarStep(e) \/ AbortRegistration(e)
    \/ \E r \in Requests : PlanDeletion(r)
    \/ \E x \in Executors, r \in Requests : StartExecution(x, r)
    \/ \E x \in Executors : ExecutorStep(x) \/ CrashExecutor(x) \/ LoseSession(x)

Spec == Init /\ [][Next]_vars

(***************************************************************************)
(* Advisory locks queue their waiters, so a process that waits for a lock  *)
(* again and again gets it: strong fairness of every step of a registrar   *)
(* that has begun and of every executor.  The operator starts a request    *)
(* that is not completed again: fairness of StartExecution.                *)
(***************************************************************************)
Fairness ==
    /\ \A e \in Exports :
          SF_vars(BeginPublish(e) \/ BeginImport(e) \/ ImportRowsGone(e)
                     \/ LockDigest(e) \/ ProveBlobs(e) \/ CommitRows(e))
    /\ \A x \in Executors : SF_vars(ExecutorStep(x))
    /\ \A r \in Requests : SF_vars(\E x \in Executors : StartExecution(x, r))

FairSpec == Spec /\ Fairness

-----------------------------------------------------------------------------
TypeOK ==
    /\ store \subseteq Digests
    /\ row \in [Exports -> RowStates]
    /\ blobLock \in [Digests -> Exports \cup Executors \cup {NoOne}]
    /\ tenantLock \in [Tenants -> Exports \cup Executors \cup {NoOne}]
    /\ wpc \in [Exports -> RegistrarStates]
    /\ status \in [Requests -> {"none", "planned", "purging", "completed"}]
    /\ scope \in [Requests -> SUBSET Exports]
    /\ inventoried \in [Requests -> SUBSET Exports]
    /\ items \in [Requests -> [Refs -> ItemStates]]
    /\ xpc \in [Executors -> ExecutorStates]
    /\ xreq \in [Executors -> Requests \cup {NoOne}]
    /\ xkeep \in [Executors -> SUBSET Refs]
    /\ xtodo \in [Executors -> SUBSET Refs]
    /\ xref \in [Executors -> Refs \cup {NoOne}]
    /\ loose \subseteq Digests
    /\ faults \in 0..MaxFaults

\* "No committed row references a missing blob", the invariant the module
\* comment of blob_protocol.rs states for every commit point.
NoRowReferencesMissingBlob ==
    \A e \in Exports : \A f \in RowRefs(e) : DigestOf[f] \in store

\* "Every blob not yet erased is listed in a durable item" (rows.rs): bytes
\* that a committed row once referenced are referenced by a row, or wait in an
\* item of a request that is not completed.  Bytes stored for a registration
\* that has not committed are outside the promise.
UnerasedBlobsAreAccounted ==
    \A d \in store \ loose :
        \/ \E e \in Live : \E f \in RowRefs(e) : DigestOf[f] = d
        \/ \E r \in Requests : \E f \in Refs :
              DigestOf[f] = d /\ items[r][f] \in {"listed", "erase"}

\* A deletion whose rows are gone finishes, whatever crashes on the way
\* ("a crash at any point converges when the request is executed again").
PurgingConverges ==
    \A r \in Requests : status[r] = "purging" ~> status[r] = "completed"

\* Lock order: a registration that holds or waits for locks ends, also while
\* registrations of other tenants want the same digests.
RegistrationEnds ==
    \A e \in Exports : wpc[e] = "locking" ~> wpc[e] = "idle"
=============================================================================
