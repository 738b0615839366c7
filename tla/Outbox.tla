-------------------------------- MODULE Outbox --------------------------------
(***************************************************************************)
(* The transactional outbox: one pump publishes rows to JetStream, privacy *)
(* deletions drop fact rows and queue tombstones and erasure commands,     *)
(* Knowledge acknowledges tombstones and Edge erases stream copies.        *)
(*                                                                         *)
(* Rows are the numbers the identity column gives them.  The events stream *)
(* is a function from sequences to the fact row whose copy it holds.  Only *)
(* fact copies have sequences here, because only their sequences are used. *)
(***************************************************************************)
EXTENDS Integers

CONSTANTS
    Facts, Tombs, Commands,  \* ids of content-bearing facts, tombstones, erasure commands
    Deletions,    \* privacy deletions
    ScopeOf,      \* ScopeOf[d]: the facts bound to the exports d removes
    TombOf,       \* TombOf[d]: the tombstone row d inserts
    CommandOf,    \* CommandOf[d]: the command row d may insert
    RescueOf,     \* RescueOf[f]: the command row the pump may insert for fact f
    TooLarge,     \* rows larger than the broker accepts
    MaxCopies,    \* bound on the number of fact copies the stream ever holds
    MaxFaults,    \* bound on failures of the database, the broker and the process
    AckLoss,      \* may the broker store a message whose acknowledgement is lost
    SessionLoss,  \* may the pump lose the session that holds its row lock
    Crashing,     \* may the process crash
    Expiring      \* may a message leave the broker's duplicate window

Rows == Facts \cup Tombs \cup Commands
Seqs == 1..MaxCopies

ASSUME OutboxConstants ==
    /\ Rows \subseteq Nat \ {0}
    /\ Facts \cap Tombs = {} /\ Facts \cap Commands = {} /\ Tombs \cap Commands = {}
    /\ ScopeOf \in [Deletions -> SUBSET Facts]
    /\ TombOf \in [Deletions -> Tombs]
    /\ CommandOf \in [Deletions -> Commands]
    /\ RescueOf \in [Facts -> Commands]
    /\ TooLarge \subseteq Rows
    /\ MaxCopies \in Nat /\ MaxFaults \in Nat
    /\ AckLoss \in BOOLEAN /\ SessionLoss \in BOOLEAN
    /\ Crashing \in BOOLEAN /\ Expiring \in BOOLEAN

\* A command row belongs to one deletion or to the event of one fact, by the
\* deduplication key it is inserted under.
ASSUME CommandsAreOwn ==
    /\ \A d, e \in Deletions : CommandOf[d] = CommandOf[e] => d = e
    /\ \A f, g \in Facts : RescueOf[f] = RescueOf[g] => f = g
    /\ \A d \in Deletions : \A f \in Facts : CommandOf[d] # RescueOf[f]

VARIABLES
    row,       \* row[i]: delivery state of outbox row i
    seqs,      \* seqs[f]: published_stream_seqs
    names,     \* names[c]: the sequences command c names
    acked,     \* tombstones with acknowledged_at
    deleted,   \* deletions that have committed
    ppc,       \* program counter of the pump
    first,     \* candidates of this pass for a first publication
    again,     \* candidates of this pass for a resend
    cur,       \* the row being published, 0 for none
    held,      \* the row whose lock the pump's transaction holds, 0 for none
    got,       \* the acknowledged sequence, 0 for none
    carry,     \* carry[f]: acknowledged sequences whose commit has not landed
    stream,    \* stream[s]: the fact whose copy sequence s holds, 0 for none
    len,       \* the last sequence
    window,    \* window[f]: the sequence the duplicate window remembers for f, or 0
    bus,       \* tombstones and commands that wait for their consumer
    consumed,  \* tombstones Knowledge has applied or refused
    orphans,   \* history: copies whose PubAck was lost or whose carry died with the process
    faults     \* number of failures so far

table == <<row, seqs, names, acked, deleted>>
pass == <<first, again, cur, held, got>>
broker == <<stream, len, window, bus>>
vars == <<row, seqs, names, acked, deleted, ppc, first, again, cur, held, got,
          carry, stream, len, window, bus, consumed, orphans, faults>>

RowStates == {"absent", "pending", "published", "undeliverable", "dropped"}

CopiesOf(f) == {s \in Seqs : stream[s] = f}

Named == UNION {names[c] : c \in Commands}

Carried == UNION {carry[f] : f \in Facts}

Fault == faults < MaxFaults /\ faults' = faults + 1

Init ==
    /\ row = [i \in Rows |-> "absent"]
    /\ seqs = [f \in Facts |-> {}]
    /\ names = [c \in Commands |-> {}]
    /\ acked = {} /\ deleted = {}
    /\ ppc = "idle"
    /\ first = {} /\ again = {} /\ cur = 0 /\ held = 0 /\ got = 0
    /\ carry = [f \in Facts |-> {}]
    /\ stream = [s \in Seqs |-> 0]
    /\ len = 0
    /\ window = [f \in Facts |-> 0]
    /\ bus = {} /\ consumed = {} /\ orphans = {}
    /\ faults = 0

-----------------------------------------------------------------------------
(***************************************************************************)
(* The writers of the outbox.                                              *)
(***************************************************************************)

\* An import enqueues a fact; the facts of a deleted export cannot come.
EnqueueFact(f) ==
    /\ row[f] = "absent"
    /\ \A d \in deleted : f \notin ScopeOf[d]
    /\ row' = [row EXCEPT ![f] = "pending"]
    /\ UNCHANGED <<seqs, names, acked, deleted, ppc, pass, carry, broker, consumed, orphans, faults>>

\* Mutant: unacknowledged tombstones go with the tenant's rows.
SpentUnacknowledged == {i \in Tombs \cup Commands : row[i] = "published"}

\* Rows a tenant deletion takes along, as far as its plan has listed them:
\* acknowledged tombstones and published commands.  The others are the only
\* record of what is still owed.
Spent == {t \in Tombs : t \in acked} \cup {c \in Commands : row[c] = "published"}

\* remove_rows as far as the outbox is concerned: the published sequences come
\* from the statement that deletes the rows, which waits for the pump's lock.
Delete(d) ==
    LET scope == {f \in ScopeOf[d] : row[f] # "absent"}
        found == UNION {seqs[f] : f \in scope}
    IN
    /\ d \notin deleted
    /\ scope # {}
    /\ held \notin scope
    /\ \E spent \in SUBSET Spent :
          row' = [i \in Rows |->
                     IF i \in scope \cup spent THEN "dropped"
                     ELSE IF i = TombOf[d] \/ (i = CommandOf[d] /\ found # {}) THEN "pending"
                     ELSE row[i]]
    /\ seqs' = [f \in Facts |-> IF f \in scope THEN {} ELSE seqs[f]]
    /\ names' = [names EXCEPT ![CommandOf[d]] = found]
    /\ deleted' = deleted \cup {d}
    /\ UNCHANGED <<acked, ppc, pass, carry, broker, consumed, orphans, faults>>

-----------------------------------------------------------------------------
(***************************************************************************)
(* One pass of the pump.                                                   *)
(***************************************************************************)
BeginPass ==
    /\ ppc = "idle"
    /\ ppc' = "reconcile"
    /\ UNCHANGED <<table, pass, carry, broker, consumed, orphans, faults>>

\* A database error, or a connection that cannot be opened, ends the pass.
AbandonPass ==
    /\ cur' = 0 /\ held' = 0 /\ got' = 0
    /\ first' = {} /\ again' = {}
    /\ ppc' = "idle"

PassFails ==
    /\ ppc \in {"reconcile", "next"}
    /\ Fault
    /\ AbandonPass
    /\ UNCHANGED <<table, carry, broker, consumed, orphans>>

\* Mutant: an orphaned copy is only logged.
EnqueueRescueLogged(f) == carry[f] # {} /\ UNCHANGED table

\* enqueue_owner_erasure under the deduplication key of f's event: a command
\* of the same event that is still in the table stays as it is.
EnqueueRescue(f) ==
    LET c == RescueOf[f]
        free == row[c] \in {"absent", "dropped"}
    IN
    /\ row' = [row EXCEPT ![c] = IF free THEN "pending" ELSE @]
    /\ names' = [names EXCEPT ![c] = IF free THEN carry[f] ELSE @]
    /\ UNCHANGED <<seqs, acked, deleted>>

\* reconcile_carried: a carried copy whose row is gone becomes a command.
Reconcile(f) ==
    /\ ppc = "reconcile"
    /\ carry[f] # {} /\ row[f] = "dropped"
    /\ EnqueueRescue(f)
    /\ carry' = [carry EXCEPT ![f] = {}]
    /\ UNCHANGED <<ppc, pass, broker, consumed, orphans, faults>>

\* The command's commit lands and its confirmation is lost: the entry stays.
ReconcileUnconfirmed(f) ==
    /\ ppc = "reconcile"
    /\ carry[f] # {} /\ row[f] = "dropped"
    /\ Fault
    /\ EnqueueRescue(f)
    /\ AbandonPass
    /\ UNCHANGED <<carry, broker, consumed, orphans>>

Unpublished == {i \in Rows : row[i] = "pending"}
\* Mutants: any published row is resent; no row is.
UnacknowledgedAnyType == {i \in Rows \ acked : row[i] = "published"}
UnacknowledgedNever == {t \in Tombs \ acked : row[t] = "resend"}

Unacknowledged == {t \in Tombs \ acked : row[t] = "published"}

\* pending_rows, without a lock.  The backoffs are times: any part of the
\* eligible rows may be due.
SelectBatch(batch) ==
    /\ ppc = "reconcile"
    /\ \A f \in Facts : carry[f] = {} \/ row[f] # "dropped"
    /\ first' = batch \cap Unpublished
    /\ again' = batch \cap Unacknowledged
    /\ ppc' = "next"
    /\ UNCHANGED <<table, cur, held, got, carry, broker, consumed, orphans, faults>>

\* Candidates in id order.
Candidate(i) == ppc = "next" /\ i \in first \cup again /\ \A j \in first \cup again : i <= j

EndPass ==
    /\ ppc = "next" /\ first \cup again = {}
    /\ ppc' = "idle"
    /\ UNCHANGED <<table, pass, carry, broker, consumed, orphans, faults>>

Undeliverable(i) ==
    /\ Candidate(i) /\ i \in TooLarge
    /\ row' = [row EXCEPT ![i] = IF @ = "pending" THEN "undeliverable" ELSE @]
    /\ first' = first \ {i} /\ again' = again \ {i}
    /\ UNCHANGED <<seqs, names, acked, deleted, ppc, cur, held, got, carry, broker,
                   consumed, orphans, faults>>

\* Mutant: the lock does not check that the row is still there.
LockRowStale(i) ==
    /\ Candidate(i) /\ i \in first \ TooLarge
    /\ ppc' = "locked"
    /\ cur' = i /\ held' = i
    /\ UNCHANGED <<table, first, again, got, carry, broker, consumed, orphans, faults>>

\* publish_locked: FOR UPDATE SKIP LOCKED.
LockRow(i) ==
    /\ Candidate(i) /\ i \in first \ TooLarge
    /\ row[i] = "pending"
    /\ ppc' = "locked"
    /\ cur' = i /\ held' = i
    /\ UNCHANGED <<table, first, again, got, carry, broker, consumed, orphans, faults>>

\* The row is gone or published, or a deletion in progress holds its lock.
SkipRow(i) ==
    /\ Candidate(i) /\ i \in first \ TooLarge
    /\ row[i] # "pending" \/ \E d \in Deletions \ deleted : i \in ScopeOf[d]
    /\ first' = first \ {i}
    /\ UNCHANGED <<table, ppc, again, cur, held, got, carry, broker, consumed, orphans, faults>>

\* The broker stores a message unless its duplicate window knows the id; the
\* acknowledgement carries the sequence of the copy it holds.
StoreCopy(i) ==
    IF i \in Facts /\ window[i] = 0
    THEN /\ len < MaxCopies
         /\ len' = len + 1
         /\ stream' = [stream EXCEPT ![len + 1] = i]
         /\ window' = [window EXCEPT ![i] = len + 1]
         /\ UNCHANGED bus
    ELSE /\ bus' = bus \cup ({i} \ Facts)
         /\ UNCHANGED <<stream, len, window>>

Copy(i) == IF i \in Facts THEN window'[i] ELSE 0

\* The PubAck arrives; facts remember its sequence in the carry.
PublishAcked ==
    /\ ppc = "locked"
    /\ StoreCopy(cur)
    /\ got' = Copy(cur)
    /\ carry' = [f \in Facts |-> IF f = cur THEN carry[f] \cup {Copy(cur)} ELSE carry[f]]
    /\ orphans' = orphans \ {Copy(cur)}
    /\ ppc' = "acked"
    /\ UNCHANGED <<table, first, again, cur, held, consumed, faults>>

Release(batch) ==
    /\ cur' = 0 /\ held' = 0 /\ got' = 0
    /\ first' = batch
    /\ UNCHANGED again

\* The broker refuses the message or cannot be reached: rollback and backoff.
PublishRefused ==
    /\ ppc = "locked"
    /\ Fault
    /\ Release(first \ {cur})
    /\ ppc' = "next"
    /\ UNCHANGED <<table, carry, broker, consumed, orphans>>

\* The broker stores the message and the PubAck does not arrive in time.
PublishAckLost ==
    /\ AckLoss
    /\ ppc = "locked"
    /\ Fault
    /\ StoreCopy(cur)
    /\ orphans' = orphans \cup ({Copy(cur)} \ ({0} \cup Carried))
    /\ Release(first \ {cur})
    /\ ppc' = "next"
    /\ UNCHANGED <<table, carry, consumed>>

\* Mutant: only the last acknowledgement is recorded.
MarkedLastOnly ==
    /\ row' = [row EXCEPT ![cur] = "published"]
    /\ seqs' = [f \in Facts |-> IF f = cur THEN {got} ELSE seqs[f]]
    /\ UNCHANGED <<names, acked, deleted>>

\* mark_published: this sequence and the carried ones join the recorded ones.
Marked ==
    /\ row' = [row EXCEPT ![cur] = "published"]
    /\ seqs' = [f \in Facts |-> IF f = cur THEN seqs[f] \cup carry[f] \cup {got} ELSE seqs[f]]
    /\ UNCHANGED <<names, acked, deleted>>

CommitMark ==
    /\ ppc = "acked" /\ held = cur
    /\ Marked
    /\ carry' = [f \in Facts |-> IF f = cur THEN {} ELSE carry[f]]
    /\ Release(first \ {cur})
    /\ ppc' = "next"
    /\ UNCHANGED <<broker, consumed, orphans, faults>>

\* Mutant: a failed commit forgets the acknowledged sequence.
CommitFailsForgets ==
    /\ ppc = "acked" /\ held = cur
    /\ Fault
    /\ AbandonPass
    /\ carry' = [f \in Facts |-> IF f = cur THEN {} ELSE carry[f]]
    /\ UNCHANGED <<table, broker, consumed, orphans>>

\* The commit fails: the row stays pending, the carry keeps the sequence and
\* the database error ends the pass.
CommitFails ==
    /\ ppc = "acked" /\ held = cur
    /\ Fault
    /\ AbandonPass
    /\ UNCHANGED <<table, carry, broker, consumed, orphans>>

\* The commit lands and its confirmation is lost: the carry is not forgotten.
CommitUnconfirmed ==
    /\ ppc = "acked" /\ held = cur
    /\ Fault
    /\ Marked
    /\ AbandonPass
    /\ UNCHANGED <<carry, broker, consumed, orphans>>

\* The session that holds the row lock ends; the publication goes on.
LoseSession ==
    /\ SessionLoss
    /\ ppc \in {"locked", "acked"} /\ held # 0
    /\ Fault
    /\ held' = 0
    /\ UNCHANGED <<table, ppc, first, again, cur, got, carry, broker, consumed, orphans>>

\* Its mark then fails.
MarkWithoutSession ==
    /\ ppc = "acked" /\ held # cur
    /\ AbandonPass
    /\ UNCHANGED <<table, carry, broker, consumed, orphans, faults>>

\* publish_again: no lock, no sequence, the row as it was when chosen.
PublishAgain(t) ==
    /\ Candidate(t) /\ t \in again \ TooLarge
    /\ StoreCopy(t)
    /\ again' = again \ {t}
    /\ UNCHANGED <<table, ppc, first, cur, held, got, carry, consumed, orphans, faults>>

PublishAgainFails(t) ==
    /\ Candidate(t) /\ t \in again \ TooLarge
    /\ Fault
    /\ again' = again \ {t}
    /\ UNCHANGED <<table, ppc, first, cur, held, got, carry, broker, consumed, orphans>>

\* The process dies: the carry is memory.
Crash ==
    /\ Crashing
    /\ Fault
    /\ AbandonPass
    /\ carry' = [f \in Facts |-> {}]
    /\ orphans' = orphans \cup UNION {carry[f] \ seqs[f] : f \in Facts}
    /\ UNCHANGED <<table, broker, consumed>>

-----------------------------------------------------------------------------
(***************************************************************************)
(* The broker, Knowledge and Edge.                                         *)
(***************************************************************************)
ExpireWindow(f) ==
    /\ Expiring
    /\ window[f] # 0
    /\ window' = [window EXCEPT ![f] = 0]
    /\ UNCHANGED <<table, ppc, pass, carry, stream, len, bus, consumed, orphans, faults>>

\* The stream drops its oldest message before Knowledge has seen it.
AgeOut(t) ==
    /\ t \in bus \cap Tombs
    /\ Fault
    /\ bus' = bus \ {t}
    /\ UNCHANGED <<table, ppc, pass, carry, stream, len, window, consumed, orphans>>

Consume(t) ==
    /\ t \in bus \cap Tombs
    /\ consumed' = consumed \cup {t}
    /\ bus' = bus \ {t}
    /\ UNCHANGED <<table, ppc, pass, carry, stream, len, window, orphans, faults>>

\* acknowledge: waits for the pump's row lock; sets published_at when the row
\* has none.
Acknowledge(t) ==
    /\ t \in consumed \ acked
    /\ row[t] \in {"pending", "published", "undeliverable"}
    /\ held # t
    /\ acked' = acked \cup {t}
    /\ row' = [row EXCEPT ![t] = IF @ = "pending" THEN "published" ELSE @]
    /\ UNCHANGED <<seqs, names, deleted, ppc, pass, carry, broker, consumed, orphans, faults>>

EdgeErase(c) ==
    /\ c \in bus \cap Commands
    /\ stream' = [s \in Seqs |-> IF s \in names[c] THEN 0 ELSE stream[s]]
    /\ bus' = bus \ {c}
    /\ UNCHANGED <<table, ppc, pass, carry, len, window, consumed, orphans, faults>>

-----------------------------------------------------------------------------
PumpStep ==
    \/ BeginPass \/ EndPass \/ PublishAcked \/ CommitMark \/ MarkWithoutSession
    \/ \E f \in Facts : Reconcile(f)
    \/ \E i \in Rows : Undeliverable(i) \/ LockRow(i) \/ SkipRow(i)
    \/ \E t \in Tombs : PublishAgain(t)

PumpFault ==
    \/ PublishRefused \/ PublishAckLost \/ CommitFails \/ CommitUnconfirmed
    \/ LoseSession \/ Crash \/ PassFails \/ \E f \in Facts : ReconcileUnconfirmed(f)
    \/ \E t \in Tombs : PublishAgainFails(t)

Next ==
    \/ \E f \in Facts : EnqueueFact(f) \/ ExpireWindow(f)
    \/ \E d \in Deletions : Delete(d)
    \/ PumpStep \/ PumpFault
    \/ \E batch \in SUBSET (Unpublished \cup Unacknowledged) : SelectBatch(batch)
    \/ \E t \in Tombs : AgeOut(t) \/ Consume(t) \/ Acknowledge(t)
    \/ \E c \in Commands : EdgeErase(c)

Spec == Init /\ [][Next]_vars

(***************************************************************************)
(* The loop runs a pass every two seconds and every backoff ends, so a row *)
(* that stays due is chosen again and again.  Knowledge and Edge consume   *)
(* what stays in the broker and acknowledgements are redelivered.          *)
(***************************************************************************)
Fairness ==
    /\ WF_vars(PumpStep)
    /\ SF_vars(SelectBatch(Rows))
    /\ \A t \in Tombs : WF_vars(Consume(t)) /\ SF_vars(Acknowledge(t))
    /\ \A c \in Commands : WF_vars(EdgeErase(c))

FairSpec == Spec /\ Fairness

-----------------------------------------------------------------------------
TypeOK ==
    /\ row \in [Rows -> RowStates]
    /\ seqs \in [Facts -> SUBSET Seqs]
    /\ names \in [Commands -> SUBSET Seqs]
    /\ acked \subseteq Tombs
    /\ deleted \subseteq Deletions
    /\ ppc \in {"idle", "reconcile", "next", "locked", "acked"}
    /\ first \subseteq Rows /\ again \subseteq Tombs
    /\ cur \in Rows \cup {0} /\ held \in Rows \cup {0} /\ got \in Seqs \cup {0}
    /\ carry \in [Facts -> SUBSET Seqs]
    /\ stream \in [Seqs -> Facts \cup {0}]
    /\ len \in 0..MaxCopies
    /\ window \in [Facts -> Seqs \cup {0}]
    /\ bus \subseteq Tombs \cup Commands
    /\ consumed \subseteq Tombs
    /\ orphans \subseteq Seqs
    /\ faults \in 0..MaxFaults

\* Every published copy of a deleted fact is named by an erasure command, or
\* the pump still carries its sequence and will ask for it (DEVELOPMENT.md,
\* "Stream erasure bookkeeping").
DeletedCopiesAreNamed ==
    \A f \in Facts : row[f] = "dropped" => CopiesOf(f) \subseteq Named \cup carry[f]

\* A published fact row records every copy of it on the stream, those of
\* earlier attempts whose commit failed included.
PublishedRowsRecordTheirCopies ==
    \A f \in Facts : row[f] = "published" => CopiesOf(f) \subseteq seqs[f]

\* Nothing is published for a row a deletion removed while the pump's session
\* lives: the row lock covers the publication.
NothingPublishedAfterDeletion ==
    [][\A f \in Facts : row[f] = "dropped" /\ held = cur =>
          CopiesOf(f)' \subseteq CopiesOf(f)]_vars

\* An obligation is never lost with the tenant's rows: a tombstone leaves the
\* outbox only after Knowledge acknowledged it, a command only when Edge has
\* erased the copies it names or still has the command to consume.
ObligationsSurviveDeletions ==
    /\ \A t \in Tombs : row[t] = "dropped" => t \in acked
    /\ \A c \in Commands : row[c] = "dropped" =>
          c \in bus \/ \A s \in names[c] : stream[s] = 0

\* Deleted content leaves the stream, except a copy the service never learned
\* of: its PubAck was lost, or a crash took the carry.
DeletedCopiesAreErased ==
    \A f \in Facts : \A s \in Seqs :
        row[f] = "dropped" /\ stream[s] = f ~> stream[s] # f \/ s \in orphans

\* A tombstone is sent until Knowledge acknowledges it, although the stream
\* may drop it first.
TombstonesAreAcknowledged ==
    \A t \in Tombs : row[t] = "pending" ~> t \in acked
=============================================================================
