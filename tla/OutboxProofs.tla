---------------------------- MODULE OutboxProofs ----------------------------
(***************************************************************************)
(* Proofs about the outbox, for any number of facts, tombstones, commands, *)
(* deletions, stream copies and failures.  PumpInv is the first layer:     *)
(* what the pump's program counter says about the row it publishes and     *)
(* which sequences are known.  On top of it the inductive invariant says   *)
(* what an erasure command owes, that the pump asks for the copies of a    *)
(* fact at most once, and where the sequence of every copy on the stream   *)
(* is known.                                                               *)
(***************************************************************************)
EXTENDS Outbox, TLAPS

\* Few leaves need another prover; those name it.
USE Zenon

\* The row being published is still there, or a deletion dropped it after the
\* session was lost.
PumpOnCourse ==
    /\ ppc \in {"locked", "acked"} => cur \in Rows /\ held \in {0, cur}
    /\ ppc \notin {"locked", "acked"} => cur = 0 /\ held = 0
    /\ \A f \in Facts : cur = f => row[f] \in {"pending", "dropped"}
    /\ \A f \in Facts : held = f => row[f] = "pending"
    /\ \A c \in Commands : cur = c => row[c] = "pending"
    /\ \A f \in Facts : ppc = "acked" /\ cur = f => got \in carry[f]

\* Only sequences the stream has given are known anywhere.
SequencesAreGiven ==
    /\ \A s \in Seqs : stream[s] # 0 => s <= len
    /\ \A f \in Facts : window[f] <= len
    /\ \A f \in Facts : \A s \in seqs[f] \cup carry[f] : s <= len
    /\ \A c \in Commands : \A s \in names[c] : s <= len

PumpInv == TypeOK /\ PumpOnCourse /\ SequencesAreGiven

-----------------------------------------------------------------------------
\* The kinds of rows do not overlap and 0 is no row.
LEMMA RowIds ==
    /\ \A f \in Facts : f \in Rows /\ f # 0 /\ f \notin Tombs /\ f \notin Commands
    /\ \A f \in Facts : RescueOf[f] \in Commands
    /\ \A c \in Commands : c \in Rows /\ c # 0 /\ c \notin Tombs /\ c \notin Facts
    /\ \A t \in Tombs : t \in Rows /\ t # 0
    /\ \A d \in Deletions : CommandOf[d] \in Commands /\ TombOf[d] \in Tombs
BY OutboxConstants DEF Rows

\* What the broker does with a row: a fact it does not remember gets the next
\* sequence, any other fact keeps the copy it has.
LEMMA StoreCopyFacts ==
    ASSUME TypeOK, SequencesAreGiven, NEW i \in Rows, StoreCopy(i)
    PROVE  /\ stream' \in [Seqs -> Facts \cup {0}] /\ window' \in [Facts -> Seqs \cup {0}]
           /\ len' \in 0..MaxCopies /\ len <= len'
           /\ bus' \subseteq Tombs \cup Commands /\ bus \subseteq bus'
           /\ i \in Facts => /\ Copy(i) \in Seqs /\ Copy(i) <= len'
                             /\ stream'[Copy(i)] \in {0, i} \/ window[i] = Copy(i)
           /\ i \notin Facts => Copy(i) = 0 /\ i \in bus' /\ stream' = stream
           /\ \A s \in Seqs : \/ stream'[s] = stream[s]
                              \/ stream'[s] = i /\ i \in Facts /\ s = Copy(i)
           /\ \A s \in Seqs : s <= len => stream'[s] = stream[s]
           /\ \A s \in Seqs : stream'[s] # 0 => s <= len'
           /\ \A f \in Facts : \/ window'[f] = window[f]
                               \/ f = i /\ window[f] = 0 /\ stream'[window'[f]] = i
           /\ \A f \in Facts : window'[f] <= len'
<1>1. CASE i \in Facts /\ window[i] = 0
  <2>1. /\ len + 1 \in Seqs /\ len' = len + 1
        /\ stream' = [stream EXCEPT ![len + 1] = i]
        /\ window' = [window EXCEPT ![i] = len + 1] /\ bus' = bus
    BY <1>1, OutboxConstants, SMT DEF StoreCopy, TypeOK, Seqs
  <2>2. Copy(i) = len + 1 /\ stream[len + 1] = 0
    BY <1>1, <2>1, SMT DEF Copy, TypeOK, SequencesAreGiven
  <2> QED
    BY <1>1, <2>1, <2>2, OutboxConstants, SMT DEF TypeOK, SequencesAreGiven, Seqs
<1>2. CASE ~(i \in Facts /\ window[i] = 0)
  <2>1. stream' = stream /\ len' = len /\ window' = window /\ bus' = bus \cup ({i} \ Facts)
    BY <1>2 DEF StoreCopy
  <2>2. i \in Facts => Copy(i) = window[i] /\ window[i] \in Seqs /\ window[i] <= len
    BY <1>2, <2>1 DEF Copy, TypeOK, SequencesAreGiven
  <2>3. i \notin Facts => Copy(i) = 0
    BY DEF Copy
  <2> QED
    BY <1>2, <2>1, <2>2, <2>3, OutboxConstants, SMT DEF TypeOK, SequencesAreGiven, Rows
<1> QED
  BY <1>1, <1>2

\* Every step keeps the types.
LEMMA TypesKept ==
    ASSUME TypeOK, PumpOnCourse, SequencesAreGiven, [Next]_vars
    PROVE  TypeOK'
<1> USE OutboxConstants
       DEF TypeOK, PumpOnCourse, RowStates, Rows, table, pass, broker, Fault, AbandonPass,
           Release, Marked, EnqueueRescue
<1>1. ASSUME NEW f \in Facts, EnqueueFact(f)
      PROVE  TypeOK'
  BY <1>1 DEF EnqueueFact
<1>2. ASSUME NEW f \in Facts, ExpireWindow(f)
      PROVE  TypeOK'
  BY <1>2 DEF ExpireWindow
<1>3. ASSUME NEW d \in Deletions, Delete(d)
      PROVE  TypeOK'
  BY <1>3, SMT DEF Delete
<1>4. CASE BeginPass
  BY <1>4 DEF BeginPass
<1>5. CASE EndPass
  BY <1>5 DEF EndPass
<1>6. ASSUME NEW f \in Facts, Reconcile(f)
      PROVE  TypeOK'
  BY <1>6 DEF Reconcile
<1>7. ASSUME NEW f \in Facts, ReconcileUnconfirmed(f)
      PROVE  TypeOK'
  BY <1>7, SMT DEF ReconcileUnconfirmed
<1>8. ASSUME NEW batch, SelectBatch(batch)
      PROVE  TypeOK'
  BY <1>8 DEF SelectBatch, Unpublished, Unacknowledged
<1>9. ASSUME NEW i \in Rows, Undeliverable(i)
      PROVE  TypeOK'
  BY <1>9 DEF Undeliverable
<1>10. ASSUME NEW i \in Rows, LockRow(i)
       PROVE  TypeOK'
  BY <1>10 DEF LockRow
<1>11. ASSUME NEW i \in Rows, SkipRow(i)
       PROVE  TypeOK'
  BY <1>11 DEF SkipRow
<1>12. CASE PublishAcked
  <2>1. cur \in Rows /\ StoreCopy(cur)
    BY <1>12 DEF PublishAcked, PumpOnCourse
  <2> QED
    BY <1>12, <2>1, StoreCopyFacts, SMT DEF PublishAcked
<1>13. CASE PublishAckLost
  <2>1. cur \in Rows /\ StoreCopy(cur)
    BY <1>13 DEF PublishAckLost, PumpOnCourse
  <2> QED
    BY <1>13, <2>1, StoreCopyFacts, SMT DEF PublishAckLost
<1>14. CASE PublishRefused
  BY <1>14, SMT DEF PublishRefused
<1>15. CASE CommitMark
  BY <1>15, SMT DEF CommitMark
<1>16. CASE CommitFails
  BY <1>16, SMT DEF CommitFails
<1>17. CASE CommitUnconfirmed
  BY <1>17, SMT DEF CommitUnconfirmed
<1>18. CASE LoseSession
  BY <1>18, SMT DEF LoseSession
<1>19. CASE MarkWithoutSession
  BY <1>19 DEF MarkWithoutSession
<1>20. ASSUME NEW t \in Tombs, PublishAgain(t)
       PROVE  TypeOK'
  BY <1>20, SMT DEF PublishAgain, StoreCopy
<1>21. ASSUME NEW t \in Tombs, PublishAgainFails(t)
       PROVE  TypeOK'
  BY <1>21, SMT DEF PublishAgainFails
<1>22. CASE PassFails
  BY <1>22, SMT DEF PassFails
<1>23. CASE Crash
  BY <1>23, SMT DEF Crash
<1>24. ASSUME NEW t \in Tombs, AgeOut(t)
       PROVE  TypeOK'
  BY <1>24, SMT DEF AgeOut
<1>25. ASSUME NEW t \in Tombs, Consume(t)
       PROVE  TypeOK'
  BY <1>25 DEF Consume
<1>26. ASSUME NEW t \in Tombs, Acknowledge(t)
       PROVE  TypeOK'
  BY <1>26, SMT DEF Acknowledge
<1>27. ASSUME NEW c \in Commands, EdgeErase(c)
       PROVE  TypeOK'
  BY <1>27 DEF EdgeErase
<1>28. CASE UNCHANGED vars
  BY <1>28 DEF vars
<1> HIDE DEF TypeOK
<1> QED
  BY <1>1, <1>2, <1>3, <1>4, <1>5, <1>6, <1>7, <1>8, <1>9, <1>10, <1>11, <1>12,
     <1>13, <1>14, <1>15, <1>16, <1>17, <1>18, <1>19, <1>20, <1>21, <1>22, <1>23, <1>24,
     <1>25, <1>26, <1>27, <1>28
     DEF Next, PumpStep, PumpFault

\* Every step keeps the pump on course: a deletion waits for the row lock, and
\* nobody else takes a pending fact or command from the pump.
LEMMA CourseKept ==
    ASSUME TypeOK, PumpOnCourse, SequencesAreGiven, [Next]_vars
    PROVE  PumpOnCourse'
<1> USE OutboxConstants
       DEF TypeOK, PumpOnCourse, Rows, table, pass, broker, AbandonPass, Release, Marked,
           EnqueueRescue, Candidate
<1>1. ASSUME NEW f \in Facts, EnqueueFact(f)
      PROVE  PumpOnCourse'
  BY <1>1 DEF EnqueueFact
<1>2. ASSUME NEW f \in Facts, ExpireWindow(f)
      PROVE  PumpOnCourse'
  BY <1>2 DEF ExpireWindow
<1>3. ASSUME NEW d \in Deletions, Delete(d)
      PROVE  PumpOnCourse'
  <2>1. /\ \A f \in Facts : row'[f] = row[f] \/ (row'[f] = "dropped" /\ held # f)
        /\ \A c \in Commands : row[c] = "pending" => row'[c] = "pending"
    BY <1>3, SMT DEF Delete, Spent
  <2>2. UNCHANGED <<ppc, cur, held, got, carry>>
    BY <1>3 DEF Delete
  <2> QED
    BY <2>1, <2>2
<1>4. CASE BeginPass
  BY <1>4 DEF BeginPass
<1>5. CASE EndPass
  BY <1>5 DEF EndPass
<1>6. ASSUME NEW f \in Facts, Reconcile(f)
      PROVE  PumpOnCourse'
  BY <1>6 DEF Reconcile
<1>7. ASSUME NEW f \in Facts, ReconcileUnconfirmed(f)
      PROVE  PumpOnCourse'
  BY <1>7 DEF ReconcileUnconfirmed
<1>8. ASSUME NEW batch, SelectBatch(batch)
      PROVE  PumpOnCourse'
  BY <1>8 DEF SelectBatch
<1>9. ASSUME NEW i \in Rows, Undeliverable(i)
      PROVE  PumpOnCourse'
  BY <1>9 DEF Undeliverable
<1>10. ASSUME NEW i \in Rows, LockRow(i)
       PROVE  PumpOnCourse'
  BY <1>10 DEF LockRow
<1>11. ASSUME NEW i \in Rows, SkipRow(i)
       PROVE  PumpOnCourse'
  BY <1>11 DEF SkipRow
<1>12. CASE PublishAcked
  <2>1. cur \in Rows /\ StoreCopy(cur)
    BY <1>12 DEF PublishAcked, PumpOnCourse
  <2> QED
    BY <1>12, <2>1, StoreCopyFacts DEF PublishAcked
<1>13. CASE PublishAckLost
  <2>1. cur \in Rows /\ StoreCopy(cur)
    BY <1>13 DEF PublishAckLost, PumpOnCourse
  <2> QED
    BY <1>13, <2>1, StoreCopyFacts DEF PublishAckLost
<1>14. CASE PublishRefused
  BY <1>14 DEF PublishRefused
<1>15. CASE CommitMark
  BY <1>15 DEF CommitMark
<1>16. CASE CommitFails
  BY <1>16 DEF CommitFails
<1>17. CASE CommitUnconfirmed
  BY <1>17 DEF CommitUnconfirmed
<1>18. CASE LoseSession
  BY <1>18 DEF LoseSession
<1>19. CASE MarkWithoutSession
  BY <1>19 DEF MarkWithoutSession
<1>20. ASSUME NEW t \in Tombs, PublishAgain(t)
       PROVE  PumpOnCourse'
  BY <1>20 DEF PublishAgain
<1>21. ASSUME NEW t \in Tombs, PublishAgainFails(t)
       PROVE  PumpOnCourse'
  BY <1>21 DEF PublishAgainFails
<1>22. CASE PassFails
  BY <1>22 DEF PassFails
<1>23. CASE Crash
  BY <1>23 DEF Crash
<1>24. ASSUME NEW t \in Tombs, AgeOut(t)
       PROVE  PumpOnCourse'
  BY <1>24 DEF AgeOut
<1>25. ASSUME NEW t \in Tombs, Consume(t)
       PROVE  PumpOnCourse'
  BY <1>25 DEF Consume
<1>26. ASSUME NEW t \in Tombs, Acknowledge(t)
       PROVE  PumpOnCourse'
  BY <1>26, SMT DEF Acknowledge
<1>27. ASSUME NEW c \in Commands, EdgeErase(c)
       PROVE  PumpOnCourse'
  BY <1>27 DEF EdgeErase
<1>28. CASE UNCHANGED vars
  BY <1>28 DEF vars
<1> HIDE DEF PumpOnCourse
<1> QED
  BY <1>1, <1>2, <1>3, <1>4, <1>5, <1>6, <1>7, <1>8, <1>9, <1>10, <1>11, <1>12,
     <1>13, <1>14, <1>15, <1>16, <1>17, <1>18, <1>19, <1>20, <1>21, <1>22, <1>23, <1>24,
     <1>25, <1>26, <1>27, <1>28
     DEF Next, PumpStep, PumpFault

\* A publication gives one sequence at most.
LEMMA PublishGives ==
    ASSUME TypeOK, PumpOnCourse, SequencesAreGiven, PublishAcked \/ PublishAckLost
    PROVE  SequencesAreGiven'
<1>1. cur \in Rows /\ StoreCopy(cur) /\ seqs' = seqs /\ names' = names
  BY DEF PublishAcked, PublishAckLost, PumpOnCourse, table
<1>2. /\ len <= len' /\ len \in Nat /\ len' \in Nat /\ (cur \in Facts => Copy(cur) <= len')
      /\ \A s \in Seqs : stream'[s] # 0 => s <= len'
      /\ \A f \in Facts : window'[f] <= len'
  BY <1>1, StoreCopyFacts, OutboxConstants, SMT DEF TypeOK
<1>3. \A f \in Facts : \A s \in carry'[f] : s \in carry[f] \/ (f = cur /\ s = Copy(cur))
  BY SMT DEF PublishAcked, PublishAckLost
<1>4. /\ \A f \in Facts : seqs[f] \subseteq Nat /\ carry[f] \subseteq Nat
      /\ \A c \in Commands : names[c] \subseteq Nat
  BY OutboxConstants, SMT DEF TypeOK, Seqs
<1> QED
  BY <1>1, <1>2, <1>3, <1>4, SMT DEF SequencesAreGiven

\* A mark records sequences the carry holds.
LEMMA MarkGives ==
    ASSUME TypeOK, PumpOnCourse, SequencesAreGiven, CommitMark \/ CommitUnconfirmed
    PROVE  SequencesAreGiven'
<1>1. UNCHANGED <<stream, len, window, names>>
  BY DEF CommitMark, CommitUnconfirmed, Marked, broker
<1>2. \A f \in Facts : \A s \in carry'[f] : s \in carry[f]
  BY DEF CommitMark, CommitUnconfirmed
<1>3. ASSUME NEW f \in Facts
      PROVE  \A s \in seqs'[f] : s \in seqs[f] \/ s \in carry[f]
  <2>1. cur = f => got \in carry[f]
    BY DEF CommitMark, CommitUnconfirmed, PumpOnCourse
  <2>2. seqs'[f] = IF f = cur THEN seqs[f] \cup carry[f] \cup {got} ELSE seqs[f]
    BY DEF CommitMark, CommitUnconfirmed, Marked
  <2> QED
    BY <2>1, <2>2
<1> QED
  BY <1>1, <1>2, <1>3 DEF SequencesAreGiven

\* The command of a deletion names recorded sequences.
LEMMA DeleteGives ==
    ASSUME TypeOK, SequencesAreGiven, NEW d \in Deletions, Delete(d)
    PROVE  SequencesAreGiven'
<1>1. UNCHANGED <<stream, len, window, carry>>
  BY DEF Delete, broker
<1>2. \A f \in Facts : \A s \in seqs'[f] : s \in seqs[f]
  BY DEF Delete
<1>3. \A c \in Commands : \A s \in names'[c] :
          s \in names[c] \/ \E f \in Facts : s \in seqs[f]
  BY OutboxConstants, SMT DEF Delete, TypeOK
<1> QED
  BY <1>1, <1>2, <1>3 DEF SequencesAreGiven

\* The command of a fact names carried sequences.
LEMMA RescueGives ==
    ASSUME TypeOK, SequencesAreGiven, NEW f \in Facts, Reconcile(f) \/ ReconcileUnconfirmed(f)
    PROVE  SequencesAreGiven'
<1>1. UNCHANGED <<stream, len, window, seqs>>
  BY DEF Reconcile, ReconcileUnconfirmed, EnqueueRescue, broker
<1>2. \A g \in Facts : \A s \in carry'[g] : s \in carry[g]
  BY DEF Reconcile, ReconcileUnconfirmed, TypeOK
<1>3. \A c \in Commands : \A s \in names'[c] : s \in names[c] \/ s \in carry[f]
  <2>1. /\ names' = [names EXCEPT ![RescueOf[f]] =
                        IF row[RescueOf[f]] \in {"absent", "dropped"} THEN carry[f] ELSE @]
        /\ names \in [Commands -> SUBSET Seqs]
    BY DEF Reconcile, ReconcileUnconfirmed, EnqueueRescue, TypeOK
  <2> QED
    BY <2>1
<1> QED
  BY <1>1, <1>2, <1>3 DEF SequencesAreGiven

\* Every step knows only sequences the stream has given.
LEMMA SequencesKept ==
    ASSUME TypeOK, PumpOnCourse, SequencesAreGiven, [Next]_vars
    PROVE  SequencesAreGiven'
<1> USE OutboxConstants
       DEF TypeOK, SequencesAreGiven, Seqs, Rows, table, pass, broker, EnqueueRescue
<1>1. ASSUME NEW f \in Facts, EnqueueFact(f)
      PROVE  SequencesAreGiven'
  BY <1>1 DEF EnqueueFact
<1>2. ASSUME NEW f \in Facts, ExpireWindow(f)
      PROVE  SequencesAreGiven'
  BY <1>2, SMT DEF ExpireWindow
<1>3. ASSUME NEW d \in Deletions, Delete(d)
      PROVE  SequencesAreGiven'
  BY <1>3, DeleteGives
<1>4. CASE BeginPass
  BY <1>4 DEF BeginPass
<1>5. CASE EndPass
  BY <1>5 DEF EndPass
<1>6. ASSUME NEW f \in Facts, Reconcile(f)
      PROVE  SequencesAreGiven'
  BY <1>6, RescueGives
<1>7. ASSUME NEW f \in Facts, ReconcileUnconfirmed(f)
      PROVE  SequencesAreGiven'
  BY <1>7, RescueGives
<1>8. ASSUME NEW batch, SelectBatch(batch)
      PROVE  SequencesAreGiven'
  BY <1>8 DEF SelectBatch
<1>9. ASSUME NEW i \in Rows, Undeliverable(i)
      PROVE  SequencesAreGiven'
  BY <1>9 DEF Undeliverable
<1>10. ASSUME NEW i \in Rows, LockRow(i)
       PROVE  SequencesAreGiven'
  BY <1>10 DEF LockRow
<1>11. ASSUME NEW i \in Rows, SkipRow(i)
       PROVE  SequencesAreGiven'
  BY <1>11 DEF SkipRow
<1>12. CASE PublishAcked
  BY <1>12, PublishGives
<1>13. CASE PublishAckLost
  BY <1>13, PublishGives
<1>14. CASE PublishRefused
  BY <1>14 DEF PublishRefused
<1>15. CASE CommitMark
  BY <1>15, MarkGives
<1>16. CASE CommitFails
  BY <1>16 DEF CommitFails
<1>17. CASE CommitUnconfirmed
  BY <1>17, MarkGives
<1>18. CASE LoseSession
  BY <1>18 DEF LoseSession
<1>19. CASE MarkWithoutSession
  BY <1>19 DEF MarkWithoutSession
<1>20. ASSUME NEW t \in Tombs, PublishAgain(t)
       PROVE  SequencesAreGiven'
  BY <1>20, SMT DEF PublishAgain, StoreCopy
<1>21. ASSUME NEW t \in Tombs, PublishAgainFails(t)
       PROVE  SequencesAreGiven'
  BY <1>21 DEF PublishAgainFails
<1>22. CASE PassFails
  BY <1>22 DEF PassFails
<1>23. CASE Crash
  BY <1>23 DEF Crash
<1>24. ASSUME NEW t \in Tombs, AgeOut(t)
       PROVE  SequencesAreGiven'
  BY <1>24 DEF AgeOut
<1>25. ASSUME NEW t \in Tombs, Consume(t)
       PROVE  SequencesAreGiven'
  BY <1>25 DEF Consume
<1>26. ASSUME NEW t \in Tombs, Acknowledge(t)
       PROVE  SequencesAreGiven'
  BY <1>26 DEF Acknowledge
<1>27. ASSUME NEW c \in Commands, EdgeErase(c)
       PROVE  SequencesAreGiven'
  BY <1>27 DEF EdgeErase
<1>28. CASE UNCHANGED vars
  BY <1>28 DEF vars
<1> HIDE DEF SequencesAreGiven
<1> QED
  BY <1>1, <1>2, <1>3, <1>4, <1>5, <1>6, <1>7, <1>8, <1>9, <1>10, <1>11, <1>12,
     <1>13, <1>14, <1>15, <1>16, <1>17, <1>18, <1>19, <1>20, <1>21, <1>22, <1>23, <1>24,
     <1>25, <1>26, <1>27, <1>28
     DEF Next, PumpStep, PumpFault

-----------------------------------------------------------------------------
\* Edge has erased what c names, or has c to consume.
Served(c) == c \in bus \/ \A s \in names[c] : stream[s] = 0

CommandsOwe ==
    /\ \A d \in Deletions \ deleted :
          row[CommandOf[d]] = "absent" /\ names[CommandOf[d]] = {}
    /\ \A c \in Commands :
          row[c] \in {"published", "dropped"} \/ (ppc = "acked" /\ cur = c) => Served(c)

\* The pump asks for the copies of a fact at most once: the row is gone for
\* good and no publication of it is under way.
RescueIsLast(f) ==
    row[RescueOf[f]] # "absent" \/ names[RescueOf[f]] # {} =>
        /\ row[f] = "dropped" /\ cur # f
        /\ carry[f] = {} \/ carry[f] = names[RescueOf[f]]

\* The sequence of every copy is recorded, carried or named, or the service
\* never learned of it.
CopyKnown(f, s) ==
    \/ s \in seqs[f] \cup carry[f] \cup orphans
    \/ row[f] = "dropped" /\ s \in Named

CopiesKnown ==
    /\ \A f \in Facts : \A s \in Seqs : stream[s] = f => CopyKnown(f, s)
    /\ \A f \in Facts : window[f] # 0 => stream[window[f]] \in {0, f}
    /\ \A f \in Facts : row[f] = "published" => carry[f] \subseteq seqs[f]
    /\ \A f \in Facts : row[f] = "dropped" => seqs[f] = {}
    /\ ~AckLoss /\ ~Crashing => orphans = {}

Ledger ==
    /\ CommandsOwe
    /\ \A f \in Facts : RescueIsLast(f)
    /\ CopiesKnown

OutboxInv == PumpInv /\ Ledger

-----------------------------------------------------------------------------
(***************************************************************************)
(* The ledger: what commands owe and where every sequence is known.        *)
(***************************************************************************)

\* A step that leaves the ledger's part of the table, the carry and the stream
\* alone, takes no command off the bus and locks only a pending row.
Still ==
    /\ UNCHANGED <<row, seqs, names, deleted, carry, stream, window, orphans>>
    /\ \A c \in Commands : c \in bus => c \in bus'
    /\ \A f \in Facts : cur' = f => cur = f \/ row[f] = "pending"
    /\ \A c \in Commands : ppc' = "acked" /\ cur' = c => ppc = "acked" /\ cur = c

\* Such a step keeps the ledger.
LEMMA StillKeeps == ASSUME Ledger, Still PROVE Ledger'
<1>1. CommandsOwe'
  BY DEF Ledger, CommandsOwe, Served, Still
<1>2. ASSUME NEW f \in Facts
      PROVE  RescueIsLast(f)'
  BY DEF Ledger, RescueIsLast, Still
<1>3. CopiesKnown'
  <2>1. Named' = Named
    BY DEF Named, Still
  <2> QED
    BY <2>1 DEF Ledger, CopiesKnown, CopyKnown, Still
<1> QED
  BY <1>1, <1>2, <1>3 DEF Ledger

\* The steps of a pass that commit nothing and the delivery of tombstones.
StillStep ==
    \/ BeginPass \/ EndPass \/ PassFails \/ PublishRefused \/ CommitFails
    \/ LoseSession \/ MarkWithoutSession
    \/ \E batch \in SUBSET (Unpublished \cup Unacknowledged) : SelectBatch(batch)
    \/ \E i \in Rows : LockRow(i) \/ SkipRow(i)
    \/ \E t \in Tombs : PublishAgain(t) \/ PublishAgainFails(t) \/ AgeOut(t) \/ Consume(t)
    \/ UNCHANGED vars

\* They are such steps.
LEMMA StillSteps ==
    ASSUME TypeOK, PumpOnCourse, StillStep
    PROVE  Still /\ UNCHANGED acked
<1> USE OutboxConstants DEF TypeOK, Still, table, pass, broker, AbandonPass, Release
<1>1. CASE BeginPass \/ EndPass \/ UNCHANGED vars
  BY <1>1 DEF BeginPass, EndPass, vars
<1>2. CASE PassFails \/ CommitFails \/ MarkWithoutSession
  BY <1>2 DEF PassFails, CommitFails, MarkWithoutSession, Rows
<1>3. CASE PublishRefused
  BY <1>3 DEF PublishRefused, Rows
<1>4. CASE LoseSession
  BY <1>4 DEF LoseSession
<1>5. CASE \E batch \in SUBSET (Unpublished \cup Unacknowledged) : SelectBatch(batch)
  BY <1>5 DEF SelectBatch
<1>6. ASSUME NEW i \in Rows, LockRow(i) \/ SkipRow(i)
      PROVE  Still /\ UNCHANGED acked
  BY <1>6 DEF LockRow, SkipRow
<1>7. ASSUME NEW t \in Tombs,
             PublishAgain(t) \/ PublishAgainFails(t) \/ AgeOut(t) \/ Consume(t)
      PROVE  Still /\ UNCHANGED acked
  <2>1. CASE PublishAgain(t)
    BY <2>1 DEF PublishAgain, StoreCopy
  <2>2. CASE PublishAgainFails(t)
    BY <2>2 DEF PublishAgainFails
  <2>3. CASE AgeOut(t)
    BY <2>3 DEF AgeOut
  <2>4. CASE Consume(t)
    BY <2>4 DEF Consume
  <2> QED
    BY <1>7, <2>1, <2>2, <2>3, <2>4
<1> HIDE DEF Still
<1> QED
  BY <1>1, <1>2, <1>3, <1>4, <1>5, <1>6, <1>7 DEF StillStep

\* Only a fact goes from absent to pending or a row from pending to
\* undeliverable, tombstones aside.
RowsMoved ==
    /\ \A f \in Facts :
          \/ row'[f] = row[f]
          \/ row[f] = "absent" /\ row'[f] = "pending"
          \/ row[f] = "pending" /\ row'[f] = "undeliverable"
    /\ \A c \in Commands :
          row'[c] = row[c] \/ (row[c] = "pending" /\ row'[c] = "undeliverable")

\* A new fact, a row that is too large, an acknowledgement.
RowStep ==
    \/ \E f \in Facts : EnqueueFact(f)
    \/ \E i \in Rows : Undeliverable(i)
    \/ \E t \in Tombs : Acknowledge(t)

\* They touch neither commands nor copies.
LEMMA RowStepKeeps ==
    ASSUME PumpInv, Ledger, RowStep
    PROVE  Ledger' /\ UNCHANGED stream
<1>0. UNCHANGED <<seqs, names, deleted, carry, stream, window, orphans, cur, ppc, bus>>
  BY DEF RowStep, EnqueueFact, Undeliverable, Acknowledge, pass, broker
<1>1. RowsMoved
  <2>0. TypeOK
    BY DEF PumpInv
  <2>1. ASSUME NEW f \in Facts, EnqueueFact(f)
        PROVE  RowsMoved
    <3>1. \A j \in Rows : row'[j] = IF j = f THEN "pending" ELSE row[j]
      BY <2>0, <2>1 DEF TypeOK, EnqueueFact
    <3> QED
      BY <2>1, <3>1, RowIds DEF EnqueueFact, RowsMoved
  <2>2. ASSUME NEW i \in Rows, Undeliverable(i)
        PROVE  RowsMoved
    <3>1. \A j \in Rows :
              row'[j] = IF j = i /\ row[i] = "pending" THEN "undeliverable" ELSE row[j]
      BY <2>0, <2>2 DEF TypeOK, Undeliverable
    <3> QED
      BY <3>1, RowIds DEF RowsMoved
  <2>3. ASSUME NEW t \in Tombs, Acknowledge(t)
        PROVE  RowsMoved
    <3>1. \A j \in Rows : j # t => row'[j] = row[j]
      BY <2>0, <2>3 DEF TypeOK, Acknowledge
    <3> QED
      BY <3>1, RowIds DEF RowsMoved
  <2> QED
    BY <2>1, <2>2, <2>3 DEF RowStep
<1>2. CommandsOwe'
  BY <1>0, <1>1, RowIds DEF RowsMoved, Ledger, CommandsOwe, Served
<1>3. ASSUME NEW f \in Facts
      PROVE  RescueIsLast(f)'
  BY <1>0, <1>1, RowIds DEF RowsMoved, Ledger, RescueIsLast
<1>4. CopiesKnown'
  <2>1. Named' = Named
    BY <1>0 DEF Named
  <2> QED
    BY <1>0, <1>1, <2>1 DEF RowsMoved, Ledger, CopiesKnown, CopyKnown
<1> QED
  BY <1>0, <1>2, <1>3, <1>4 DEF Ledger

\* Marking: the row of a fact takes every carried sequence of it; the row of a
\* command was served while it was being published.
LEMMA MarkStepKeeps ==
    ASSUME PumpInv, Ledger, CommitMark \/ CommitUnconfirmed
    PROVE  Ledger'
<1>1. /\ TypeOK /\ cur \in Rows /\ ppc = "acked" /\ Marked /\ cur' = 0
      /\ \A f \in Facts : cur = f => row[f] = "pending"
      /\ \A c \in Commands : cur = c => row[c] = "pending"
  BY DEF PumpInv, PumpOnCourse, CommitMark, CommitUnconfirmed, Release, AbandonPass
<1>2. /\ UNCHANGED <<names, deleted, stream, window, orphans, bus>>
      /\ \A f \in Facts : f # cur => seqs'[f] = seqs[f] /\ carry'[f] = carry[f]
      /\ \A f \in Facts : f = cur =>
            /\ carry'[f] = {} \/ carry'[f] = carry[f]
            /\ seqs'[f] = seqs[f] \cup carry[f] \cup {got}
  BY DEF CommitMark, CommitUnconfirmed, Marked, broker
<1>3. \A i \in Rows : row'[i] = IF i = cur THEN "published" ELSE row[i]
  BY <1>1 DEF Marked, TypeOK
<1>4. CommandsOwe'
  <2>1. \A c \in Commands : Served(c)' <=> Served(c)
    BY <1>2 DEF Served
  <2>2. \A e \in Deletions \ deleted : row[CommandOf[e]] = "absent" /\ names[CommandOf[e]] = {}
    BY DEF Ledger, CommandsOwe
  <2>3. \A e \in Deletions \ deleted : row'[CommandOf[e]] = "absent"
    BY <1>1, <1>3, <2>2, RowIds
  <2>4. ASSUME NEW c \in Commands, row'[c] \in {"published", "dropped"}
        PROVE  Served(c)
    BY <1>1, <1>3, <2>4, RowIds DEF Ledger, CommandsOwe
  <2>5. cur' \notin Commands
    BY <1>1, RowIds
  <2> QED
    BY <1>2, <2>1, <2>2, <2>3, <2>4, <2>5 DEF CommandsOwe
<1>5. ASSUME NEW f \in Facts
      PROVE  RescueIsLast(f)'
  <2>1. /\ f \in Rows /\ f # 0
        /\ f = cur => row[f] = "pending"
        /\ RescueOf[f] \in Rows /\ RescueOf[f] \in Commands
    BY <1>1, RowIds
  <2>2. RescueIsLast(f)
    BY DEF Ledger
  <2>3. row[RescueOf[f]] = "absent" => row'[RescueOf[f]] = "absent"
    BY <1>1, <1>3, <2>1
  <2>4. row[f] = "dropped" => row'[f] = "dropped" /\ carry'[f] = carry[f]
    BY <1>2, <1>3, <2>1
  <2> QED
    BY <1>1, <1>2, <2>1, <2>2, <2>3, <2>4 DEF RescueIsLast
<1>6. CopiesKnown'
  <2>1. Named' = Named
    BY <1>2 DEF Named
  <2>2. \A f \in Facts : f \in Rows /\ row'[f] = IF f = cur THEN "published" ELSE row[f]
    BY <1>3, RowIds
  <2>3. ASSUME NEW f \in Facts, NEW s \in Seqs, stream[s] = f
        PROVE  CopyKnown(f, s)'
    <3>1. CopyKnown(f, s)
      BY <2>3 DEF Ledger, CopiesKnown
    <3> QED
      BY <1>1, <1>2, <2>1, <2>2, <3>1 DEF CopyKnown
  <2> QED
    BY <1>1, <1>2, <2>2, <2>3 DEF Ledger, CopiesKnown
<1> QED
  BY <1>4, <1>5, <1>6 DEF Ledger

\* The world around the pump.
WorldStep == Crash \/ (\E f \in Facts : ExpireWindow(f)) \/ (\E c \in Commands : EdgeErase(c))

\* A crash loses the carry, and with it what no row records; the duplicate
\* window forgets; Edge erases what a command names.
LEMMA WorldStepKeeps ==
    ASSUME PumpInv, Ledger, WorldStep
    PROVE  Ledger'
<1>1. CASE Crash
  <2>1. /\ UNCHANGED <<row, seqs, names, deleted, stream, window, bus>>
        /\ cur' = 0 /\ ppc' = "idle" /\ Crashing
        /\ \A f \in Facts : carry'[f] = {}
        /\ \A s \in orphans : s \in orphans'
        /\ \A f \in Facts : \A s \in carry[f] : s \in seqs[f] \/ s \in orphans'
    BY <1>1, SMT DEF Crash, AbandonPass, table, broker
  <2>2. CommandsOwe'
    BY <2>1 DEF Ledger, CommandsOwe, Served
  <2>3. \A f \in Facts : RescueIsLast(f)'
    BY <2>1, RowIds DEF Ledger, RescueIsLast
  <2>5. Named' = Named
    BY <2>1 DEF Named
  <2>4. CopiesKnown'
    BY <2>1, <2>5 DEF Ledger, CopiesKnown, CopyKnown
  <2> QED
    BY <2>2, <2>3, <2>4 DEF Ledger
<1>2. ASSUME NEW f \in Facts, ExpireWindow(f)
      PROVE  Ledger'
  <2>1. /\ UNCHANGED <<row, seqs, names, deleted, carry, stream, orphans, bus, cur, ppc>>
        /\ \A g \in Facts : window'[g] \in {0, window[g]}
    BY <1>2 DEF ExpireWindow, table, pass, PumpInv, TypeOK
  <2>2. CommandsOwe'
    BY <2>1 DEF Ledger, CommandsOwe, Served
  <2>3. \A g \in Facts : RescueIsLast(g)'
    BY <2>1 DEF Ledger, RescueIsLast
  <2>4. Named' = Named
    BY <2>1 DEF Named
  <2>5. CopiesKnown'
    BY <2>1, <2>4 DEF Ledger, CopiesKnown, CopyKnown
  <2> QED
    BY <2>2, <2>3, <2>5 DEF Ledger
<1>3. ASSUME NEW c \in Commands, EdgeErase(c)
      PROVE  Ledger'
  <2>1. /\ UNCHANGED <<row, seqs, names, deleted, carry, window, orphans, cur, ppc>>
        /\ bus' = bus \ {c}
        /\ \A s \in Seqs : stream'[s] = IF s \in names[c] THEN 0 ELSE stream[s]
    BY <1>3 DEF EdgeErase, table, pass
  <2>2. TypeOK
    BY DEF PumpInv
  <2>3. CommandsOwe'
    BY <2>1, <2>2 DEF Ledger, CommandsOwe, Served, TypeOK
  <2>6. Named' = Named
    BY <2>1 DEF Named
  <2>4. CopiesKnown'
    BY <2>1, <2>2, <2>6, RowIds, SMT DEF Ledger, CopiesKnown, CopyKnown, TypeOK
  <2>5. \A f \in Facts : RescueIsLast(f)'
    BY <2>1 DEF Ledger, RescueIsLast
  <2> QED
    BY <2>3, <2>4, <2>5 DEF Ledger
<1> QED
  BY <1>1, <1>2, <1>3 DEF WorldStep

\* A publication: the copy's sequence is carried, or its acknowledgement was
\* lost; a command on the bus is served.
LEMMA PublishStepKeeps ==
    ASSUME PumpInv, Ledger, PublishAcked \/ PublishAckLost
    PROVE  Ledger'
<1>1. /\ TypeOK /\ SequencesAreGiven /\ cur \in Rows /\ ppc = "locked" /\ StoreCopy(cur)
      /\ UNCHANGED <<row, seqs, names, deleted>>
  BY DEF PumpInv, PumpOnCourse, PublishAcked, PublishAckLost, table
<1>2. /\ cur \in Facts => Copy(cur) \in Seqs
      /\ \A s \in Seqs : stream'[s] = stream[s]
                            \/ (stream'[s] = cur /\ cur \in Facts /\ s = Copy(cur))
      /\ \A s \in Seqs : s <= len => stream'[s] = stream[s]
      /\ \A f \in Facts : window'[f] = window[f]
                            \/ (f = cur /\ stream'[window'[f]] = cur)
      /\ \A c \in Commands : c \in bus => c \in bus'
      /\ \A c \in Commands : cur = c => c \in bus'
  <2> HIDE DEF PumpInv, Ledger
  <2>1. TypeOK /\ SequencesAreGiven /\ cur \in Rows /\ StoreCopy(cur)
    BY <1>1
  <2>2. \A c \in Commands : c \notin Facts
    BY RowIds
  <2> QED
    BY <2>1, <2>2, StoreCopyFacts, SMT
<1>3. CommandsOwe'
  <2>1. \A c \in Commands : Served(c) => Served(c)'
    BY <1>1, <1>2 DEF Served, SequencesAreGiven, TypeOK
  <2>2. \A c \in Commands : cur' = c => cur = c
    BY RowIds DEF PublishAcked, PublishAckLost, Release
  <2>3. \A c \in Commands : cur = c => Served(c)'
    BY <1>2 DEF Served
  <2> QED
    BY <1>1, <2>1, <2>2, <2>3 DEF Ledger, CommandsOwe
<1>4. ASSUME NEW f \in Facts
      PROVE  RescueIsLast(f)'
  <2>1. cur' = f => cur = f
    BY RowIds DEF PublishAcked, PublishAckLost, Release
  <2>2. f # cur => carry'[f] = carry[f]
    BY <1>1 DEF PublishAcked, PublishAckLost, TypeOK
  <2> QED
    BY <1>1, <2>1, <2>2 DEF Ledger, RescueIsLast
<1>5. CopiesKnown'
  <2>1. \A f \in Facts : window'[f] # 0 => stream'[window'[f]] \in {0, f}
    BY <1>1, <1>2 DEF Ledger, CopiesKnown, SequencesAreGiven, TypeOK
  <2>2. \A f \in Facts : row[f] = "published" => f # cur
    BY DEF PumpInv, PumpOnCourse
  <2>3. CASE PublishAcked
    <3>1. /\ orphans' = orphans \ {Copy(cur)}
          /\ \A f \in Facts :
                carry'[f] = IF f = cur THEN carry[f] \cup {Copy(cur)} ELSE carry[f]
      BY <2>3 DEF PublishAcked
    <3>2. \A f \in Facts : \A s \in Seqs : stream'[s] = f /\ s = Copy(cur) => f = cur
      <4>1. cur \in Facts => Copy(cur) = window'[cur]
        BY DEF Copy
      <4>2. cur \notin Facts => Copy(cur) = 0
        BY DEF Copy
      <4> QED
        BY <2>1, <4>1, <4>2, RowIds, OutboxConstants, SMT DEF Seqs
    <3>3. ASSUME NEW f \in Facts, NEW s \in Seqs, stream'[s] = f
          PROVE  CopyKnown(f, s)'
      <4>1. CASE s = Copy(cur)
        BY <3>1, <3>2, <3>3, <4>1 DEF CopyKnown
      <4>2. CASE s # Copy(cur)
        <5>1. CopyKnown(f, s)
          BY <1>2, <3>3, <4>2 DEF Ledger, CopiesKnown
        <5> QED
          BY <1>1, <3>1, <4>2, <5>1 DEF CopyKnown, Named
      <4> QED
        BY <4>1, <4>2
    <3> QED
      BY <1>1, <2>1, <2>2, <3>1, <3>3 DEF Ledger, CopiesKnown
  <2>4. CASE PublishAckLost
    <3>1. /\ orphans' = orphans \cup ({Copy(cur)} \ ({0} \cup Carried))
          /\ carry' = carry /\ AckLoss
      BY <2>4 DEF PublishAckLost
    <3>2. ASSUME NEW f \in Facts, NEW s \in Seqs, stream'[s] = f
          PROVE  CopyKnown(f, s)'
      <4>1. CASE stream'[s] = stream[s]
        <5>1. CopyKnown(f, s)
          BY <3>2, <4>1 DEF Ledger, CopiesKnown
        <5> QED
          BY <1>1, <3>1, <5>1 DEF CopyKnown, Named
      <4>2. CASE stream'[s] # stream[s]
        <5>1. s = Copy(cur) /\ ~(s <= len) /\ s # 0
          BY <1>2, <4>2, OutboxConstants, SMT DEF Seqs
        <5>2. s \notin Carried
          BY <1>1, <5>1 DEF Carried, SequencesAreGiven
        <5> QED
          BY <3>1, <5>1, <5>2 DEF CopyKnown
      <4> QED
        BY <4>1, <4>2
    <3> QED
      BY <1>1, <2>1, <3>1, <3>2 DEF Ledger, CopiesKnown
  <2> QED
    BY <2>3, <2>4
<1> QED
  BY <1>3, <1>4, <1>5 DEF Ledger

\* A reconciled carry is named by the command of its fact, and nothing that was
\* named before is forgotten.
LEMMA ReconcileStepKeeps ==
    ASSUME PumpInv, Ledger, NEW f \in Facts, Reconcile(f) \/ ReconcileUnconfirmed(f)
    PROVE  Ledger'
<1> DEFINE r == RescueOf[f]
<1>1. /\ TypeOK /\ EnqueueRescue(f) /\ row[f] = "dropped" /\ carry[f] # {} /\ r \in Commands
      /\ cur = 0 /\ cur' = 0 /\ ppc' # "acked"
      /\ UNCHANGED <<seqs, deleted, stream, window, orphans, bus>>
  BY RowIds DEF PumpInv, PumpOnCourse, Reconcile, ReconcileUnconfirmed, EnqueueRescue, pass,
     broker, AbandonPass
<1>2. /\ \A i \in Rows : row'[i] = IF i = r /\ row[i] \in {"absent", "dropped"}
                                   THEN "pending" ELSE row[i]
      /\ \A c \in Commands : names'[c] = IF c = r /\ row[c] \in {"absent", "dropped"}
                                         THEN carry[f] ELSE names[c]
  BY <1>1, RowIds DEF EnqueueRescue, TypeOK
<1>3. names'[r] = carry[f] /\ (names[r] = {} \/ names[r] = carry[f])
  BY <1>1, <1>2 DEF Ledger, RescueIsLast
<1>4. \A c \in Commands : names'[c] = names[c] \/ (c = r /\ names[c] = {})
  BY <1>2, <1>3
<1>5. /\ \A g \in Facts : row'[g] = row[g]
      /\ \A g \in Facts : g # f => carry'[g] = carry[g]
      /\ carry'[f] = {} \/ carry'[f] = carry[f]
  <2>1. carry' = [carry EXCEPT ![f] = {}] \/ carry' = carry
    BY DEF Reconcile, ReconcileUnconfirmed
  <2>2. carry \in [Facts -> SUBSET Seqs]
    BY <1>1 DEF TypeOK
  <2>3. \A g \in Facts : row'[g] = row[g]
    BY <1>1, <1>2, RowIds
  <2> QED
    BY <2>1, <2>2, <2>3
<1>6. CommandsOwe'
  <2>1. \A d \in Deletions : CommandOf[d] # r
    BY CommandsAreOwn
  <2>2. \A c \in Commands : row'[c] \in {"published", "dropped"} =>
            row[c] = row'[c] /\ names'[c] = names[c]
    BY <1>2, RowIds
  <2>3. \A e \in Deletions \ deleted : row[CommandOf[e]] = "absent" /\ names[CommandOf[e]] = {}
    BY DEF Ledger, CommandsOwe
  <2>4. \A e \in Deletions \ deleted : row'[CommandOf[e]] = "absent" /\ names'[CommandOf[e]] = {}
    BY <1>1, <1>2, <2>1, <2>3, RowIds
  <2> QED
    BY <1>1, <1>2, <2>2, <2>4, RowIds DEF Ledger, CommandsOwe, Served
<1>7. ASSUME NEW g \in Facts
      PROVE  RescueIsLast(g)'
  <2>1. CASE g = f
    BY <1>1, <1>3, <1>5, <2>1, RowIds DEF RescueIsLast
  <2>2. CASE g # f
    <3>1. RescueOf[g] # r /\ RescueOf[g] \in Commands /\ RescueOf[g] \in Rows
      BY <2>2, CommandsAreOwn, RowIds
    <3>2. row'[RescueOf[g]] = row[RescueOf[g]] /\ names'[RescueOf[g]] = names[RescueOf[g]]
      BY <1>2, <3>1
    <3> QED
      BY <1>1, <1>5, <2>2, <3>2, RowIds DEF Ledger, RescueIsLast
  <2> QED
    BY <2>1, <2>2
<1>8. CopiesKnown'
  <2>1. \A s \in Named : s \in Named'
    BY <1>4 DEF Named
  <2>2. \A s \in carry[f] : s \in Named'
    BY <1>1, <1>3 DEF Named
  <2>3. ASSUME NEW g \in Facts, NEW s \in Seqs, stream'[s] = g
        PROVE  CopyKnown(g, s)'
    <3>1. CopyKnown(g, s)
      BY <1>1, <2>3 DEF Ledger, CopiesKnown
    <3> QED
      BY <1>1, <1>5, <2>1, <2>2, <3>1 DEF CopyKnown
  <2> QED
    BY <1>1, <1>5, <2>3 DEF Ledger, CopiesKnown
<1> QED
  BY <1>6, <1>7, <1>8 DEF Ledger

\* A deletion hands the recorded sequences of its facts to its own command and
\* takes only commands along that were published.
LEMMA DeleteStepKeeps ==
    ASSUME PumpInv, Ledger, NEW d \in Deletions, Delete(d)
    PROVE  Ledger'
<1> DEFINE scope == {f \in ScopeOf[d] : row[f] # "absent"}
           found == UNION {seqs[f] : f \in scope}
           own == CommandOf[d]
<1>1. /\ TypeOK /\ d \notin deleted /\ deleted' = deleted \cup {d} /\ own \in Commands
      /\ UNCHANGED <<ppc, cur, carry, stream, window, bus, orphans>>
  BY RowIds DEF PumpInv, Delete, pass, broker
<1>2. row[own] = "absent" /\ names[own] = {}
  BY <1>1 DEF Ledger, CommandsOwe
<1>3. /\ \A c \in Commands : names'[c] = IF c = own THEN found ELSE names[c]
      /\ \A f \in Facts : seqs'[f] = IF f \in scope THEN {} ELSE seqs[f]
  <2>1. names \in [Commands -> SUBSET Seqs]
    BY <1>1 DEF TypeOK
  <2>2. names' = [names EXCEPT ![own] = found]
    BY DEF Delete
  <2>3. \A f \in Facts : seqs'[f] = IF f \in scope THEN {} ELSE seqs[f]
    BY DEF Delete
  <2> QED
    BY <1>1, <2>1, <2>2, <2>3
<1>4. PICK spent \in SUBSET Spent :
         row' = [i \in Rows |->
                    IF i \in scope \cup spent THEN "dropped"
                    ELSE IF i = TombOf[d] \/ (i = CommandOf[d] /\ found # {}) THEN "pending"
                    ELSE row[i]]
  BY DEF Delete
<1>5. scope \subseteq Facts
  BY OutboxConstants
<1>6. \A f \in Facts : row'[f] = IF f \in scope THEN "dropped" ELSE row[f]
  BY <1>4, RowIds DEF Spent
<1>7. \A c \in Commands : \/ row'[c] = row[c]
                          \/ c = own /\ row'[c] = "pending"
                          \/ row[c] = "published" /\ row'[c] = "dropped"
  BY <1>4, <1>5, RowIds, SMT DEF Spent
<1> HIDE DEF scope, found, own
<1>8. CommandsOwe'
  <2>1. ASSUME NEW e \in Deletions \ deleted'
        PROVE  row'[CommandOf[e]] = "absent" /\ names'[CommandOf[e]] = {}
    <3>1. CommandOf[e] # own /\ CommandOf[e] \in Commands
      BY <1>1, CommandsAreOwn, RowIds DEF own
    <3>2. row[CommandOf[e]] = "absent" /\ names[CommandOf[e]] = {}
      BY <1>1 DEF Ledger, CommandsOwe
    <3> QED
      BY <1>3, <1>7, <3>1, <3>2
  <2>2. ASSUME NEW c \in Commands, row'[c] \in {"published", "dropped"}
        PROVE  Served(c)'
    <3>1. row[c] \in {"published", "dropped"} /\ c # own
      BY <1>2, <1>7, <2>2
    <3>2. Served(c)
      BY <3>1 DEF Ledger, CommandsOwe
    <3> QED
      BY <1>1, <1>3, <3>1, <3>2 DEF Served
  <2>3. ASSUME NEW c \in Commands, ppc = "acked", cur = c
        PROVE  Served(c)'
    <3>1. c # own /\ Served(c)
      BY <1>2, <2>3 DEF PumpInv, PumpOnCourse, Ledger, CommandsOwe
    <3> QED
      BY <1>1, <1>3, <3>1 DEF Served
  <2> QED
    BY <1>1, <2>1, <2>2, <2>3 DEF CommandsOwe
<1>9. ASSUME NEW f \in Facts
      PROVE  RescueIsLast(f)'
  <2>1. RescueOf[f] # own /\ RescueOf[f] \in Commands
    BY CommandsAreOwn, RowIds DEF own
  <2>2. /\ names'[RescueOf[f]] = names[RescueOf[f]]
        /\ row'[RescueOf[f]] # "absent" => row[RescueOf[f]] # "absent"
    BY <1>3, <1>7, <2>1
  <2>3. row[f] = "dropped" => row'[f] = "dropped"
    BY <1>6
  <2> QED
    BY <1>1, <2>2, <2>3 DEF Ledger, RescueIsLast
<1>10. CopiesKnown'
  <2>1. ASSUME NEW s \in Named
        PROVE  s \in Named'
    <3>1. PICK c \in Commands : s \in names[c]
      BY DEF Named
    <3>2. s \in names'[c]
      BY <1>2, <1>3, <3>1
    <3> QED
      BY <3>2 DEF Named
  <2>2. \A s \in found : s \in Named'
    BY <1>1, <1>3 DEF Named
  <2>3. ASSUME NEW f \in Facts, NEW s \in Seqs, stream'[s] = f
        PROVE  CopyKnown(f, s)'
    <3>1. CopyKnown(f, s)
      BY <1>1, <2>3 DEF Ledger, CopiesKnown
    <3>2. CASE f \in scope /\ s \in seqs[f]
      BY <1>6, <2>2, <3>2 DEF CopyKnown, found
    <3>3. CASE ~(f \in scope /\ s \in seqs[f])
      BY <1>1, <1>3, <1>6, <2>1, <3>1, <3>3 DEF CopyKnown
    <3> QED
      BY <3>2, <3>3
  <2> QED
    BY <1>1, <1>3, <1>6, <2>3 DEF Ledger, CopiesKnown
<1> QED
  BY <1>8, <1>9, <1>10 DEF Ledger

\* Every step is of one of these kinds.
LEMMA StepKinds ==
    ASSUME [Next]_vars
    PROVE  \/ StillStep \/ RowStep \/ CommitMark \/ CommitUnconfirmed \/ WorldStep
           \/ PublishAcked \/ PublishAckLost
           \/ \E f \in Facts : Reconcile(f) \/ ReconcileUnconfirmed(f)
           \/ \E d \in Deletions : Delete(d)
BY DEF Next, PumpStep, PumpFault, StillStep, RowStep, WorldStep

\* Every step keeps the ledger.
LEMMA LedgerKept ==
    ASSUME PumpInv, Ledger, [Next]_vars
    PROVE  Ledger'
<1>0. TypeOK /\ PumpOnCourse
  BY DEF PumpInv
<1>1. CASE StillStep
  BY <1>0, <1>1, StillSteps, StillKeeps
<1>2. CASE RowStep
  BY <1>2, RowStepKeeps
<1>3. CASE CommitMark \/ CommitUnconfirmed
  BY <1>3, MarkStepKeeps
<1>4. CASE WorldStep
  BY <1>4, WorldStepKeeps
<1>5. CASE PublishAcked \/ PublishAckLost
  BY <1>5, PublishStepKeeps
<1>6. CASE \E f \in Facts : Reconcile(f) \/ ReconcileUnconfirmed(f)
  BY <1>6, ReconcileStepKeeps
<1>7. CASE \E d \in Deletions : Delete(d)
  BY <1>7, DeleteStepKeeps
<1> QED
  BY <1>1, <1>2, <1>3, <1>4, <1>5, <1>6, <1>7, StepKinds

-----------------------------------------------------------------------------
(***************************************************************************)
(* The theorems.                                                           *)
(***************************************************************************)

\* The outbox starts in the inductive invariant.
LEMMA OutboxInit == Init => OutboxInv
<1> SUFFICES ASSUME Init PROVE OutboxInv
  OBVIOUS
<1>1. TypeOK
  BY OutboxConstants, SMT DEF Init, TypeOK, RowStates
<1>2. PumpOnCourse
  BY RowIds DEF Init, PumpOnCourse
<1>3. SequencesAreGiven
  BY OutboxConstants, SMT DEF Init, SequencesAreGiven, Seqs
<1>4. CommandsOwe /\ \A f \in Facts : RescueIsLast(f)
  BY RowIds DEF Init, CommandsOwe, RescueIsLast
<1>5. CopiesKnown
  BY RowIds DEF Init, CopiesKnown
<1> QED
  BY <1>1, <1>2, <1>3, <1>4, <1>5 DEF OutboxInv, PumpInv, Ledger

\* The inductive invariant holds in every reachable state.
LEMMA OutboxInvariant == Spec => []OutboxInv
<1>1. Init => OutboxInv
  BY OutboxInit
<1>2. OutboxInv /\ [Next]_vars => OutboxInv'
  <2> SUFFICES ASSUME OutboxInv, [Next]_vars PROVE OutboxInv'
    OBVIOUS
  <2>1. TypeOK /\ PumpOnCourse /\ SequencesAreGiven /\ PumpInv /\ Ledger
    BY DEF OutboxInv, PumpInv
  <2>2. TypeOK' /\ PumpOnCourse' /\ SequencesAreGiven'
    BY <2>1, TypesKept, CourseKept, SequencesKept
  <2>3. Ledger'
    BY <2>1, LedgerKept
  <2> QED
    BY <2>2, <2>3 DEF OutboxInv, PumpInv
<1> QED
  BY <1>1, <1>2, PTL DEF Spec

\* Every variable of the outbox keeps its type: in particular the pump never
\* holds the lock of a row other than one it may publish, and sequences stay
\* below the number of copies the broker accepted.
THEOREM OutboxTypes == Spec => []TypeOK
<1>1. OutboxInv => TypeOK
  BY DEF OutboxInv, PumpInv
<1> QED
  BY <1>1, OutboxInvariant, PTL

\* Nothing is published for a row that a deletion removed while the pump's
\* session lives: publish_locked publishes under the row lock, and the
\* statement that deletes the row waits for it.
THEOREM LockCoversThePublication == Spec => NothingPublishedAfterDeletion
<1> DEFINE Step == \A f \in Facts : row[f] = "dropped" /\ held = cur =>
                      CopiesOf(f)' \subseteq CopiesOf(f)
<1>1. OutboxInv /\ [Next]_vars => [Step]_vars
  <2> SUFFICES ASSUME OutboxInv, Next, NEW f \in Facts, row[f] = "dropped", held = cur
               PROVE  CopiesOf(f)' \subseteq CopiesOf(f)
    BY DEF vars
  <2>1. TypeOK /\ PumpOnCourse /\ SequencesAreGiven /\ cur # f
    BY DEF OutboxInv, PumpInv, PumpOnCourse
  <2>2. CASE PublishAcked \/ PublishAckLost
    <3>1. cur \in Rows /\ StoreCopy(cur)
      BY <2>1, <2>2 DEF PublishAcked, PublishAckLost, PumpOnCourse
    <3>2. \A s \in Seqs : stream'[s] = stream[s] \/ stream'[s] = cur
      BY <2>1, <3>1, StoreCopyFacts
    <3> QED
      BY <2>1, <3>2 DEF CopiesOf
  <2>3. CASE StillStep \/ RowStep
    <3>1. stream' = stream
      BY <2>1, <2>3, StillSteps, RowStepKeeps DEF Still, OutboxInv
    <3> QED
      BY <3>1 DEF CopiesOf
  <2>4. CASE WorldStep
    <3>1. \A s \in Seqs : stream'[s] \in {0, stream[s]}
      BY <2>4 DEF WorldStep, Crash, ExpireWindow, EdgeErase, broker
    <3> QED
      BY <3>1, RowIds DEF CopiesOf
  <2>5. CASE \/ CommitMark \/ CommitUnconfirmed
             \/ \E g \in Facts : Reconcile(g) \/ ReconcileUnconfirmed(g)
             \/ \E d \in Deletions : Delete(d)
    <3>1. stream' = stream
      BY <2>5 DEF CommitMark, CommitUnconfirmed, Reconcile, ReconcileUnconfirmed, Delete, broker
    <3> QED
      BY <3>1 DEF CopiesOf
  <2> QED
    BY <2>2, <2>3, <2>4, <2>5, StepKinds
<1>2. Spec => [][Step]_vars
  <2> HIDE DEF Step
  <2> QED
    BY <1>1, OutboxInvariant, PTL DEF Spec
<1> QED
  BY <1>2 DEF NothingPublishedAfterDeletion

\* A tombstone that left the outbox was acknowledged.
TombstonesAreOwed == \A t \in Tombs : row[t] = "dropped" => t \in acked

\* Only a deletion drops tombstones, and of these only acknowledged ones.
LEMMA TombstonesKept ==
    ASSUME TypeOK, PumpOnCourse, TombstonesAreOwed, [Next]_vars
    PROVE  TombstonesAreOwed'
<1> DEFINE Goal(t) == row'[t] = "dropped" => t \in acked'
<1> SUFFICES ASSUME NEW t \in Tombs PROVE Goal(t)
  BY DEF TombstonesAreOwed
<1>0. /\ t \in Rows /\ t \notin Facts /\ t \notin Commands /\ row \in [Rows -> RowStates]
      /\ row[t] = "dropped" => t \in acked
  BY OutboxConstants, RowIds DEF TypeOK, TombstonesAreOwed
<1>1. CASE StillStep
  BY <1>0, <1>1, StillSteps DEF Still
<1>2. CASE WorldStep \/ PublishAcked \/ PublishAckLost
  BY <1>0, <1>2
     DEF WorldStep, Crash, ExpireWindow, EdgeErase, PublishAcked, PublishAckLost, table
<1>3. CASE RowStep
  BY <1>0, <1>3 DEF RowStep, EnqueueFact, Undeliverable, Acknowledge
<1>4. CASE CommitMark \/ CommitUnconfirmed
  BY <1>0, <1>4 DEF CommitMark, CommitUnconfirmed, Marked
<1>5. CASE \E f \in Facts : Reconcile(f) \/ ReconcileUnconfirmed(f)
  <2>1. PICK f \in Facts : EnqueueRescue(f)
    BY <1>5 DEF Reconcile, ReconcileUnconfirmed
  <2>2. RescueOf[f] # t
    BY <1>0, RowIds
  <2> QED
    BY <1>0, <2>1, <2>2 DEF EnqueueRescue
<1>6. CASE \E d \in Deletions : Delete(d)
  <2>1. PICK d \in Deletions : Delete(d)
    BY <1>6
  <2>2. ScopeOf[d] \subseteq Facts
    BY OutboxConstants
  <2> QED
    BY <1>0, <2>1, <2>2 DEF Delete, Spent
<1> HIDE DEF Goal
<1> QED
  BY <1>1, <1>2, <1>3, <1>4, <1>5, <1>6, StepKinds

\* An obligation is never lost with the tenant's rows: a deletion takes along
\* only acknowledged tombstones and commands that reached the broker, and what
\* such a command names is erased or still to be consumed.
THEOREM NoObligationIsLost == Spec => []ObligationsSurviveDeletions
<1>1. Init => TombstonesAreOwed
  BY RowIds DEF Init, TombstonesAreOwed
<1>2. OutboxInv /\ TombstonesAreOwed /\ [Next]_vars => TombstonesAreOwed'
  BY TombstonesKept DEF OutboxInv, PumpInv
<1>3. OutboxInv /\ TombstonesAreOwed => ObligationsSurviveDeletions
  BY DEF OutboxInv, Ledger, CommandsOwe, Served, TombstonesAreOwed,
     ObligationsSurviveDeletions
<1> QED
  BY <1>1, <1>2, <1>3, OutboxInvariant, PTL DEF Spec

\* Whatever fails, a copy of a deleted fact is named by an erasure command or
\* still carried, unless the service never learned of it: its acknowledgement
\* was lost or its carry died with the process.
OnlyOrphansAreUnnamed ==
    \A f \in Facts : row[f] = "dropped" => CopiesOf(f) \subseteq Named \cup carry[f] \cup orphans

\* The same for a published row and the sequences it records.
OnlyOrphansAreUnrecorded ==
    \A f \in Facts : row[f] = "published" => CopiesOf(f) \subseteq seqs[f] \cup orphans

\* The inductive invariant knows where the sequence of every copy is.
LEMMA CopiesAreKnown ==
    OutboxInv => OnlyOrphansAreUnnamed /\ OnlyOrphansAreUnrecorded
<1>1. OutboxInv => OnlyOrphansAreUnnamed
  BY DEF OutboxInv, Ledger, CopiesKnown, CopyKnown, CopiesOf, OnlyOrphansAreUnnamed
<1>2. OutboxInv => OnlyOrphansAreUnrecorded
  BY DEF OutboxInv, Ledger, CopiesKnown, CopyKnown, CopiesOf, OnlyOrphansAreUnrecorded
<1> QED
  BY <1>1, <1>2

\* Under every fault of the model only orphaned copies escape the bookkeeping
\* of stream erasure: failed and unconfirmed commits, lost sessions, repeated
\* publications and deletions between any two steps lose no sequence.
THEOREM OnlyOrphansEscape == Spec => [](OnlyOrphansAreUnnamed /\ OnlyOrphansAreUnrecorded)
BY CopiesAreKnown, OutboxInvariant, PTL

\* When no acknowledgement is lost and the process does not crash, every copy
\* of a deleted fact is named by an erasure command or carried by the pump.
THEOREM DeletedCopiesStayNamed ==
    ASSUME ~AckLoss, ~Crashing
    PROVE  Spec => []DeletedCopiesAreNamed
<1>1. OutboxInv => DeletedCopiesAreNamed
  BY CopiesAreKnown
     DEF OnlyOrphansAreUnnamed, DeletedCopiesAreNamed, OutboxInv, Ledger, CopiesKnown
<1> QED
  BY <1>1, OutboxInvariant, PTL

\* Under the same conditions a published row records every copy of its fact,
\* those of attempts whose commit failed included.
THEOREM PublishedCopiesStayRecorded ==
    ASSUME ~AckLoss, ~Crashing
    PROVE  Spec => []PublishedRowsRecordTheirCopies
<1>1. OutboxInv => PublishedRowsRecordTheirCopies
  BY CopiesAreKnown
     DEF OnlyOrphansAreUnrecorded, PublishedRowsRecordTheirCopies, OutboxInv, Ledger, CopiesKnown
<1> QED
  BY <1>1, OutboxInvariant, PTL
=============================================================================
