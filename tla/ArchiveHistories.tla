--------------------------- MODULE ArchiveHistories ---------------------------
(***************************************************************************)
(* The shared rows of Archive beside the histories that ArchiveReconciler  *)
(* builds from the same exports.                                           *)
(***************************************************************************)
EXTENDS Archive, Reconciliation

CONSTANT Snapshots  \* sequences of snapshots the reconciliation is compared on

\* What does not depend on the state is evaluated where nothing has happened.
Fresh == inputs = 0

\* reconcile (reconciliation/core.rs) keeps, for each conversation, message,
\* project, instruction, document and asset, one observation for each listing
\* and one for each later omission, and one revision for each content,
\* although the identities come and go, repeat and return to an old content.
\* An instruction is omitted by a listing of its project, not by an archive: an
\* archive that lists the project twice may have it present and missing.
\* The counters that archive_report and cumulative_report keep on the way are
\* totals of the histories they end with: of "revisions created" those of
\* conversations and messages, of the reused ones those of messages alone.
ReconciliationIsFaithful ==
    Fresh => \A snapshots \in Snapshots : IsFaithful(snapshots, Reconcile(snapshots))

\* What the parser returns for export e.
Parsed(e) ==
    LET reading == Reading[upload[e]][parser[e]]
        body(d) == SetToSeq({[id |-> m, text |-> Body[d][m].payload,
                              parent |-> IF Body[d][m].parent = None THEN <<>> ELSE <<Body[d][m].parent>>] :
                                 m \in DOMAIN Body[d]})
    IN [archive |-> e,
        conversations |-> SetToSeq({[id |-> x, text |-> reading[x].digest, messages |-> body(reading[x].digest)] :
                                       x \in {x \in Conversations : reading[x] # None}}),
        projects |-> SetToSeq({[id |-> x, text |-> reading[x].digest, instructions |-> <<>>] :
                                  x \in {x \in Projects : reading[x] # None}}),
        documents |-> <<>>, assets |-> <<>>]

Presenters(histories, id) ==
    IF id \in DOMAIN histories
    THEN {o.archive : o \in {o \in Range(histories[id].observations) : o.digest # <<>>}}
    ELSE {}

\* The rows of a conversation and its history.  The rows repeat a revision that
\* returns, the history reuses it, hence sets of contents.
RowMatches(record, history) ==
    /\ {v.digest : v \in record.revisions} = {d.text : d \in Range(history.revisions)}
    /\ \A m \in Messages : Presenters(history.messages, m) =
          IF m \in Present(record) THEN record.messages[m].heard ELSE {}

RowsMatch(told) ==
    /\ \A x \in Projects : Observers(db[x]) = Presenters(told.projects, x)
    /\ \A x \in Conversations :
          /\ Observers(db[x]) = Presenters(told.conversations, x)
          /\ db[x].row # None => RowMatches(db[x], told.conversations[x])

\* The shared rows (persist_projection) and the reconciliation of the same
\* snapshots agree, as long as nothing was read again or deleted: on the
\* exports that present an entity or a message and on the contents there were.
RowsMatchTheReconciliation ==
    deletions = 0 /\ ran = {} =>
        LET order == SetToSortSeq(Imported, <)
        IN RowsMatch(Reconcile([i \in DOMAIN order |-> Parsed(order[i])]))
=============================================================================
