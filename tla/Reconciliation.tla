---------------------------- MODULE Reconciliation ----------------------------
(***************************************************************************)
(* ArchiveReconciler: parsed snapshots of one account, in order, become    *)
(* histories of revisions and observations, a report for each snapshot and *)
(* one over all.                                                           *)
(*                                                                         *)
(* A snapshot lists what the parser returned, in its order and with its    *)
(* repetitions.  A digest is the evidence it is computed from.             *)
(***************************************************************************)
EXTENDS Naturals, Sequences, SequencesExt, FiniteSets

NewHistory == [revisions |-> <<>>, observations |-> <<>>]

Ids(items) == {items[i].id : i \in DOMAIN items}

\* or_insert_with
HistoryOf(histories, id, new) == IF id \in DOMAIN histories THEN histories[id] ELSE new

With(histories, id, history) ==
    [i \in DOMAIN histories \cup {id} |-> IF i = id THEN history ELSE histories[i]]

\* Mutant: a revision is looked for at the end of the chain.
RecordPresentLast(history, archive, digest, orphaned) ==
    [history EXCEPT
        !.revisions = IF @ # <<>> /\ Last(@) = digest THEN @ ELSE Append(@, digest),
        !.observations = Append(@, [archive |-> archive, digest |-> <<digest>>, orphaned |-> orphaned])]

\* record_present: a digest the chain holds is reused.
RecordPresent(history, archive, digest, orphaned) ==
    [history EXCEPT
        !.revisions = IF digest \in Range(@) THEN @ ELSE Append(@, digest),
        !.observations = Append(@, [archive |-> archive, digest |-> <<digest>>, orphaned |-> orphaned])]

Creates(history, digest) == IF digest \in Range(history.revisions) THEN 0 ELSE 1

\* missing_observation
WithMissing(history, archive) ==
    [history EXCEPT !.observations = Append(@, [archive |-> archive, digest |-> <<>>, orphaned |-> FALSE])]

\* record_missing_canvas, record_missing_assets: what was known and is not here.
RecordMissing(histories, present, archive) ==
    [id \in DOMAIN histories |->
        IF id \in present THEN histories[id] ELSE WithMissing(histories[id], archive)]

\* observe_canvas, observe_assets; the digest covers every field.
ObserveItems(histories, items, archive) ==
    FoldLeft(LAMBDA hs, item :
                With(hs, item.id, RecordPresent(HistoryOf(hs, item.id, NewHistory), archive, item, FALSE)),
             histories, items)

-----------------------------------------------------------------------------
(* Projects and their instructions *)

\* project_digest leaves the instructions out.
ProjectDigest(project) == [id |-> project.id, text |-> project.text]

\* instruction_digest covers the place.
InstructionDigest(project, i) == <<i, project.instructions[i]>>

\* instruction_external_id: one without an id is known by its place.
InstructionId(project, i) ==
    LET id == project.instructions[i].id IN IF id = <<>> THEN <<project.id, i>> ELSE id

\* The instructions as items: an identity and the evidence.
InstructionItems(project) ==
    [i \in DOMAIN project.instructions |->
        [id |-> InstructionId(project, i), evidence |-> InstructionDigest(project, i)]]

\* One project of observe_projects, with the instructions it lists.
ObserveInstructions(history, items, archive) ==
    [history EXCEPT !.instructions = RecordMissing(ObserveItems(@, items, archive), Ids(items), archive)]

ObserveProject(histories, project, archive) ==
    With(histories, project.id,
         ObserveInstructions(
             RecordPresent(HistoryOf(histories, project.id, NewHistory @@ [instructions |-> <<>>]),
                           archive, ProjectDigest(project), FALSE),
             InstructionItems(project), archive))

\* record_missing_projects: the instructions are missing with their project.
MissingProjects(histories, present, archive) ==
    [id \in DOMAIN histories |->
        IF id \in present THEN histories[id]
        ELSE [WithMissing(histories[id], archive)
                 EXCEPT !.instructions = RecordMissing(@, {}, archive)]]

-----------------------------------------------------------------------------
(* Conversations and their messages *)

\* conversation_digest: the stable sort by id forgets the order of messages
\* with different ids.
ConversationDigest(c) ==
    [id |-> c.id, text |-> c.text,
     messages |-> [id \in Ids(c.messages) |-> SelectSeq(c.messages, LAMBDA m : m.id = id)]]

\* graph_evidence: what is wrong with the parent of a message, if anything.
Warning(snapshot, c, m) ==
    IF m.parent = <<>> THEN "none"
    ELSE IF m.parent[1] = m.id THEN "self_parent"
    ELSE IF m.parent[1] \in Ids(c.messages) THEN "none"
    ELSE IF \E i \in DOMAIN snapshot.conversations :
                m.parent[1] \in Ids(snapshot.conversations[i].messages)
         THEN "cross_conversation_parent"
    ELSE "missing_parent"

Orphaned(snapshot) ==
    UNION {{<<c.id, m.id>> : m \in {m \in Range(c.messages) : Warning(snapshot, c, m) # "none"}} :
              c \in Range(snapshot.conversations)}

NoStatistics == [new |-> 0, reused |-> 0, present |-> 0, missing |-> 0]

\* add_statistics
AddStatistics(s, t) ==
    [new |-> s.new + t.new, reused |-> s.reused + t.reused,
     present |-> s.present + t.present, missing |-> s.missing + t.missing]

\* What one more listing adds to the statistics of messages.
Observation(history, digest) ==
    [NoStatistics EXCEPT !.new = Creates(history, digest), !.reused = 1 - Creates(history, digest)]

\* The loop of observe_conversation over the messages of conversation c.
ObserveMessage(acc, archive, orphans, c, m) ==
    [messages |-> With(acc.messages, m.id,
         RecordPresent(HistoryOf(acc.messages, m.id, NewHistory), archive, m, <<c, m.id>> \in orphans)),
     statistics |-> AddStatistics(acc.statistics, Observation(HistoryOf(acc.messages, m.id, NewHistory), m))]

\* observe_conversation on the history of c, with the statistics so far.  The
\* reuse of a revision is counted for messages alone.
ObserveHistory(history, statistics, archive, orphans, c) ==
    LET start == [messages |-> history.messages,
                  statistics |-> [statistics EXCEPT !.new = @ + Creates(history, ConversationDigest(c))]]
    IN FoldLeft(LAMBDA acc, m : ObserveMessage(acc, archive, orphans, c.id, m), start, c.messages)
       @@ RecordPresent(history, archive, ConversationDigest(c), FALSE)

\* The fields of r but the statistics.
HistoryIn(r) == [messages |-> r.messages, revisions |-> r.revisions, observations |-> r.observations]

WithConversation(acc, id, observed) ==
    [acc EXCEPT !.histories = With(@, id, HistoryIn(observed)), !.statistics = observed.statistics]

ObserveConversation(acc, archive, orphans, c) ==
    WithConversation(acc, c.id,
        ObserveHistory(HistoryOf(acc.histories, c.id, NewHistory @@ [messages |-> <<>>]),
                       acc.statistics, archive, orphans, c))

\* The loop over the conversations of one snapshot, and those it omits.
ObserveListed(histories, snapshot, orphans) ==
    FoldLeft(LAMBDA acc, c : ObserveConversation(acc, snapshot.archive, orphans, c),
             [histories |-> histories,
              statistics |-> [NoStatistics EXCEPT !.present = Len(snapshot.conversations),
                                !.missing = Cardinality(DOMAIN histories \ Ids(snapshot.conversations))]],
             snapshot.conversations)

ObserveConversations(histories, snapshot) ==
    [ObserveListed(histories, snapshot, Orphaned(snapshot))
        EXCEPT !.histories = RecordMissing(@, Ids(snapshot.conversations), snapshot.archive)]

-----------------------------------------------------------------------------
(* Reports *)

Sum(f) == FoldFunction(+, 0, f)
Count(items, Is(_)) == Cardinality({i \in DOMAIN items : Is(items[i])})

\* archive_report
ArchiveReport(snapshot, statistics) ==
    LET assets(availability) == Count(snapshot.assets, LAMBDA a : a.availability = availability)
        warned(c) == Count(c.messages, LAMBDA m : Warning(snapshot, c, m) # "none")
    IN [archive |-> snapshot.archive,
        conversations |-> Len(snapshot.conversations),
        messages |-> Sum([i \in DOMAIN snapshot.conversations |-> Len(snapshot.conversations[i].messages)]),
        instructions |-> Sum([i \in DOMAIN snapshot.projects |-> Len(snapshot.projects[i].instructions)]),
        verified |-> assets("verified"),
        orphans |-> Sum([i \in DOMAIN snapshot.conversations |-> warned(snapshot.conversations[i])]),
        gaps |-> {g \in {"projects_unobserved", "documents_unobserved", "assets_unobserved",
                         "assets_missing", "assets_quarantined"} :
                     \/ g = "projects_unobserved" /\ snapshot.projects = <<>>
                     \/ g = "documents_unobserved" /\ snapshot.documents = <<>>
                     \/ g = "assets_unobserved" /\ snapshot.assets = <<>>
                     \/ g = "assets_missing" /\ assets("missing") > 0
                     \/ g = "assets_quarantined" /\ assets("quarantined") > 0},
        statistics |-> statistics]

Revisions(histories) == Sum([id \in DOMAIN histories |-> Len(histories[id].revisions)])

\* cumulative_report
CumulativeReport(conversations, projects, documents, assets, reports) ==
    [conversations |-> Cardinality(DOMAIN conversations),
     messages |-> Sum([id \in DOMAIN conversations |-> Cardinality(DOMAIN conversations[id].messages)]),
     conversationRevisions |-> Revisions(conversations),
     messageRevisions |-> Sum([id \in DOMAIN conversations |-> Revisions(conversations[id].messages)]),
     projectRevisions |-> Revisions(projects),
     documentRevisions |-> Revisions(documents),
     assetRevisions |-> Revisions(assets),
     gaps |-> UNION {reports[i].gaps : i \in DOMAIN reports},
     orphans |-> Sum([i \in DOMAIN reports |-> reports[i].orphans]),
     statistics |-> FoldLeft(LAMBDA s, r : AddStatistics(s, r.statistics), NoStatistics, reports)]

NothingReconciled ==
    [conversations |-> <<>>, projects |-> <<>>, documents |-> <<>>, assets |-> <<>>, reports |-> <<>>]

\* reconcile_additional_evidence, and the report of the round.
ReconcileRest(acc, snapshot, talks) ==
    LET a == snapshot.archive
    IN [conversations |-> talks.histories,
        projects |-> MissingProjects(
            FoldLeft(LAMBDA hs, p : ObserveProject(hs, p, a), acc.projects, snapshot.projects),
            Ids(snapshot.projects), a),
        documents |-> RecordMissing(ObserveItems(acc.documents, snapshot.documents, a),
                                    Ids(snapshot.documents), a),
        assets |-> RecordMissing(ObserveItems(acc.assets, snapshot.assets, a), Ids(snapshot.assets), a),
        reports |-> Append(acc.reports, ArchiveReport(snapshot, talks.statistics))]

\* One round of reconcile.
ReconcileSnapshot(acc, snapshot) ==
    ReconcileRest(acc, snapshot, ObserveConversations(acc.conversations, snapshot))

WithReport(acc) ==
    acc @@ [cumulative |-> CumulativeReport(acc.conversations, acc.projects, acc.documents,
                                            acc.assets, acc.reports)]

\* reconcile
Reconcile(snapshots) == WithReport(FoldLeft(ReconcileSnapshot, NothingReconciled, snapshots))

-----------------------------------------------------------------------------
(* What the result should be, stated on the snapshots *)

\* One identity in the order of the snapshots: what each one lists of it, or
\* that it is missing when it was listed before.  Listed(s) is the sequence of
\* digests that snapshot s gives it, Orphan(s) whether s has it without parent.
Observed(snapshots, Listed(_), Orphan(_), loses) ==
    LET at(k) ==
            LET s == snapshots[k]
                here == Listed(s)
            IN IF here # <<>>
               THEN [i \in DOMAIN here |-> [archive |-> s.archive, digest |-> <<here[i]>>, orphaned |-> Orphan(s)]]
               ELSE IF loses /\ \E j \in 1..(k - 1) : Listed(snapshots[j]) # <<>>
               THEN <<[archive |-> s.archive, digest |-> <<>>, orphaned |-> FALSE]>>
               ELSE <<>>
    IN FlattenSeq([k \in DOMAIN snapshots |-> at(k)])

\* The history is what was observed, and its chain has each digest once, in
\* the order of their first observation.
Faithful(history, observed) ==
    LET digests == SelectSeq(observed, LAMBDA o : o.digest # <<>>)
        first(d) == CHOOSE i \in DOMAIN digests :
                       digests[i].digest[1] = d /\ \A j \in 1..(i - 1) : digests[j].digest[1] # d
        chain == history.revisions
    IN /\ history.observations = observed
       /\ Range(chain) = {digests[i].digest[1] : i \in DOMAIN digests}
       /\ \A i, j \in DOMAIN chain : i < j => first(chain[i]) < first(chain[j])

The(items, id) == SelectSeq(items, LAMBDA x : x.id = id)
Map(f(_), items) == [i \in DOMAIN items |-> f(items[i])]
Told(s, c) == FlattenSeq(Map(LAMBDA x : x.messages, The(s.conversations, c)))

\* A message of conversation c that names a parent its own listing lacks, or
\* itself.
Stray(s, c, m) ==
    \E i \in DOMAIN s.conversations : s.conversations[i].id = c /\
        LET messages == Range(s.conversations[i].messages)
        IN \E x \in messages : x.id = m /\ x.parent # <<>> /\
               (x.parent[1] = m \/ ~\E y \in messages : <<y.id>> = x.parent)

\* Every listing of project p in snapshot s, or one that is empty: the loop of
\* observe_projects takes what a listing lacks for missing, so an instruction
\* of a project that is listed twice may be present and missing in one archive.
ListingsIn(s, p) ==
    LET listed == The(s.projects, p)
    IN IF listed = <<>> THEN <<[archive |-> s.archive, instructions |-> <<>>]>>
       ELSE Map(LAMBDA x : [archive |-> s.archive, instructions |-> InstructionItems(x)], listed)

Listings(snapshots, p) == FlattenSeq(Map(LAMBDA s : ListingsIn(s, p), snapshots))

\* Every item of a kind has its history; Items(s) is what snapshot s lists of
\* the kind, and a kind that loses records the omissions.
KindFaithful(histories, snapshots, Items(_), Digest(_), Orphan(_, _), loses) ==
    /\ DOMAIN histories = UNION {Ids(Items(s)) : s \in Range(snapshots)}
    /\ \A id \in DOMAIN histories :
          Faithful(histories[id], Observed(snapshots, LAMBDA s : Map(Digest, The(Items(s), id)),
                                           LAMBDA s : Orphan(s, id), loses))

Itself(x) == x
Never(s, id) == FALSE

HistoriesFaithful(snapshots, r) ==
    /\ KindFaithful(r.conversations, snapshots, LAMBDA s : s.conversations, ConversationDigest, Never, TRUE)
    /\ \A c \in DOMAIN r.conversations :
          KindFaithful(r.conversations[c].messages, snapshots, LAMBDA s : Told(s, c), Itself,
                       LAMBDA s, m : Stray(s, c, m), FALSE)
    /\ KindFaithful(r.projects, snapshots, LAMBDA s : s.projects, ProjectDigest, Never, TRUE)
    /\ \A p \in DOMAIN r.projects :
          KindFaithful(r.projects[p].instructions, Listings(snapshots, p), LAMBDA s : s.instructions,
                       Itself, Never, TRUE)
    /\ KindFaithful(r.documents, snapshots, LAMBDA s : s.documents, Itself, Never, TRUE)
    /\ KindFaithful(r.assets, snapshots, LAMBDA s : s.assets, Itself, Never, TRUE)

Observations(histories) == Sum([id \in DOMAIN histories |-> Len(histories[id].observations)])
OrphanedObservations(histories) ==
    Sum([id \in DOMAIN histories |-> Count(histories[id].observations, LAMBDA o : o.orphaned)])

\* No conversation of s tells a message twice.
ToldOnce(s) ==
    \A c \in Ids(s.conversations) : Cardinality(Ids(Told(s, c))) = Len(Told(s, c))

\* The totals of the reports, counted again on the histories.  New are the
\* revisions of conversations and messages, reused the observations of messages
\* that found their revision; the other kinds, which reconciliation/report.rs
\* does not except, are not counted.
ReportsAddUp(snapshots, r, total) ==
    /\ total.new = r.cumulative.conversationRevisions + r.cumulative.messageRevisions
    /\ total.reused + r.cumulative.messageRevisions =
          Sum([c \in DOMAIN r.conversations |-> Observations(r.conversations[c].messages)])
    /\ total.present + total.missing = Observations(r.conversations)
    /\ (\A s \in Range(snapshots) : ToldOnce(s)) => r.cumulative.orphans =
          Sum([c \in DOMAIN r.conversations |-> OrphanedObservations(r.conversations[c].messages)])
    /\ \A k \in DOMAIN snapshots : r.reports[k].gaps = {} =>
          snapshots[k].assets # <<>> /\ r.reports[k].verified = Len(snapshots[k].assets)

IsFaithful(snapshots, r) ==
    HistoriesFaithful(snapshots, r) /\ ReportsAddUp(snapshots, r, r.cumulative.statistics)
=============================================================================
