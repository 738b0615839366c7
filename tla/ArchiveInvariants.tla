-------------------------- MODULE ArchiveInvariants --------------------------
(***************************************************************************)
(* The inductive invariant behind the theorems about Archive, record by    *)
(* record.                                                                 *)
(***************************************************************************)
EXTENDS Archive

NamesObservers(row, observers) ==
    {row.first, row.last} \subseteq observers \cup (IF observers = {} THEN {None} ELSE {})

RowReferences(r) == NamesObservers(r.row, Observers(r))

\* The snapshots of a record are the versions its exports present, and its row
\* holds one of them; only a project may be left without an export.
KeptInv(x, r) ==
    /\ r.row # None /\ x \in Conversations => Observers(r) # {}
    /\ r.row # None /\ Observers(r) # {} => Named(r, r.row.digest)
    /\ {k.digest : k \in r.kept} = Versions(r)

\* What a record is with the given exports imported: a row and nothing
\* without one, and every reference an import.
RecordInv(r, imported) ==
    /\ RecordOK(r)
    /\ r.row = None => r = Empty
    /\ r.row # None => RowReferences(r)
    /\ Observers(r) \subseteq imported
    /\ \A m \in Present(r) : r.messages[m].heard \subseteq imported
    /\ \A v \in r.revisions : v.export \in imported

\* What the messages of a conversation are, unless a deletion took evidence.
HistoryInv(r, replaced, taken) ==
    /\ PartsComeFrom(r, Versions(r) \cup replaced)
    /\ taken = {} /\ r.row # None => ReadsAs(r, Body[r.row.digest])
    /\ taken = {} => \A e \in Observers(r) : Heard(r, e)

LinksInv(rows) ==
    \A x \in Entities : rows[x].row # None /\ rows[x].row.project # None => rows[rows[x].row.project].row # None

\* The parent a fact gives a message is a message it carries.
Whole(messages) ==
    \A m \in DOMAIN messages : messages[m].parent \in DOMAIN messages \cup {None}

\* What Knowledge holds was announced to its holder, under a live archive that
\* was announced to the same holder, and is about a row.
FactsInv(s, rows, exports) ==
    /\ DOMAIN s = {"facts", "ledger", "known", "omitted"}
    /\ s.facts = [x \in Entities |-> s.facts[x]]
    /\ \A x \in Entities : \A f \in s.facts[x] :
          f.archive \in exports /\ f.owner \in Owners /\ Whole(f.digest.messages)
    /\ s.ledger \in [Subjects -> Seq(Owners)]
    /\ \A e \in ExportIds : s.ledger[e] # <<>> => e \in exports
    /\ DOMAIN s.known = Owners /\ \A u \in Owners : DOMAIN s.known[u] = Entities
    /\ \A u \in Owners, x \in Entities : s.known[u][x] # None =>
          /\ rows[x].row # None
          /\ s.known[u][x].archive \in exports
          /\ u \in Range(s.ledger[x])
          /\ u \in Range(s.ledger[s.known[u][x].archive])

JobInv ==
    job # None => /\ DOMAIN job = {"stage", "export", "target", "input", "parsed", "owner"}
                  /\ job.stage \in {"planned", "checked"}
                  /\ job.export \in ExportIds /\ job.target \in Parsers
                  /\ job.parsed \in Readings /\ job.owner \in Owners \cup {None}

InventoryFields == {"status", "exports", "tenant", "rows", "kept", "messages", "parts", "revisions", "reports"}

\* An inventory keeps none of the rows it removes.
InventoryOK(p) == DOMAIN p = InventoryFields /\ p.rows \cap p.kept = {} /\ p.kept \subseteq Entities

PlanInv == DOMAIN plan = Requests /\ \A i \in Requests : Planned(i) => InventoryOK(plan[i])

RowsInv(rows, imported) == \A x \in Entities : RecordInv(rows[x], imported)

\* The versions are in order except in conversations that were left without an
\* export.
VersionsInv(rows, astray) == \A x \in Entities \ astray : KeptInv(x, rows[x])
HistoriesInv(rows, replaced, taken, astray) ==
    \A x \in Conversations \ astray : HistoryInv(rows[x], replaced[x], taken[x])

\* What the tables hold between two transactions.
StoreInv ==
    /\ received \in 0..MaxExports
    /\ upload \in [ExportIds -> Uploads \cup {None}]
    /\ parser \in [ExportIds -> Parsers \cup {0}]
    /\ DOMAIN db = Entities
    /\ RowsInv(db, Imported) /\ LinksInv(db)
    /\ VersionsInv(db, stranded) /\ HistoriesInv(db, reread, lost, stranded)
    /\ stranded \subseteq {x \in Conversations : db[x].row # None}
    /\ FactsInv(w, db, Exports)

ArchiveInv == StoreInv /\ owner \in Owners \cup {None} /\ JobInv /\ PlanInv
=============================================================================
