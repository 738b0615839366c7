------------------------- MODULE MigrationInvariants -------------------------
(***************************************************************************)
(* The inductive invariants of Migration.                                  *)
(*                                                                         *)
(* The checks of a reparse precede the lock it writes under, so a command  *)
(* may hold a plan of an archive that has been erased since.  EvidenceInv  *)
(* says what a plan still tells when it is applied: its archive had been   *)
(* imported, and an archive that was imported is imported or erased ever   *)
(* after.                                                                  *)
(*                                                                         *)
(* A report repeats what its command entered, and a command enters what it *)
(* finds in the runs of other commands.  ReportInv therefore ties every    *)
(* committed run and every recorded parser to the projection that was      *)
(* written with it, and every entry of a command in progress to such a     *)
(* projection.                                                             *)
(***************************************************************************)
EXTENDS Migration

\* The archive was imported once.
Settled(a) == export[a] \in {"imported", "erased"}

Fields == {"pc", "operation", "target", "build", "blocked", "entries", "plans", "from", "stamp"}

\* What a command in progress knows: the archive it is reading and those it
\* has plans for were imported when it looked.
CommandOK(o) ==
    \/ command[o] = Idle
    \/ /\ DOMAIN command[o] = Fields
       /\ command[o].build \in DOMAIN Builds
       /\ \A a \in Archives : a \in DOMAIN command[o].plans => Settled(a)
       /\ \A a \in Archives : a \in DOMAIN command[o].entries /\ command[o].entries[a] = "eligible"
                                 => a \in DOMAIN command[o].plans
       /\ command[o].pc = "read" /\ command[o].from # None =>
             \A a \in Archives : Turn(o, "unplanned", a) => Settled(a)

\* The rows of an archive exist only while it is imported.
RowsOK ==
    /\ build \in DOMAIN Builds
    /\ DOMAIN export = Archives /\ DOMAIN parser = Archives
    /\ DOMAIN seen = Archives /\ DOMAIN runs = Archives
    /\ DOMAIN deletion = Requests
    /\ \A i \in Requests : deletion[i] # None => deletion[i].archive \in Archives
    /\ \A a \in Archives : export[a] # "imported" =>
          parser[a] = None /\ seen[a] = Nothing /\ runs[a] = {}

EvidenceInv == RowsOK /\ DOMAIN command = Operators /\ \A o \in Operators : CommandOK(o)

-----------------------------------------------------------------------------
\* The projections in the history rs that the parser t wrote for archive a.
By(rs, a, t) == {r \in rs : r.archive = a /\ r.target = t}

\* The parser changed what the archive shows of its conversations.
Changed(r) == Projection(r.after) # Projection(r.old)

\* What a status says of an archive is what happened to it.
ShownAt(rs, a, t, status) ==
    /\ status = "applied" => \E r \in By(rs, a, t) : Projection(r.old) = r.input => Changed(r)
    /\ status = "unchanged" => \E r \in By(rs, a, t) : Projection(r.old) = r.input => ~Changed(r)
    /\ status = "already_current" => By(rs, a, t) # {}

Shown(rs, entries, t) == \A a \in DOMAIN entries : ShownAt(rs, a, t, entries[a])

\* A run and the projection that was written with it.
RunIsRead(rs, now, a, run) ==
    /\ run.stamp \in Nat /\ run.stamp <= now
    /\ \E r \in By(rs, a, run.target) :
          r.input = run.input /\ r.after = Persisted(r.old, run.parsed)

HasNewest(rows) == rows # {} => \E run \in rows : \A other \in rows : other.stamp <= run.stamp

\* The target comes after the parser the plan started from.
Forward(from, target, b, a) ==
    LET ids == Compatibles[b][a]
    IN \E i, j \in DOMAIN ids : i < j /\ ids[i] = from /\ ids[j] = target

WentForward(r) ==
    r.planned # None =>
        r.archive \in Archives /\ \E b \in DOMAIN Builds : Forward(r.planned, r.target, b, r.archive)

\* The rows of one archive and the history.
ArchiveOK(a) ==
    /\ parser[a] # None => By(reads, a, parser[a]) # {}
    /\ \A run \in runs[a] : RunIsRead(reads, clock, a, run)
    /\ HasNewest(runs[a])

HistoryOK ==
    /\ export \in [Archives -> {"stored", "imported", "failed", "erased"}]
    /\ \A i \in Requests : deletion[i] # None =>
          DOMAIN deletion[i] = {"archive", "stage"} /\ deletion[i].stage \in {"planned", "rows_removed"}
    /\ clock \in Nat
    /\ \A a \in Archives : ArchiveOK(a)
    /\ \A r \in reads : WentForward(r)

Statuses == Outcomes \cup {"unplanned", "eligible"}

\* What a command in progress has entered so far.
InformedCommand(rs, now, c) ==
    /\ c.operation \in Operations /\ c.target \in Targets
    /\ c.pc \in {"list", "plan", "read", "apply", "begin", "commit"}
    /\ c.pc # "list" => /\ DOMAIN c.entries \subseteq Archives
                        /\ c.entries \in [DOMAIN c.entries -> Statuses]
                        /\ Shown(rs, c.entries, c.target)
    /\ c.pc \in {"apply", "begin", "commit"} =>
          \A a \in DOMAIN c.entries : c.entries[a] # "unplanned"
    /\ c.pc = "commit" => c.stamp \in Nat /\ c.stamp <= now
    /\ \A a \in DOMAIN c.plans : a \in Archives => Forward(c.plans[a].from, c.target, c.build, a)

Informed(o) == command[o] = Idle \/ InformedCommand(reads, clock, command[o])

\* A durable report.
ReportOK(rs, report) ==
    /\ report \in Reports
    /\ Shown(rs, report.entries, report.target)
    /\ report.status = "completed" <=> "failed" \notin Range(report.entries)

\* The reports, and what commands were told of them.
ReportsOK ==
    /\ DOMAIN reports = Operations
    /\ \A p \in Operations : reports[p] # None => ReportOK(reads, reports[p])
    /\ \A answer \in returned :
          answer[1] \in Operations /\ reports[answer[1]] # None /\ reports[answer[1]] = answer[2]

Accounts == HistoryOK /\ (\A o \in Operators : Informed(o)) /\ ReportsOK

ReportInv == EvidenceInv /\ Accounts
=============================================================================
