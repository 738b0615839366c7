---------------------------- MODULE VersionProofs ----------------------------
(***************************************************************************)
(* What each operation on a record keeps of the invariant of               *)
(* ArchiveInvariants: reading an export into it, taking the rows of a      *)
(* deletion and restoring what the remaining exports present.              *)
(***************************************************************************)
EXTENDS ArchiveInvariants, LoopProofs

\* Few leaves need another prover; those name it.
USE Zenon

\* A set of exports has a newest one, if it has one.
LEMMA Greatest ==
    ASSUME NEW T, T \subseteq ExportIds, T # {}
    PROVE \E n \in T : \A k \in T : n >= k
<1> DEFINE S == {i \in Nat : i <= MaxExports /\ MaxExports - i \in T}
<1>1. MaxExports \in Nat
    BY VersionConstants
<1>2. PICK t : t \in T
    OBVIOUS
<1>3. t \in 1..MaxExports
    BY <1>2 DEF ExportIds
<1>4. MaxExports - t \in Nat /\ MaxExports - (MaxExports - t) = t /\ MaxExports - t <= MaxExports
    BY <1>1, <1>3, SMT
<1>5. S # {} /\ S \subseteq Nat
    BY <1>2, <1>4
<1> HIDE DEF S
<1>6. PICK n \in S : \A k \in S : n <= k
    BY <1>5, Least
<1>7. n \in Nat /\ n <= MaxExports /\ MaxExports - n \in T
    BY <1>6 DEF S
<1>8. ASSUME NEW k \in T
      PROVE MaxExports - n >= k
  <2>1. k \in 1..MaxExports
      BY DEF ExportIds
  <2>2. MaxExports - k \in Nat /\ MaxExports - (MaxExports - k) = k /\ MaxExports - k <= MaxExports
      BY <1>1, <2>1, SMT
  <2>3. MaxExports - k \in S
      BY <2>2 DEF S
  <2> QED
      BY <1>1, <1>6, <1>7, <2>1, <2>2, <2>3, SMT
<1> QED
    BY <1>7, <1>8

-----------------------------------------------------------------------------
\* Parts written for a message: only the new payload is added, and it is the
\* latest unless the message lost its parts.
LEMMA AddPartsWrites ==
    ASSUME NEW parts \in Seq(Payloads), NEW payload \in Payloads
    PROVE /\ AddParts(parts, payload) \in Seq(Payloads)
          /\ Range(AddParts(parts, payload)) \subseteq Range(parts) \cup {payload}
          /\ payload # NoParts => /\ AddParts(parts, payload) # <<>>
                                 /\ Final(AddParts(parts, payload)) = payload
<1>1. CASE payload = NoParts \/ (parts # <<>> /\ Final(parts) = payload)
    BY <1>1 DEF AddParts
<1>2. CASE ~(payload = NoParts \/ (parts # <<>> /\ Final(parts) = payload))
  <2>1. AddParts(parts, payload) = Append(parts, payload)
      BY <1>2 DEF AddParts
  <2>2. Append(parts, payload) \in Seq(Payloads) /\ Len(Append(parts, payload)) = Len(parts) + 1
      BY SMT
  <2>3. Append(parts, payload)[Len(parts) + 1] = payload /\ Append(parts, payload) # <<>>
      BY SMT
  <2>4. Range(Append(parts, payload)) \subseteq Range(parts) \cup {payload}
      BY SMT DEF Range
  <2> QED
      BY <2>1, <2>2, <2>3, <2>4 DEF Final
<1> QED
    BY <1>1, <1>2

\* The payload and the parent of a message of a content have their types.
LEMMA BodyTypes ==
    ASSUME NEW d \in DOMAIN Body, NEW m \in DOMAIN Body[d]
    PROVE /\ m \in Messages /\ Body[d][m].payload \in Payloads
          /\ Body[d][m].parent \in Messages \cup {None}
<1>1. m \in Messages /\ Body[d][m].parent \in Messages \cup {None}
    BY VersionConstants
<1>2. Body[d][m].payload \in {Body[d][n].payload : n \in DOMAIN Body[d]}
    OBVIOUS
<1> QED
    BY <1>1, <1>2 DEF Payloads

\* The message m of the content d as the export e leaves it.
MessageWritten(old, new, e, d, m) ==
    /\ new \in MessageType /\ new # None
    /\ e \in new.heard
    /\ old # None => old.heard \subseteq new.heard
    /\ new.heard \subseteq (IF old = None THEN {} ELSE old.heard) \cup {e}
    /\ Range(new.parts) \subseteq (IF old = None THEN {} ELSE Range(old.parts)) \cup {Body[d][m].payload}
    /\ Body[d][m].payload # NoParts => new.parts # <<>> /\ Final(new.parts) = Body[d][m].payload
    /\ Body[d][m].parent \in DOMAIN Body[d] => new.parent = Body[d][m].parent

\* persist_message and persist_parts do what MessageWritten says.
LEMMA PersistMessageWrites ==
    ASSUME NEW old \in MessageType \cup {None}, NEW e \in ExportIds,
           NEW d \in DOMAIN Body, NEW m \in DOMAIN Body[d]
    PROVE MessageWritten(old, PersistMessage(old, e, d, m), e, d, m)
<1> DEFINE was == IF old = None THEN [parent |-> None, parts |-> <<>>, heard |-> {}] ELSE old
           payload == Body[d][m].payload
           parent == IF Body[d][m].parent \in DOMAIN Body[d] THEN Body[d][m].parent ELSE was.parent
           new == [parent |-> parent, parts |-> AddParts(was.parts, payload), heard |-> was.heard \cup {e}]
<1>1. PersistMessage(old, e, d, m) = new
    BY DEF PersistMessage
<1>2. /\ payload \in Payloads /\ Body[d][m].parent \in Messages \cup {None}
    BY BodyTypes
<1>3. /\ was.parts \in Seq(Payloads) /\ was.heard \subseteq ExportIds /\ was.parent \in Messages \cup {None}
      /\ old # None => was.parts = old.parts /\ was.heard = old.heard
      /\ old = None => was.parts = <<>> /\ was.heard = {}
    BY SMT DEF MessageType
<1>4. old = None => Range(was.parts) = {}
    BY <1>3, SMT DEF Range
<1>5. parent \in Messages \cup {None}
    BY <1>2, <1>3
<1> HIDE DEF was, payload
<1>6. /\ AddParts(was.parts, payload) \in Seq(Payloads)
      /\ Range(AddParts(was.parts, payload)) \subseteq Range(was.parts) \cup {payload}
      /\ payload # NoParts => /\ AddParts(was.parts, payload) # <<>>
                             /\ Final(AddParts(was.parts, payload)) = payload
    BY <1>2, <1>3, AddPartsWrites
<1>7. Body[d][m].parent \in DOMAIN Body[d] => parent = Body[d][m].parent
    OBVIOUS
<1> HIDE DEF parent
<1>8. new \in MessageType
    BY <1>3, <1>5, <1>6, SMT DEF MessageType
<1>9. new # None
    BY <1>8, AbsentRows
<1>10. /\ new.parent = parent /\ new.heard = was.heard \cup {e}
       /\ new.parts = AddParts(was.parts, payload)
    OBVIOUS
<1> HIDE DEF new
<1> QED
    BY <1>1, <1>3, <1>4, <1>6, <1>7, <1>8, <1>9, <1>10 DEF payload, MessageWritten

-----------------------------------------------------------------------------
Fields == {"row", "seen", "kept", "messages", "revisions"}
Seen == [ExportIds -> DOMAIN Body \cup {None}]
Digests(kept) == {k.digest : k \in kept}

\* A record without a row, observers and history.
LEMMA EmptyRecord ==
    /\ DOMAIN Empty = Fields /\ Empty.row = None /\ Empty.kept = {} /\ Empty.revisions = {}
    /\ Empty.seen = [e \in ExportIds |-> None] /\ Empty.messages = NoMessages
    /\ Observers(Empty) = {} /\ Versions(Empty) = {} /\ Present(Empty) = {}
<1>1. /\ DOMAIN Empty = Fields /\ Empty.row = None /\ Empty.kept = {} /\ Empty.revisions = {}
      /\ Empty.seen = [e \in ExportIds |-> None] /\ Empty.messages = NoMessages
    BY SMT DEF Empty, Fields
<1>2. Observers(Empty) = {} /\ Versions(Empty) = {}
    BY <1>1 DEF Observers, Versions
<1>3. Present(Empty) = {}
    BY <1>1 DEF Present, NoMessages
<1> QED
    BY <1>1, <1>2, <1>3

\* The versions and observers of a record are a matter of what was seen.
LEMMA SameSeen ==
    ASSUME NEW r, NEW s, s.seen = r.seen
    PROVE Versions(s) = Versions(r) /\ Observers(s) = Observers(r) /\ \A d : Named(s, d) <=> Named(r, d)
<1>1. Versions(s) = Versions(r)
    BY SMT DEF Versions
<1>2. Observers(s) = Observers(r)
    BY SMT DEF Observers
<1>3. \A d : Named(s, d) <=> Named(r, d)
    BY DEF Named
<1> QED
    BY <1>1, <1>2, <1>3

\* The record s is r with the content d observed by the export e.
Grown(r, s, e, d) ==
    e \in ExportIds /\ d \in DOMAIN Body /\ r.seen \in Seen /\ s.seen = [r.seen EXCEPT ![e] = d]

\* What that makes of the versions and observers.
GrownEvidence(r, s, e, d) ==
    /\ s.seen \in Seen /\ s.seen[e] = d
    /\ \A f \in ExportIds : f # e => s.seen[f] = r.seen[f]
    /\ Observers(s) = Observers(r) \cup {e}
    /\ Versions(r) \subseteq Versions(s) \cup ({r.seen[e]} \ {None, d})
    /\ d \in Versions(s) /\ Named(s, d)

\* The snapshots are those of the versions the record presents.
Stocked(r) == Digests(r.kept) = Versions(r)

\* A record with the snapshots of contents.
Shelved(r) == DOMAIN r = Fields /\ r.seen \in Seen /\ r.kept \subseteq KeptType

\* What observe leaves: a snapshot of the versions that are still presented,
\* all of them but perhaps the new one if there was one of each.
Observed(r, s, e, d) ==
    /\ DOMAIN s = Fields /\ s.row = r.row /\ s.messages = r.messages /\ s.revisions = r.revisions
    /\ Grown(r, s, e, d)
    /\ s.kept \subseteq r.kept
    /\ Stocked(r) => /\ Digests(s.kept) \cup {d} = Versions(s)
                     /\ d \in Versions(r) => d \in Digests(s.kept)

\* What keep_snapshot leaves: at most the snapshot of the content is new.
SnapshotKept(r, s, d) ==
    /\ DOMAIN s = Fields /\ s.row = r.row /\ s.messages = r.messages /\ s.revisions = r.revisions
    /\ s.seen = r.seen /\ s.kept \subseteq KeptType
    /\ Digests(s.kept) = Digests(r.kept) \cup {d}

\* The row of s names e and its content d, and the oldest observation of r.
RowGrown(r, s, e, d) ==
    /\ s.row \in RowType /\ s.row.digest = d /\ s.row.last = e
    /\ s.row.first \in Observers(r) \cup {e}

\* The messages and revisions of s are evidence of the exports.
Evidenced(s, exports) ==
    /\ s.messages \in [Messages -> MessageType \cup {None}]
    /\ \A m \in Present(s) : s.messages[m].heard \subseteq exports
    /\ \A v \in s.revisions : v.digest \in DOMAIN Body /\ v.export \in ExportIds /\ v.export \in exports

\* An export more observes the record, with the content it presents.
LEMMA ObserversGrow ==
    ASSUME NEW r, NEW s, NEW e, NEW d, Grown(r, s, e, d)
    PROVE GrownEvidence(r, s, e, d)
<1> USE DEF Grown
<1>1. /\ s.seen \in Seen /\ s.seen[e] = d
      /\ \A f \in ExportIds : f # e => s.seen[f] = r.seen[f]
    BY DEF Seen
<1>2. d # None
    BY VersionConstants
<1>3. Observers(s) = Observers(r) \cup {e}
    BY <1>1, <1>2 DEF Observers
<1>4. d \in Versions(s) /\ Named(s, d)
    BY <1>1, <1>2 DEF Versions, Named
<1>5. ASSUME NEW v \in Versions(r)
      PROVE v \in Versions(s) \cup ({r.seen[e]} \ {None, d})
  <2>1. PICK f \in ExportIds : v = r.seen[f] /\ v # None
      BY DEF Versions
  <2>2. CASE f = e
      BY <1>4, <2>1, <2>2
  <2>3. CASE f # e
      BY <1>1, <2>1, <2>3 DEF Versions
  <2> QED
      BY <2>2, <2>3
<1> QED
    BY <1>1, <1>3, <1>4, <1>5 DEF GrownEvidence

\* observe does what Observed says.
LEMMA ObserveWrites ==
    ASSUME NEW r, NEW e \in ExportIds, NEW d \in DOMAIN Body, Shelved(r)
    PROVE Observed(r, Observe(r, e, d), e, d)
<1> USE DEF Shelved
<1> DEFINE t == [r EXCEPT !.seen[e] = d]
           kept == {k \in t.kept : k.digest = d \/ Named(t, k.digest)}
<1>1. /\ DOMAIN t = Fields /\ t.row = r.row /\ t.messages = r.messages /\ t.revisions = r.revisions
      /\ t.kept = r.kept /\ t.seen = [r.seen EXCEPT ![e] = d]
    BY SMT DEF Fields
<1>2. Observe(r, e, d) = [t EXCEPT !.kept = kept]
    BY DEF Observe
<1> HIDE DEF t
<1>3. PICK s : s = Observe(r, e, d)
    OBVIOUS
<1>4. /\ DOMAIN s = Fields /\ s.row = r.row /\ s.messages = r.messages /\ s.revisions = r.revisions
      /\ s.seen = t.seen /\ s.kept = kept
    BY <1>1, <1>2, <1>3, SMT DEF Fields
<1>5. s.kept = {k \in r.kept : k.digest = d \/ Named(s, k.digest)}
    BY <1>1, <1>4 DEF Named
<1>6. Grown(r, s, e, d) /\ GrownEvidence(r, s, e, d)
  <2>1. Grown(r, s, e, d)
      BY <1>1, <1>4 DEF Grown
  <2> QED
      BY <2>1, ObserversGrow
<1> USE DEF GrownEvidence
<1>7. ASSUME NEW k \in s.kept
      PROVE k.digest \in Versions(s)
  <2>1. k.digest # None
      BY <1>5, VersionConstants, SMT DEF KeptType
  <2> QED
      BY <1>5, <1>6, <2>1 DEF Named, Versions
<1>8. ASSUME Stocked(r), NEW v \in Versions(s)
      PROVE v \in Digests(s.kept) \cup {d}
  <2>1. SUFFICES ASSUME v # d
                 PROVE v \in Digests(s.kept)
      OBVIOUS
  <2>2. PICK f \in ExportIds : v = s.seen[f] /\ v # None
      BY DEF Versions
  <2>3. v = r.seen[f]
      BY <1>6, <2>1, <2>2
  <2>4. v \in Versions(r)
      BY <2>2, <2>3 DEF Versions
  <2>5. PICK k \in r.kept : k.digest = v
      BY <1>8, <2>4 DEF Digests, Stocked
  <2>6. k \in s.kept
      BY <1>5, <2>2, <2>5 DEF Named
  <2> QED
      BY <2>5, <2>6 DEF Digests
<1>9. Stocked(r) /\ d \in Versions(r) => d \in Digests(s.kept)
    BY <1>5 DEF Digests, Stocked
<1>10. Stocked(r) => Digests(s.kept) \cup {d} = Versions(s)
  <2>1. d \in Versions(s)
      BY <1>6
  <2> QED
      BY <2>1, <1>7, <1>8 DEF Digests
<1>11. s.kept \subseteq r.kept
    BY <1>5
<1> QED
    BY <1>3, <1>4, <1>6, <1>9, <1>10, <1>11 DEF Observed

\* keep_snapshot does what SnapshotKept says.
LEMMA KeepSnapshotWrites ==
    ASSUME NEW r, NEW d \in DOMAIN Body, NEW stamp \in Parsers, NEW project \in Projects \cup {None},
           DOMAIN r = Fields, r.kept \subseteq KeptType
    PROVE SnapshotKept(r, KeepSnapshot(r, d, stamp, project), d)
<1> USE DEF SnapshotKept
<1> DEFINE new == [digest |-> d, stamp |-> stamp, project |-> project]
<1>1. CASE \E k \in r.kept : k.digest = d
    BY <1>1 DEF KeepSnapshot, Digests
<1>2. CASE ~\E k \in r.kept : k.digest = d
  <2>1. PICK s : s = KeepSnapshot(r, d, stamp, project)
      OBVIOUS
  <2>2. s = [r EXCEPT !.kept = r.kept \cup {new}]
      BY <1>2, <2>1 DEF KeepSnapshot
  <2>3. new \in KeptType /\ new.digest = d
      BY SMT DEF KeptType
  <2> HIDE DEF new
  <2>4. /\ DOMAIN s = Fields /\ s.row = r.row /\ s.messages = r.messages /\ s.revisions = r.revisions
        /\ s.seen = r.seen /\ s.kept = r.kept \cup {new}
      BY <2>2, SMT DEF Fields
  <2>5. s.kept \subseteq KeptType /\ Digests(s.kept) = Digests(r.kept) \cup {d}
      BY <2>3, <2>4 DEF Digests
  <2> QED
      BY <2>1, <2>4, <2>5
<1> QED
    BY <1>1, <1>2

\* A record that an export more observes, whose row holds what that export
\* presents.
LEMMA RecordGrows ==
    ASSUME NEW x, NEW r, NEW s, NEW imported, NEW e, NEW d,
           RecordInv(r, imported), Grown(r, s, e, d), RowGrown(r, s, e, d),
           Shelved(s), Evidenced(s, imported \cup {e})
    PROVE RecordInv(s, imported \cup {e}) /\ s.row # None /\ (Stocked(s) => KeptInv(x, s))
<1>1. Observers(r) \subseteq imported
    BY DEF RecordInv
<1>2. GrownEvidence(r, s, e, d)
    BY ObserversGrow
<1> USE DEF RowGrown, Shelved, Evidenced, GrownEvidence
<1>3. s.row # None
    BY AbsentRows
<1>4. RecordOK(s)
    BY <1>2 DEF RecordOK, Fields, Seen
<1>5. RowReferences(s)
    BY <1>2 DEF RowReferences, NamesObservers
<1>6. Observers(s) # {} /\ Observers(s) \subseteq imported \cup {e}
    BY <1>1, <1>2
<1>7. Stocked(s) => KeptInv(x, s)
    BY <1>2, <1>6 DEF KeptInv, Stocked, Digests
<1> QED
    BY <1>2, <1>3, <1>4, <1>5, <1>6, <1>7 DEF RecordInv

\* The oldest observation a row names, as the next import leaves it.
LEMMA FirstStays ==
    ASSUME NEW r, NEW imported, NEW e \in ExportIds, RecordInv(r, imported), r.row # None
    PROVE Coalesce(r.row.first, e) \in Observers(r) \cup {e}
<1>1. r.row.first \in Observers(r) \cup {None}
    BY DEF RecordInv, RowReferences, NamesObservers
<1> QED
    BY <1>1 DEF Coalesce

ProjectRead(s) == s.row # None /\ s.row.project = None

\* persist_projects keeps the invariant of a project's record.
LEMMA PersistProjectKeeps ==
    ASSUME NEW x \in Projects, NEW r, NEW imported, NEW e \in ExportIds, NEW p \in Parsers,
           NEW d \in DOMAIN Body, RecordInv(r, imported), KeptInv(x, r)
    PROVE LET s == PersistProject(r, e, p, d)
          IN RecordInv(s, imported \cup {e}) /\ KeptInv(x, s) /\ ProjectRead(s)
<1> DEFINE stamp == IF r.row # None /\ r.row.digest = d THEN r.row.stamp ELSE p
           first == IF r.row = None THEN e ELSE Coalesce(r.row.first, e)
           row == [digest |-> d, stamp |-> stamp, project |-> None, first |-> first, last |-> e]
           t == [r EXCEPT !.row = row]
           o == Observe(t, e, d)
<1>1. PICK s : s = PersistProject(r, e, p, d)
    OBVIOUS
<1>2. s = KeepSnapshot(o, d, stamp, None)
    BY <1>1 DEF PersistProject
<1>3. /\ DOMAIN r = Fields /\ r.seen \in Seen /\ r.kept \subseteq KeptType
      /\ r.row \in RowType \cup {None} /\ r.messages \in [Messages -> MessageType \cup {None}]
      /\ Digests(r.kept) = Versions(r)
    BY DEF RecordInv, RecordOK, Fields, Seen, Digests, KeptInv
<1>4. stamp \in Parsers
    BY <1>3, SMT DEF RowType
<1>5. first \in Observers(r) \cup {e}
    BY FirstStays
<1>6. first \in ExportIds
    BY <1>5 DEF Observers
<1> HIDE DEF stamp, first
<1>7. row \in RowType /\ row.digest = d /\ row.last = e /\ row.first = first /\ row.project = None
    BY <1>4, <1>6, SMT DEF RowType
<1> HIDE DEF row
<1>8. /\ DOMAIN t = Fields /\ t.row = row /\ t.seen = r.seen /\ t.kept = r.kept
      /\ t.messages = r.messages /\ t.revisions = r.revisions
    BY <1>3, SMT DEF Fields
<1> HIDE DEF t
<1>9. Shelved(t) /\ Stocked(t)
  <2>1. Versions(t) = Versions(r)
      BY <1>8, SameSeen
  <2> QED
      BY <1>3, <1>8, <2>1 DEF Stocked, Shelved
<1>10. Observed(t, o, e, d)
    BY <1>9, ObserveWrites
<1> HIDE DEF o
<1>11. DOMAIN o = Fields /\ o.kept \subseteq KeptType
    BY <1>3, <1>8, <1>10 DEF Observed
<1>12. SnapshotKept(o, s, d)
    BY <1>2, <1>4, <1>11, KeepSnapshotWrites
<1> USE DEF Observed, SnapshotKept
<1>13. /\ s.row = row /\ s.messages = r.messages /\ s.revisions = r.revisions
       /\ s.seen = [r.seen EXCEPT ![e] = d]
    BY <1>8, <1>10, <1>12 DEF Grown
<1>14. Grown(r, s, e, d)
    BY <1>3, <1>13 DEF Grown
<1>15. s.seen \in Seen
    BY <1>14, ObserversGrow DEF GrownEvidence
<1>16. Shelved(s) /\ Stocked(s)
  <2>1. Versions(s) = Versions(o)
      BY <1>12 DEF Versions
  <2>2. Digests(o.kept) \cup {d} = Versions(o)
      BY <1>9, <1>10
  <2> QED
      BY <1>12, <1>15, <2>1, <2>2 DEF Stocked, Shelved
<1>17. RowGrown(r, s, e, d)
    BY <1>5, <1>7, <1>13 DEF RowGrown
<1>18. Evidenced(s, imported \cup {e})
    BY <1>13 DEF RecordInv, RecordOK, Present, Evidenced
<1>19. RecordInv(s, imported \cup {e}) /\ KeptInv(x, s) /\ s.row # None
    BY <1>14, <1>16, <1>17, <1>18, RecordGrows
<1> QED
    BY <1>1, <1>7, <1>13, <1>19 DEF ProjectRead

-----------------------------------------------------------------------------
MessageRows == [Messages -> MessageType \cup {None}]

AgainMessages(messages, e, d) ==
    [m \in Messages |-> IF m \in DOMAIN Body[d] /\ messages[m] # None
                        THEN HeardAgain(messages[m], e) ELSE messages[m]]

DetailMessages(messages, e, d) ==
    [m \in Messages |-> IF m \in DOMAIN Body[d] THEN PersistMessage(messages[m], e, d, m) ELSE messages[m]]

\* No message goes, and what is new is the evidence of e and its content d.
MessagesGrow(old, new, e, d) ==
    /\ new \in MessageRows
    /\ \A m \in Messages : old[m] # None => new[m] # None /\ old[m].heard \subseteq new[m].heard
    /\ \A m \in Messages : new[m] # None =>
          /\ new[m].heard \subseteq (IF old[m] = None THEN {} ELSE old[m].heard) \cup {e}
          /\ Range(new[m].parts) \subseteq (IF old[m] = None THEN {} ELSE Range(old[m].parts)) \cup PayloadsOf(d, m)

\* Every message of the content is there as the content has it, heard by e.
MessagesWritten(new, e, d) ==
    \A m \in DOMAIN Body[d] :
        /\ new[m] # None /\ e \in new[m].heard
        /\ Body[d][m].payload # NoParts => new[m].parts # <<>> /\ Final(new[m].parts) = Body[d][m].payload
        /\ Body[d][m].parent \in DOMAIN Body[d] => new[m].parent = Body[d][m].parent

\* Messages are only heard again.
MessagesHeard(old, new, e, d) ==
    \A m \in Messages : old[m] # None =>
        /\ new[m] # None /\ new[m].parts = old[m].parts /\ new[m].parent = old[m].parent
        /\ m \in DOMAIN Body[d] => e \in new[m].heard

\* persist_conversation_detail writes the messages of the content.
LEMMA DetailMessagesWrites ==
    ASSUME NEW old \in MessageRows, NEW e \in ExportIds, NEW d \in DOMAIN Body
    PROVE /\ MessagesGrow(old, DetailMessages(old, e, d), e, d)
          /\ MessagesWritten(DetailMessages(old, e, d), e, d)
<1>1. PICK new : new = DetailMessages(old, e, d)
    OBVIOUS
<1>2. \A m \in Messages : old[m] \in MessageType \cup {None}
    BY DEF MessageRows
<1>3. ASSUME NEW m \in Messages
      PROVE new[m] = IF m \in DOMAIN Body[d] THEN PersistMessage(old[m], e, d, m) ELSE old[m]
    BY <1>1 DEF DetailMessages
<1>4. ASSUME NEW m \in DOMAIN Body[d]
      PROVE MessageWritten(old[m], new[m], e, d, m)
  <2>1. m \in Messages
      BY BodyTypes
  <2>2. new[m] = PersistMessage(old[m], e, d, m) /\ old[m] \in MessageType \cup {None}
      BY <1>2, <1>3, <2>1
  <2> QED
      BY <2>2, PersistMessageWrites
<1> USE DEF MessageWritten
<1>5. new \in MessageRows
  <2>1. \A m \in Messages : new[m] \in MessageType \cup {None}
      BY <1>2, <1>3, <1>4
  <2> QED
      BY <1>1, <2>1 DEF MessageRows, DetailMessages
<1>6. ASSUME NEW m \in Messages
      PROVE /\ old[m] # None => new[m] # None /\ old[m].heard \subseteq new[m].heard
            /\ new[m] # None =>
                 /\ new[m].heard \subseteq (IF old[m] = None THEN {} ELSE old[m].heard) \cup {e}
                 /\ Range(new[m].parts) \subseteq (IF old[m] = None THEN {} ELSE Range(old[m].parts)) \cup PayloadsOf(d, m)
  <2>1. CASE m \in DOMAIN Body[d]
      BY <1>4, <2>1 DEF PayloadsOf
  <2>2. CASE m \notin DOMAIN Body[d]
      BY <1>3, <2>2
  <2> QED
      BY <2>1, <2>2
<1>7. MessagesGrow(old, new, e, d)
    BY <1>5, <1>6 DEF MessagesGrow
<1>8. MessagesWritten(new, e, d)
    BY <1>4 DEF MessagesWritten
<1> QED
    BY <1>1, <1>7, <1>8

\* Content that is read again is heard again.
LEMMA AgainMessagesWrites ==
    ASSUME NEW old \in MessageRows, NEW e \in ExportIds, NEW d \in DOMAIN Body
    PROVE /\ MessagesGrow(old, AgainMessages(old, e, d), e, d)
          /\ MessagesHeard(old, AgainMessages(old, e, d), e, d)
<1>1. PICK new : new = AgainMessages(old, e, d)
    OBVIOUS
<1>2. \A m \in Messages : old[m] \in MessageType \cup {None}
    BY DEF MessageRows
<1>3. ASSUME NEW m \in Messages
      PROVE new[m] = IF m \in DOMAIN Body[d] /\ old[m] # None THEN HeardAgain(old[m], e) ELSE old[m]
    BY <1>1 DEF AgainMessages
<1>4. ASSUME NEW m \in Messages, m \in DOMAIN Body[d], old[m] # None
      PROVE /\ new[m] \in MessageType /\ new[m].heard = old[m].heard \cup {e}
            /\ new[m].parts = old[m].parts /\ new[m].parent = old[m].parent
  <2>1. old[m] \in MessageType
      BY <1>2, <1>4
  <2>2. new[m] = [old[m] EXCEPT !.heard = old[m].heard \cup {e}]
      BY <1>3, <1>4 DEF HeardAgain
  <2> QED
      BY <2>1, <2>2, SMT DEF MessageType
<1>5. new \in MessageRows
  <2>1. \A m \in Messages : new[m] \in MessageType \cup {None}
      BY <1>2, <1>3, <1>4
  <2> QED
      BY <1>1, <2>1 DEF MessageRows, AgainMessages
<1>6. ASSUME NEW m \in Messages, old[m] # None
      PROVE /\ new[m] # None /\ new[m].parts = old[m].parts /\ new[m].parent = old[m].parent
            /\ old[m].heard \subseteq new[m].heard /\ new[m].heard \subseteq old[m].heard \cup {e}
            /\ m \in DOMAIN Body[d] => e \in new[m].heard
  <2>1. CASE m \in DOMAIN Body[d]
      BY <1>4, <1>6, <2>1, AbsentRows
  <2>2. CASE m \notin DOMAIN Body[d]
      BY <1>3, <1>6, <2>2
  <2> QED
      BY <2>1, <2>2
<1>7. \A m \in Messages : old[m] = None => new[m] = None
    BY <1>3
<1>8. MessagesGrow(old, new, e, d)
    BY <1>5, <1>6, <1>7 DEF MessagesGrow
<1>9. MessagesHeard(old, new, e, d)
    BY <1>6 DEF MessagesHeard
<1> QED
    BY <1>1, <1>8, <1>9

-----------------------------------------------------------------------------
\* A row before its stamp and observations are written.
LooseRow == [digest : DOMAIN Body, stamp : Parsers \cup {None}, project : Projects \cup {None},
             first : ExportIds \cup {None}, last : ExportIds \cup {None}]

\* What a read leaves of everything but the messages: the row observed by e.
Reread(r, s, e, messages) ==
    /\ DOMAIN s = Fields /\ s.seen = r.seen /\ s.kept = r.kept /\ s.revisions = r.revisions
    /\ s.row \in RowType /\ s.row.digest = r.row.digest /\ s.row.last = e
    /\ s.row.first = Coalesce(r.row.first, e)
    /\ s.messages = messages

\* Reading content again touches the observations only.
LEMMA ReadAgainWrites ==
    ASSUME NEW r, NEW e \in ExportIds, NEW d \in DOMAIN Body, DOMAIN r = Fields, r.row \in RowType
    PROVE LET s == ReadAgain(r, e, d)
          IN Reread(r, s, e, AgainMessages(r.messages, e, d)) /\ s.row.project = r.row.project
<1>1. PICK s : s = ReadAgain(r, e, d)
    OBVIOUS
<1> DEFINE row == [r.row EXCEPT !.first = Coalesce(r.row.first, e), !.last = e]
           messages == AgainMessages(r.messages, e, d)
<1>2. s = [r EXCEPT !.row = row, !.messages = messages]
    BY <1>1 DEF ReadAgain, AgainMessages
<1>3. Coalesce(r.row.first, e) \in ExportIds
    BY SMT DEF Coalesce, RowType
<1>4. /\ row \in RowType /\ row.digest = r.row.digest /\ row.last = e
      /\ row.first = Coalesce(r.row.first, e) /\ row.project = r.row.project
  <2> HIDE DEF messages
  <2>1. row.digest = r.row.digest /\ row.last = e /\ row.first = Coalesce(r.row.first, e) /\ row.project = r.row.project
      BY SMT DEF RowType
  <2>2. row \in RowType
      BY <1>3 DEF RowType
  <2> QED
      BY <2>1, <2>2
<1> HIDE DEF row, messages
<1>5. /\ DOMAIN s = Fields /\ s.seen = r.seen /\ s.kept = r.kept /\ s.revisions = r.revisions
      /\ s.row = row /\ s.messages = messages
    BY <1>2, SMT DEF Fields
<1> QED
    BY <1>1, <1>4, <1>5 DEF Reread, messages

\* Writing content stamps the row and moves it to the project, if there is one.
LEMMA PersistDetailWrites ==
    ASSUME NEW r, NEW e \in ExportIds, NEW p \in Parsers, NEW d \in DOMAIN Body,
           NEW project \in Projects \cup {None}, DOMAIN r = Fields, r.row \in LooseRow
    PROVE LET s == PersistDetail(r, e, p, d, project)
          IN /\ Reread(r, s, e, DetailMessages(r.messages, e, d))
             /\ s.row.project = Coalesce(project, r.row.project)
<1>1. PICK s : s = PersistDetail(r, e, p, d, project)
    OBVIOUS
<1> DEFINE first == Coalesce(r.row.first, e)
           to == Coalesce(project, r.row.project)
           row == [r.row EXCEPT !.project = to, !.first = first, !.last = e, !.stamp = p]
           messages == DetailMessages(r.messages, e, d)
<1>2. s = [r EXCEPT !.row = row, !.messages = messages]
    BY <1>1 DEF PersistDetail, DetailMessages
<1>3. first \in ExportIds /\ to \in Projects \cup {None}
    BY SMT DEF Coalesce, LooseRow
<1> HIDE DEF first, to, messages
<1>4. /\ row \in RowType /\ row.digest = r.row.digest /\ row.last = e
      /\ row.first = first /\ row.project = to
  <2>1. row.digest = r.row.digest /\ row.last = e /\ row.first = first /\ row.project = to
      BY SMT DEF LooseRow
  <2>2. row \in RowType
      BY <1>3 DEF RowType, LooseRow
  <2> QED
      BY <2>1, <2>2
<1> HIDE DEF row
<1>5. /\ DOMAIN s = Fields /\ s.seen = r.seen /\ s.kept = r.kept /\ s.revisions = r.revisions
      /\ s.row = row /\ s.messages = messages
    BY <1>2, SMT DEF Fields
<1> QED
    BY <1>1, <1>4, <1>5 DEF Reread, messages, first, to

\* What append_revision leaves: at most a revision of the content, by e.
Revised(r, s, e, d) ==
    /\ DOMAIN s = Fields /\ s.row = r.row /\ s.seen = r.seen /\ s.kept = r.kept /\ s.messages = r.messages
    /\ r.revisions \subseteq s.revisions
    /\ \A v \in s.revisions : v \in r.revisions \/ (v.digest = d /\ v.export = e)
    /\ r.revisions = {} => \E v \in s.revisions : v.export = e

\* append_revision does what Revised says.
LEMMA AppendRevisionWrites ==
    ASSUME NEW r, NEW e, NEW d, DOMAIN r = Fields
    PROVE Revised(r, AppendRevision(r, e, d), e, d)
<1>1. CASE r.revisions # {} /\ Newest(r.revisions).digest = d
    BY <1>1 DEF AppendRevision, Revised
<1>2. CASE ~(r.revisions # {} /\ Newest(r.revisions).digest = d)
  <2>1. PICK s : s = AppendRevision(r, e, d)
      OBVIOUS
  <2>2. s = [r EXCEPT !.revisions = r.revisions \cup {Revision(r, e, d)}]
      BY <1>2, <2>1 DEF AppendRevision
  <2>3. Revision(r, e, d).digest = d /\ Revision(r, e, d).export = e
      BY DEF Revision
  <2>4. /\ DOMAIN s = Fields /\ s.row = r.row /\ s.seen = r.seen /\ s.kept = r.kept
        /\ s.messages = r.messages /\ s.revisions = r.revisions \cup {Revision(r, e, d)}
      BY <2>2, SMT DEF Fields
  <2> QED
      BY <2>1, <2>3, <2>4 DEF Revised
<1> QED
    BY <1>1, <1>2

-----------------------------------------------------------------------------
\* The record s of a conversation is r with the content d read from export e.
ConversationRead(r, s, e, d, project) ==
    /\ Grown(r, s, e, d)
    /\ s.row # None /\ s.row.digest = d
    /\ s.row.project \in {None, project} \/ (r.row # None /\ s.row.project = r.row.project)
    /\ r.revisions \subseteq s.revisions
    /\ r.row = None => \E v \in s.revisions : v.export = e
    /\ MessagesGrow(r.messages, s.messages, e, d)
    /\ \/ MessagesWritten(s.messages, e, d)
       \/ r.row # None /\ r.row.digest = d /\ MessagesHeard(r.messages, s.messages, e, d)

\* The messages of s are evidence of the exports when they grew from r's.
LEMMA MessagesStayEvidenced ==
    ASSUME NEW r, NEW s, NEW imported, NEW e, NEW d,
           RecordInv(r, imported), MessagesGrow(r.messages, s.messages, e, d)
    PROVE /\ s.messages \in MessageRows
          /\ \A m \in Present(s) : s.messages[m].heard \subseteq imported \cup {e}
<1>1. s.messages \in MessageRows
    BY DEF MessagesGrow
<1>2. ASSUME NEW m \in Present(s)
      PROVE s.messages[m].heard \subseteq imported \cup {e}
  <2>1. m \in Messages /\ s.messages[m] # None
      BY DEF Present
  <2>2. s.messages[m].heard \subseteq (IF r.messages[m] = None THEN {} ELSE r.messages[m].heard) \cup {e}
      BY <2>1 DEF MessagesGrow
  <2>3. CASE r.messages[m] = None
      BY <2>2, <2>3
  <2>4. CASE r.messages[m] # None
    <3>1. r.messages[m].heard \subseteq imported
        BY <2>1, <2>4 DEF RecordInv, Present
    <3> QED
        BY <2>2, <2>4, <3>1
  <2> QED
      BY <2>3, <2>4
<1> QED
    BY <1>1, <1>2

\* persist_projection keeps the invariant of a conversation's record.
LEMMA PersistConversationKeeps ==
    ASSUME NEW x \in Conversations, NEW r, NEW imported, NEW e \in ExportIds, NEW p \in Parsers,
           NEW d \in DOMAIN Body, NEW project \in Projects \cup {None}, RecordInv(r, imported)
    PROVE LET s == PersistConversation(r, e, p, d, project)
          IN /\ ConversationRead(r, s, e, d, project) /\ RecordInv(s, imported \cup {e})
             /\ KeptInv(x, r) => KeptInv(x, s)
<1> DEFINE blank == [digest |-> None, stamp |-> None, project |-> None, first |-> None, last |-> None]
           t == [r EXCEPT !.row = Coalesce(r.row, blank)]
           o == Observe(t, e, d)
<1>1. PICK s : s = PersistConversation(r, e, p, d, project)
    OBVIOUS
<1>2. s = IF o.row.digest = d THEN ReadAgain(o, e, d)
          ELSE PersistDetail(KeepVersion(AppendRevision(o, e, d), d, p, project), e, p, d, project)
    BY <1>1 DEF PersistConversation
<1>3. /\ DOMAIN r = Fields /\ r.seen \in Seen /\ r.kept \subseteq KeptType
      /\ r.row \in RowType \cup {None} /\ r.messages \in MessageRows
    BY DEF RecordInv, RecordOK, Fields, Seen, MessageRows
<1>4. /\ DOMAIN t = Fields /\ t.row = Coalesce(r.row, blank) /\ t.seen = r.seen /\ t.kept = r.kept
      /\ t.messages = r.messages /\ t.revisions = r.revisions
    BY <1>3, SMT DEF Fields
<1>5. blank.digest = None /\ blank.first = None /\ blank.project = None
    OBVIOUS
<1>6. [blank EXCEPT !.digest = d] \in LooseRow
    BY DEF LooseRow
<1> HIDE DEF blank, t
<1>7. Shelved(t) /\ (KeptInv(x, r) => Stocked(t))
  <2>1. Versions(t) = Versions(r)
      BY <1>4, SameSeen
  <2>2. KeptInv(x, r) => Digests(r.kept) = Versions(r)
      BY DEF KeptInv, Digests
  <2> QED
      BY <1>3, <1>4, <2>1, <2>2 DEF Stocked, Shelved
<1>8. Observed(t, o, e, d)
    BY <1>7, ObserveWrites
<1> HIDE DEF o
<1>9. /\ DOMAIN o = Fields /\ o.row = Coalesce(r.row, blank) /\ o.messages = r.messages
      /\ o.revisions = r.revisions /\ o.seen = [r.seen EXCEPT ![e] = d]
      /\ o.kept \subseteq KeptType
      /\ KeptInv(x, r) => /\ Digests(o.kept) \cup {d} = Versions(o)
                          /\ d \in Versions(r) => d \in Digests(o.kept)
  <2>1. Versions(t) = Versions(r)
      BY <1>4 DEF Versions
  <2> QED
      BY <1>3, <1>4, <1>7, <1>8, <2>1 DEF Observed, Grown
<1>10. Grown(r, o, e, d)
    BY <1>3, <1>9 DEF Grown
<1>11. o.seen \in Seen
    BY <1>10, ObserversGrow DEF GrownEvidence
<1>12. \A v \in r.revisions : v.digest \in DOMAIN Body /\ v.export \in ExportIds /\ v.export \in imported
    BY DEF RecordInv, RecordOK
<1>13. d # None
    BY VersionConstants
<1>14. CASE o.row.digest = d
  <2>1. r.row # None /\ o.row = r.row
      BY <1>5, <1>9, <1>13, <1>14 DEF Coalesce
  <2>2. r.row \in RowType /\ r.row.digest = d
      BY <1>3, <1>14, <2>1
  <2>3. ASSUME KeptInv(x, r)
        PROVE d \in Versions(r)
    <3>1. Named(r, d)
        BY <2>1, <2>2, <2>3 DEF KeptInv
    <3> QED
        BY <1>13, <3>1 DEF Named, Versions
  <2>4. Reread(o, s, e, AgainMessages(o.messages, e, d)) /\ s.row.project = o.row.project
      BY <1>2, <1>9, <1>14, <2>1, <2>2, ReadAgainWrites
  <2> USE DEF Reread
  <2>5. MessagesGrow(r.messages, s.messages, e, d) /\ MessagesHeard(r.messages, s.messages, e, d)
    <3>1. s.messages = AgainMessages(r.messages, e, d)
        BY <1>9, <2>4
    <3> QED
        BY <1>3, <3>1, AgainMessagesWrites
  <2>6. Grown(r, s, e, d)
      BY <1>10, <2>4 DEF Grown
  <2>7. RowGrown(r, s, e, d)
    <3>1. Coalesce(r.row.first, e) \in Observers(r) \cup {e}
        BY <2>1, FirstStays
    <3> QED
        BY <2>1, <2>2, <2>4, <3>1 DEF RowGrown
  <2>8. Shelved(s) /\ (KeptInv(x, r) => Stocked(s))
    <3>1. Versions(s) = Versions(o)
        BY <2>4 DEF Versions
    <3>2. KeptInv(x, r) => Digests(s.kept) = Versions(s)
        BY <1>9, <2>3, <2>4, <3>1
    <3> QED
        BY <1>9, <1>11, <2>4, <3>2 DEF Stocked, Shelved
  <2>9. Evidenced(s, imported \cup {e})
    <3>1. /\ s.messages \in MessageRows
          /\ \A m \in Present(s) : s.messages[m].heard \subseteq imported \cup {e}
        BY <2>5, MessagesStayEvidenced
    <3> QED
        BY <1>9, <1>12, <2>4, <3>1 DEF Evidenced, MessageRows
  <2>10. RecordInv(s, imported \cup {e}) /\ s.row # None /\ (KeptInv(x, r) => KeptInv(x, s))
      BY <2>6, <2>7, <2>8, <2>9, RecordGrows
  <2>11. ConversationRead(r, s, e, d, project)
      BY <1>9, <2>1, <2>2, <2>4, <2>5, <2>6, <2>10 DEF ConversationRead
  <2> QED
      BY <1>1, <2>10, <2>11
<1>15. CASE o.row.digest # d
  <2> DEFINE a == AppendRevision(o, e, d)
             k == KeepSnapshot(a, d, p, project)
             v == [k EXCEPT !.row.digest = d]
  <2>1. s = PersistDetail(v, e, p, d, project)
      BY <1>2, <1>15 DEF KeepVersion
  <2>2. Revised(o, a, e, d)
      BY <1>9, AppendRevisionWrites
  <2> HIDE DEF a
  <2>3. DOMAIN a = Fields /\ a.kept \subseteq KeptType
      BY <1>9, <2>2 DEF Revised
  <2>4. SnapshotKept(a, k, d)
      BY <2>3, KeepSnapshotWrites
  <2> HIDE DEF k
  <2>5. /\ DOMAIN k = Fields /\ k.row = Coalesce(r.row, blank) /\ k.seen = o.seen /\ k.messages = r.messages
        /\ k.revisions = a.revisions /\ k.kept \subseteq KeptType /\ Digests(k.kept) = Digests(o.kept) \cup {d}
      BY <1>9, <2>2, <2>4 DEF Revised, SnapshotKept
  <2>6. /\ DOMAIN v = Fields /\ v.row = [k.row EXCEPT !.digest = d] /\ v.seen = k.seen
        /\ v.messages = k.messages /\ v.revisions = k.revisions /\ v.kept = k.kept
      BY <2>5, SMT DEF Fields
  <2> HIDE DEF v
  <2>7. v.row \in LooseRow /\ v.row.digest = d
    <3>1. CASE r.row = None
        BY <1>6, <2>5, <2>6, <3>1 DEF Coalesce, LooseRow
    <3>2. CASE r.row # None
      <4>1. r.row \in RowType /\ v.row = [r.row EXCEPT !.digest = d]
          BY <1>3, <2>5, <2>6, <3>2 DEF Coalesce
      <4> QED
          BY <4>1 DEF RowType, LooseRow
    <3> QED
        BY <3>1, <3>2
  <2>8. /\ Reread(v, s, e, DetailMessages(v.messages, e, d))
        /\ s.row.project = Coalesce(project, v.row.project)
    <3>1. DOMAIN v = Fields /\ v.row \in LooseRow
        BY <2>6, <2>7
    <3> QED
        BY <2>1, <3>1, PersistDetailWrites
  <2> USE DEF Reread
  <2>9. MessagesGrow(r.messages, s.messages, e, d) /\ MessagesWritten(s.messages, e, d)
    <3>1. s.messages = DetailMessages(r.messages, e, d)
        BY <2>5, <2>6, <2>8
    <3> QED
        BY <1>3, <3>1, DetailMessagesWrites
  <2>10. Grown(r, s, e, d)
      BY <1>10, <2>5, <2>6, <2>8 DEF Grown
  <2>11. /\ r.row = None => v.row.first = None /\ v.row.project = None
         /\ r.row # None => v.row.first = r.row.first /\ v.row.project = r.row.project
    <3>1. CASE r.row = None
      <4>1. v.row = [blank EXCEPT !.digest = d]
          BY <2>5, <2>6, <3>1 DEF Coalesce
      <4> QED
          BY <3>1, <4>1 DEF blank
    <3>2. CASE r.row # None
      <4>1. r.row \in RowType /\ v.row = [r.row EXCEPT !.digest = d]
          BY <1>3, <2>5, <2>6, <3>2 DEF Coalesce
      <4> QED
          BY <3>2, <4>1, SMT DEF RowType
    <3> QED
        BY <3>1, <3>2
  <2>12. RowGrown(r, s, e, d)
    <3>1. Coalesce(v.row.first, e) \in Observers(r) \cup {e}
        BY <2>11, FirstStays DEF Coalesce
    <3> QED
        BY <2>7, <2>8, <3>1 DEF RowGrown
  <2>13. Shelved(s) /\ (KeptInv(x, r) => Stocked(s))
    <3>1. s.seen = o.seen
        BY <2>5, <2>6, <2>8
    <3>2. KeptInv(x, r) => Digests(s.kept) = Versions(s)
      <4>1. Versions(s) = Versions(o)
          BY <3>1 DEF Versions
      <4>2. Digests(s.kept) = Digests(o.kept) \cup {d}
          BY <2>5, <2>6, <2>8
      <4> QED
          BY <1>9, <4>1, <4>2
    <3> QED
        BY <1>11, <2>5, <2>6, <2>8, <3>1, <3>2 DEF Stocked, Shelved
  <2>14. s.revisions = a.revisions /\ o.revisions = r.revisions
      BY <1>9, <2>5, <2>6, <2>8
  <2>15. Evidenced(s, imported \cup {e})
    <3>1. /\ s.messages \in MessageRows
          /\ \A m \in Present(s) : s.messages[m].heard \subseteq imported \cup {e}
        BY <2>9, MessagesStayEvidenced
    <3>2. ASSUME NEW u \in s.revisions
          PROVE u.digest \in DOMAIN Body /\ u.export \in ExportIds /\ u.export \in imported \cup {e}
        BY <1>12, <2>2, <2>14 DEF Revised
    <3> QED
        BY <3>1, <3>2 DEF Evidenced, MessageRows
  <2>16. RecordInv(s, imported \cup {e}) /\ s.row # None /\ (KeptInv(x, r) => KeptInv(x, s))
      BY <2>10, <2>12, <2>13, <2>15, RecordGrows
  <2>17. r.row = None => r.revisions = {}
      BY EmptyRecord DEF RecordInv
  <2>18. /\ r.revisions \subseteq s.revisions
         /\ r.row = None => \E u \in s.revisions : u.export = e
      BY <2>2, <2>14, <2>17 DEF Revised
  <2>19. s.row.project \in {None, project} \/ (r.row # None /\ s.row.project = r.row.project)
      BY <2>8, <2>11 DEF Coalesce
  <2>20. ConversationRead(r, s, e, d, project)
      BY <2>7, <2>8, <2>9, <2>10, <2>16, <2>18, <2>19 DEF ConversationRead
  <2> QED
      BY <1>1, <2>16, <2>20
<1> QED
    BY <1>14, <1>15

\* Parts that come from some versions come from more versions.
LEMMA PartsComeFromMore ==
    ASSUME NEW r, NEW few, NEW many, PartsComeFrom(r, few), few \subseteq many
    PROVE PartsComeFrom(r, many)
BY DEF PartsComeFrom

\* What the messages of a conversation are survives the reading of an export;
\* a version that a reparse replaces is remembered as replaced.
LEMMA PersistConversationKeepsHistory ==
    ASSUME NEW r, NEW s, NEW e, NEW d, NEW project, NEW replaced, NEW taken,
           HistoryInv(r, replaced, taken), ConversationRead(r, s, e, d, project)
    PROVE HistoryInv(s, replaced \cup ({r.seen[e]} \ {None, d}), taken)
<1> DEFINE more == replaced \cup ({r.seen[e]} \ {None, d})
<1>1. Grown(r, s, e, d) /\ MessagesGrow(r.messages, s.messages, e, d) /\ s.row.digest = d
    BY DEF ConversationRead
<1>2. GrownEvidence(r, s, e, d) /\ d \in DOMAIN Body /\ e \in ExportIds
    BY <1>1, ObserversGrow DEF Grown
<1>3. PartsComeFrom(s, Versions(s) \cup more)
  <2> SUFFICES ASSUME NEW m \in Present(s)
               PROVE Range(s.messages[m].parts) \subseteq UNION {PayloadsOf(v, m) : v \in Versions(s) \cup more}
      BY DEF PartsComeFrom
  <2>1. m \in Messages /\ s.messages[m] # None
      BY DEF Present
  <2>2. Range(s.messages[m].parts)
          \subseteq (IF r.messages[m] = None THEN {} ELSE Range(r.messages[m].parts)) \cup PayloadsOf(d, m)
      BY <1>1, <2>1 DEF MessagesGrow
  <2>3. PayloadsOf(d, m) \subseteq UNION {PayloadsOf(v, m) : v \in Versions(s) \cup more}
      BY <1>2 DEF GrownEvidence
  <2>4. CASE r.messages[m] = None
      BY <2>2, <2>3, <2>4
  <2>5. CASE r.messages[m] # None
    <3>1. PartsComeFrom(r, Versions(r) \cup replaced) /\ Versions(r) \cup replaced \subseteq Versions(s) \cup more
        BY <1>2 DEF HistoryInv, GrownEvidence
    <3>2. PartsComeFrom(r, Versions(s) \cup more)
        BY <3>1, PartsComeFromMore
    <3>3. Range(r.messages[m].parts) \subseteq UNION {PayloadsOf(v, m) : v \in Versions(s) \cup more}
        BY <2>1, <2>5, <3>2 DEF PartsComeFrom, Present
    <3> QED
        BY <2>2, <2>3, <2>5, <3>3
  <2> QED
      BY <2>4, <2>5
<1>4. ASSUME taken = {}
      PROVE ReadsAs(s, Body[d])
  <2>1. CASE MessagesWritten(s.messages, e, d)
      BY <2>1 DEF MessagesWritten, ReadsAs, LatestParts
  <2>2. CASE r.row # None /\ r.row.digest = d /\ MessagesHeard(r.messages, s.messages, e, d)
    <3>1. ReadsAs(r, Body[d])
        BY <1>4, <2>2 DEF HistoryInv
    <3>2. ASSUME NEW m \in DOMAIN Body[d]
          PROVE /\ s.messages[m] # None /\ s.messages[m].parts = r.messages[m].parts
                /\ s.messages[m].parent = r.messages[m].parent
      <4>1. m \in Messages
          BY <1>2, BodyTypes
      <4>2. r.messages[m] # None
          BY <3>1 DEF ReadsAs
      <4> QED
          BY <2>2, <4>1, <4>2 DEF MessagesHeard
    <3> QED
        BY <3>1, <3>2 DEF ReadsAs, LatestParts
  <2> QED
      BY <2>1, <2>2 DEF ConversationRead
<1>5. ASSUME taken = {}, NEW f \in Observers(s)
      PROVE Heard(s, f)
  <2>1. CASE f = e
    <3>1. SUFFICES ASSUME NEW m \in DOMAIN Body[d]
                   PROVE s.messages[m] # None /\ e \in s.messages[m].heard
        BY <1>2, <2>1 DEF Heard, GrownEvidence
    <3>2. CASE MessagesWritten(s.messages, e, d)
        BY <3>2 DEF MessagesWritten
    <3>3. CASE r.row # None /\ r.row.digest = d /\ MessagesHeard(r.messages, s.messages, e, d)
      <4>1. ReadsAs(r, Body[d])
          BY <1>5, <3>3 DEF HistoryInv
      <4>2. m \in Messages /\ r.messages[m] # None
          BY <1>2, <4>1, BodyTypes DEF ReadsAs
      <4> QED
          BY <3>3, <4>2 DEF MessagesHeard
    <3> QED
        BY <3>2, <3>3 DEF ConversationRead
  <2>2. CASE f # e
    <3>1. f \in Observers(r) /\ s.seen[f] = r.seen[f] /\ r.seen[f] \in DOMAIN Body
      <4>1. f \in Observers(r) /\ f \in ExportIds /\ s.seen[f] = r.seen[f]
          BY <1>2, <2>2 DEF GrownEvidence, Observers
      <4>2. r.seen[f] \in DOMAIN Body \cup {None} /\ r.seen[f] # None
          BY <1>1, <4>1 DEF Grown, Seen, Observers
      <4> QED
          BY <4>1, <4>2
    <3>2. Heard(r, f)
        BY <1>5, <3>1 DEF HistoryInv
    <3>3. SUFFICES ASSUME NEW m \in DOMAIN Body[r.seen[f]]
                   PROVE s.messages[m] # None /\ f \in s.messages[m].heard
        BY <3>1 DEF Heard
    <3>4. m \in Messages /\ r.messages[m] # None /\ f \in r.messages[m].heard
        BY <3>1, <3>2, BodyTypes DEF Heard
    <3> QED
        BY <1>1, <3>4 DEF MessagesGrow
  <2> QED
      BY <2>1, <2>2
<1> QED
    BY <1>1, <1>3, <1>4, <1>5 DEF HistoryInv

-----------------------------------------------------------------------------
\* What repoint_surviving_provenance leaves of a row: it names remaining
\* observers.
Repointed(row, new, remaining) ==
    new \in RowType /\ new.digest = row.digest /\ new.project = row.project /\ NamesObservers(new, remaining)

\* repoint_surviving_provenance does what Repointed says.
LEMMA RepointWrites ==
    ASSUME NEW row \in RowType, NEW observers, NEW exports, observers \subseteq ExportIds,
           NamesObservers(row, observers)
    PROVE Repointed(row, Repoint(row, observers \ exports, exports), observers \ exports)
<1> USE DEF Repointed, NamesObservers
<1> DEFINE remaining == observers \ exports
<1>0. remaining \subseteq ExportIds /\ remaining \subseteq observers
    OBVIOUS
<1> DEFINE oldest == IF remaining = {} THEN None ELSE CHOOSE e \in remaining : \A f \in remaining : e <= f
           newest == IF remaining = {} THEN None ELSE CHOOSE e \in remaining : \A f \in remaining : e >= f
<1>1. PICK new : new = Repoint(row, remaining, exports)
    OBVIOUS
<1>2. CASE row.first \notin exports /\ row.last \notin exports
  <2>1. new = row
      BY <1>1, <1>2 DEF Repoint
  <2> QED
      BY <1>1, <1>2, <2>1
<1>3. CASE ~(row.first \notin exports /\ row.last \notin exports)
  <2>1. new = [row EXCEPT !.first = oldest, !.last = newest]
      BY <1>1, <1>3 DEF Repoint
  <2>2. oldest \in remaining \cup (IF remaining = {} THEN {None} ELSE {})
    <3>1. ASSUME remaining # {}
          PROVE \E e \in remaining : \A f \in remaining : e <= f
      <4>1. ExportIds \subseteq Nat
          BY SMT DEF ExportIds
      <4> QED
          BY <1>0, <3>1, <4>1, Least
    <3> QED
        BY <3>1
  <2>3. newest \in remaining \cup (IF remaining = {} THEN {None} ELSE {})
    <3>1. ASSUME remaining # {}
          PROVE \E e \in remaining : \A f \in remaining : e >= f
        BY <1>0, <3>1, Greatest
    <3> QED
        BY <3>1
  <2> HIDE DEF oldest, newest, remaining
  <2>4. oldest \in ExportIds \cup {None} /\ newest \in ExportIds \cup {None}
      BY <1>0, <2>2, <2>3
  <2>5. new \in RowType
      BY <2>1, <2>4 DEF RowType
  <2>6. new.first = oldest /\ new.last = newest /\ new.digest = row.digest /\ new.project = row.project
      BY <2>1, SMT DEF RowType
  <2>7. Repointed(row, new, remaining)
      BY <2>2, <2>3, <2>5, <2>6
  <2> QED
      BY <1>1, <2>7 DEF remaining
<1> QED
    BY <1>2, <1>3

\* The snapshots of a record that a deletion leaves, before its versions are
\* restored: there may be some that no remaining export presents.
ScopedKept(x, s) ==
    /\ x \in Conversations => Observers(s) # {}
    /\ s.row.digest \in Digests(s.kept) \/ Observers(s) = {}
    /\ Versions(s) \subseteq Digests(s.kept)

\* A record that a deletion leaves, before its versions are restored.
ScopedInv(s, imported) ==
    /\ RecordOK(s) /\ s.row # None /\ RowReferences(s)
    /\ Observers(s) \subseteq imported
    /\ \A m \in Present(s) : s.messages[m].heard \subseteq imported
    /\ \A v \in s.revisions : v.export \in imported

\* What delete_scoped_rows leaves of a record r it keeps.
Cut(x, r, s, p) ==
    /\ DOMAIN s = Fields /\ s.kept = r.kept /\ s.revisions \subseteq r.revisions
    /\ \A v \in s.revisions : v.export \notin p.exports
    /\ s.seen \in Seen /\ Observers(s) = Observers(r) \ p.exports
    /\ \A e \in Observers(s) : s.seen[e] = r.seen[e]
    /\ s.row \in RowType /\ s.row.digest = r.row.digest /\ RowReferences(s)
    /\ s.row.project = IF r.row.project \in p.rows THEN None ELSE r.row.project
    /\ s.messages \in MessageRows
    /\ \A m \in Messages : s.messages[m] # None => r.messages[m] # None
    /\ \A m \in Messages : r.messages[m] # None /\ m \notin p.messages[x] => s.messages[m] # None
    /\ \A m \in Messages : s.messages[m] # None =>
          /\ s.messages[m].heard = r.messages[m].heard \ p.exports
          /\ s.messages[m].parts = r.messages[m].parts /\ s.messages[m].parent = r.messages[m].parent

\* delete_scoped_rows does what Cut says.
LEMMA DeleteScopedWrites ==
    ASSUME NEW x, NEW r, NEW imported, NEW p, RecordInv(r, imported), r.row # None, x \notin p.rows
    PROVE Cut(x, r, DeleteScoped(x, r, p), p)
<1> DEFINE messages == [m \in Messages |-> IF r.messages[m] = None \/ m \in p.messages[x] THEN None
                                           ELSE Unheard(r.messages[m], p.exports)]
           revisions == {v \in r.revisions : v.export \notin p.exports}
           seen == [e \in ExportIds |-> IF e \in p.exports THEN None ELSE r.seen[e]]
           left == LeaveProject(r.row, p.rows)
           row == Repoint(left, Observers(r) \ p.exports, p.exports)
<1>1. PICK s : s = DeleteScoped(x, r, p)
    OBVIOUS
<1>2. s = [r EXCEPT !.messages = messages, !.revisions = revisions, !.seen = seen, !.row = row]
    BY <1>1 DEF DeleteScoped
<1>3. /\ DOMAIN r = Fields /\ r.seen \in Seen /\ r.row \in RowType /\ r.messages \in MessageRows
      /\ RowReferences(r)
    BY DEF RecordInv, RecordOK, Fields, Seen, MessageRows
<1>4. /\ left \in RowType /\ left.digest = r.row.digest /\ left.first = r.row.first /\ left.last = r.row.last
      /\ left.project = IF r.row.project \in p.rows THEN None ELSE r.row.project
  <2> DEFINE to == IF r.row.project \in p.rows THEN None ELSE r.row.project
  <2>1. left = [r.row EXCEPT !.project = to]
      BY DEF LeaveProject
  <2>2. to \in Projects \cup {None}
      BY <1>3, SMT DEF RowType
  <2> HIDE DEF to, left
  <2>3. left \in RowType
      BY <1>3, <2>1, <2>2 DEF RowType
  <2>4. left.digest = r.row.digest /\ left.first = r.row.first /\ left.last = r.row.last /\ left.project = to
      BY <1>3, <2>1, SMT DEF RowType
  <2> QED
      BY <2>3, <2>4 DEF to
<1> HIDE DEF left
<1>5. Repointed(left, row, Observers(r) \ p.exports)
  <2>1. Observers(r) \subseteq ExportIds
      BY DEF Observers
  <2>2. NamesObservers(left, Observers(r))
      BY <1>3, <1>4 DEF RowReferences, NamesObservers
  <2> QED
      BY <1>4, <2>1, <2>2, RepointWrites
<1> HIDE DEF messages, revisions, seen, row
<1>6. /\ DOMAIN s = Fields /\ s.kept = r.kept /\ s.revisions = revisions /\ s.seen = seen /\ s.row = row
      /\ s.messages = messages
    BY <1>2, <1>3, SMT DEF Fields
<1>7. s.seen \in Seen /\ \A e \in ExportIds : s.seen[e] = IF e \in p.exports THEN None ELSE r.seen[e]
    BY <1>3, <1>6 DEF seen, Seen
<1>8. Observers(s) = Observers(r) \ p.exports /\ \A e \in Observers(s) : s.seen[e] = r.seen[e]
    BY <1>7 DEF Observers
<1>9. RowReferences(s)
    BY <1>5, <1>6, <1>8 DEF RowReferences, Repointed
<1>10. ASSUME NEW m \in Messages
       PROVE s.messages[m] = IF r.messages[m] = None \/ m \in p.messages[x] THEN None
                             ELSE Unheard(r.messages[m], p.exports)
    BY <1>6 DEF messages
<1>11. ASSUME NEW m \in Messages, r.messages[m] # None, m \notin p.messages[x]
       PROVE /\ s.messages[m] \in MessageType
             /\ s.messages[m].heard = r.messages[m].heard \ p.exports
             /\ s.messages[m].parts = r.messages[m].parts /\ s.messages[m].parent = r.messages[m].parent
  <2>1. r.messages[m] \in MessageType
      BY <1>3, <1>11 DEF MessageRows
  <2>2. s.messages[m] = [r.messages[m] EXCEPT !.heard = r.messages[m].heard \ p.exports]
      BY <1>10, <1>11 DEF Unheard
  <2> QED
      BY <2>1, <2>2, SMT DEF MessageType
<1>12. s.messages \in MessageRows
  <2>1. \A m \in Messages : s.messages[m] \in MessageType \cup {None}
      BY <1>10, <1>11
  <2> QED
      BY <1>6, <2>1 DEF MessageRows, messages
<1>13. /\ \A m \in Messages : s.messages[m] # None => r.messages[m] # None /\ m \notin p.messages[x]
       /\ \A m \in Messages : r.messages[m] # None /\ m \notin p.messages[x] => s.messages[m] # None
    BY <1>10, <1>11, AbsentRows
<1>14. \A m \in Messages : s.messages[m] # None =>
          /\ s.messages[m].heard = r.messages[m].heard \ p.exports
          /\ s.messages[m].parts = r.messages[m].parts /\ s.messages[m].parent = r.messages[m].parent
    BY <1>11, <1>13
<1>15. s.revisions \subseteq r.revisions /\ \A v \in s.revisions : v.export \notin p.exports
    BY <1>6 DEF revisions
<1>16. /\ s.row \in RowType /\ s.row.digest = r.row.digest
       /\ s.row.project = IF r.row.project \in p.rows THEN None ELSE r.row.project
    BY <1>4, <1>5, <1>6 DEF Repointed
<1> QED
    BY <1>1, <1>6, <1>7, <1>8, <1>9, <1>12, <1>13, <1>14, <1>15, <1>16 DEF Cut

\* The snapshots of a record are of versions it presents, and a version is a
\* content.
LEMMA VersionsAreContents ==
    ASSUME NEW s, s.seen \in Seen
    PROVE /\ Versions(s) \subseteq DOMAIN Body
          /\ \A e \in Observers(s) : e \in ExportIds /\ s.seen[e] \in Versions(s)
          /\ \A d \in DOMAIN Body : d \in Versions(s) <=> Named(s, d)
<1>1. Versions(s) \subseteq DOMAIN Body
    BY DEF Versions, Seen
<1>2. \A e \in Observers(s) : e \in ExportIds /\ s.seen[e] \in Versions(s)
    BY DEF Versions, Observers
<1>3. \A d \in DOMAIN Body : d \in Versions(s) <=> Named(s, d)
    BY VersionConstants DEF Versions, Named
<1> QED
    BY <1>1, <1>2, <1>3

\* Deleting the rows of a scope leaves a record that can be restored, with its
\* snapshots when some export outside the scope presents the conversation.
LEMMA CutKeeps ==
    ASSUME NEW x, NEW r, NEW s, NEW imported, NEW p,
           RecordInv(r, imported), r.row # None, Cut(x, r, s, p)
    PROVE /\ ScopedInv(s, imported \ p.exports)
          /\ KeptInv(x, r) /\ (x \in Conversations => Observers(s) # {}) => ScopedKept(x, s)
<1>1. /\ r.kept \subseteq KeptType /\ Observers(r) \subseteq imported
      /\ r.seen \in Seen /\ r.row \in RowType
      /\ KeptInv(x, r) => /\ Digests(r.kept) = Versions(r)
                          /\ Observers(r) # {} => Named(r, r.row.digest)
    BY DEF RecordInv, RecordOK, Digests, Seen, KeptInv
<1>2. RecordOK(s)
    BY <1>1 DEF Cut, RecordInv, RecordOK, Fields, Seen, MessageRows
<1>3. s.row # None
    BY AbsentRows DEF Cut
<1>4. KeptInv(x, r) => s.row.digest \in Digests(s.kept) \/ Observers(s) = {}
  <2>1. SUFFICES ASSUME KeptInv(x, r), Observers(s) # {}
                 PROVE s.row.digest \in Digests(s.kept)
      OBVIOUS
  <2>2. Observers(r) # {}
      BY <2>1 DEF Cut
  <2>3. r.row.digest \in DOMAIN Body
      BY <1>1, SMT DEF RowType
  <2>4. r.row.digest \in Versions(r)
      BY <1>1, <2>1, <2>2, <2>3, VersionsAreContents
  <2> QED
      BY <1>1, <2>1, <2>4 DEF Cut
<1>5. KeptInv(x, r) => Versions(s) \subseteq Digests(s.kept)
  <2>1. ASSUME NEW d \in Versions(s)
        PROVE d \in Versions(r)
    <3>1. PICK e \in ExportIds : d = s.seen[e] /\ d # None
        BY DEF Versions
    <3>2. e \in Observers(s)
        BY <3>1 DEF Observers
    <3>3. d = r.seen[e]
        BY <3>1, <3>2 DEF Cut
    <3> QED
        BY <3>1, <3>3 DEF Versions
  <2> QED
      BY <1>1, <2>1 DEF Cut
<1>6. ASSUME NEW m \in Present(s)
      PROVE s.messages[m].heard \subseteq imported \ p.exports
  <2>1. m \in Messages /\ s.messages[m] # None
      BY DEF Present
  <2>2. r.messages[m] # None /\ s.messages[m].heard = r.messages[m].heard \ p.exports
      BY <2>1 DEF Cut
  <2>3. r.messages[m].heard \subseteq imported
      BY <2>1, <2>2 DEF RecordInv, Present
  <2> QED
      BY <2>2, <2>3
<1>7. \A v \in s.revisions : v.export \in imported \ p.exports
    BY DEF Cut, RecordInv
<1>8. RowReferences(s) /\ Observers(s) = Observers(r) \ p.exports
    BY DEF Cut
<1> QED
    BY <1>1, <1>2, <1>3, <1>4, <1>5, <1>6, <1>7, <1>8 DEF ScopedInv, ScopedKept

\* What the messages of a conversation are before its versions are restored.
ScopedHistory(s, replaced, taken) ==
    /\ PartsComeFrom(s, Digests(s.kept) \cup replaced)
    /\ taken = {} => \A e \in Observers(s) : Heard(s, e)
    /\ taken = {} /\ Named(s, s.row.digest) => ReadsAs(s, Body[s.row.digest])

\* Deleting the rows of a scope takes no message that a remaining export
\* presents, unless it says so.
LEMMA CutKeepsHistory ==
    ASSUME NEW x, NEW r, NEW s, NEW imported, NEW p, NEW replaced, NEW taken, x \notin p.rows,
           RecordInv(r, imported), KeptInv(x, r), HistoryInv(r, replaced, taken), r.row # None, Cut(x, r, s, p)
    PROVE ScopedHistory(s, replaced, taken \cup Taken(x, r, p))
<1>1. r.seen \in Seen /\ r.row \in RowType /\ Digests(r.kept) = Versions(r)
    BY DEF RecordInv, RecordOK, KeptInv, Seen, Digests
<1>2. PartsComeFrom(s, Digests(s.kept) \cup replaced)
  <2>1. Digests(s.kept) = Versions(r)
      BY <1>1 DEF Cut
  <2>2. ASSUME NEW m \in Present(s)
        PROVE m \in Present(r) /\ s.messages[m].parts = r.messages[m].parts
      BY DEF Cut, Present
  <2> QED
      BY <2>1, <2>2 DEF HistoryInv, PartsComeFrom
<1>3. ASSUME taken \cup Taken(x, r, p) = {}, NEW e \in Observers(s), NEW m \in DOMAIN Body[s.seen[e]]
      PROVE /\ m \in Messages /\ s.messages[m] # None /\ e \in s.messages[m].heard
            /\ s.messages[m].parts = r.messages[m].parts /\ s.messages[m].parent = r.messages[m].parent
  <2>1. e \in Observers(r) /\ e \notin p.exports /\ s.seen[e] = r.seen[e] /\ taken = {}
      BY <1>3 DEF Cut
  <2>2. s.seen[e] \in DOMAIN Body
      BY <1>1, <2>1, VersionsAreContents
  <2>3. m \in Messages
      BY <1>3, <2>2, BodyTypes
  <2>4. Heard(r, e)
      BY <2>1 DEF HistoryInv
  <2>5. r.messages[m] # None /\ e \in r.messages[m].heard
      BY <2>1, <2>4 DEF Heard
  <2>6. m \notin p.messages[x]
      BY <1>3, <2>1, <2>5 DEF Taken
  <2>7. s.messages[m] # None
      BY <2>3, <2>5, <2>6 DEF Cut
  <2>8. /\ s.messages[m].heard = r.messages[m].heard \ p.exports
        /\ s.messages[m].parts = r.messages[m].parts /\ s.messages[m].parent = r.messages[m].parent
      BY <2>3, <2>7 DEF Cut
  <2> QED
      BY <2>1, <2>3, <2>5, <2>7, <2>8
<1>4. taken \cup Taken(x, r, p) = {} => \A e \in Observers(s) : Heard(s, e)
    BY <1>3 DEF Heard
<1>5. ASSUME taken \cup Taken(x, r, p) = {}, Named(s, s.row.digest)
      PROVE ReadsAs(s, Body[s.row.digest])
  <2>1. s.row.digest = r.row.digest /\ r.row.digest \in DOMAIN Body /\ s.row.digest # None
      BY <1>1, VersionConstants, SMT DEF RowType, Cut
  <2>2. PICK e \in ExportIds : s.seen[e] = s.row.digest
      BY <1>5 DEF Named
  <2>3. e \in Observers(s)
      BY <2>1, <2>2 DEF Observers
  <2>4. ReadsAs(r, Body[s.row.digest])
      BY <1>5, <2>1 DEF HistoryInv
  <2>5. ASSUME NEW m \in DOMAIN Body[s.row.digest]
        PROVE /\ s.messages[m] # None /\ s.messages[m].parts = r.messages[m].parts
              /\ s.messages[m].parent = r.messages[m].parent
      BY <1>3, <1>5, <2>2, <2>3
  <2> QED
      BY <2>4, <2>5 DEF ReadsAs, LatestParts
<1> QED
    BY <1>2, <1>4, <1>5 DEF ScopedHistory

-----------------------------------------------------------------------------
\* What the replay of s works on: only the row and the messages change.
Drafts(s) == [row : RowType, seen : {s.seen}, kept : {s.kept}, messages : MessageRows, revisions : {s.revisions}]

\* The snapshot of a version the record holds.
LEMMA SnapshotHeld ==
    ASSUME NEW s, NEW e \in Held(s), RecordOK(s)
    PROVE LET k == SnapshotOf(s, s.seen[e])
          IN /\ k \in s.kept /\ k.digest = s.seen[e] /\ s.seen[e] \in DOMAIN Body
             /\ k.stamp \in Parsers /\ k.project \in Projects \cup {None}
<1>1. \E k \in s.kept : k.digest = s.seen[e]
    BY DEF Held
<1>2. PICK k : k = SnapshotOf(s, s.seen[e])
    OBVIOUS
<1>3. k \in s.kept /\ k.digest = s.seen[e]
    BY <1>1, <1>2 DEF SnapshotOf
<1>4. k \in KeptType
    BY <1>3 DEF RecordOK
<1>5. k.digest \in DOMAIN Body /\ k.stamp \in Parsers /\ k.project \in Projects \cup {None}
    BY <1>4, SMT DEF KeptType
<1> QED
    BY <1>2, <1>3, <1>5

\* What one version of the replay leaves.
Step(q, t, s, e, projects) ==
    /\ t.row.last = e /\ t.row.first = Coalesce(q.row.first, e)
    /\ t.row.project \in projects \cup {q.row.project}
    /\ MessagesGrow(q.messages, t.messages, e, s.seen[e])
    /\ MessagesWritten(t.messages, e, s.seen[e])

\* One version of the replay: skipped, or written.
LEMMA ReplayWrites ==
    ASSUME NEW s, NEW q \in Drafts(s), NEW e \in ExportIds, NEW projects \in SUBSET Projects, RecordOK(s)
    PROVE LET t == Replay(q, s, e, projects)
          IN /\ t \in Drafts(s)
             /\ IF e \notin Held(s) \/ Repeats(s, e) THEN t = q ELSE Step(q, t, s, e, projects)
<1>1. PICK t : t = Replay(q, s, e, projects)
    OBVIOUS
<1>2. CASE e \notin Held(s) \/ Repeats(s, e)
    BY <1>1, <1>2 DEF Replay
<1>3. CASE ~(e \notin Held(s) \/ Repeats(s, e))
  <2> DEFINE k == SnapshotOf(s, s.seen[e])
             to == IF k.project \in projects THEN k.project ELSE None
  <2>1. t = PersistDetail(q, e, k.stamp, k.digest, to)
      BY <1>1, <1>3 DEF Replay
  <2>2. /\ k.digest = s.seen[e] /\ s.seen[e] \in DOMAIN Body
        /\ k.stamp \in Parsers
      BY <1>3, SnapshotHeld
  <2> HIDE DEF k
  <2>3. to \in projects \cup {None} /\ to \in Projects \cup {None}
      OBVIOUS
  <2> HIDE DEF to
  <2>4. /\ DOMAIN q = Fields /\ q.row \in RowType /\ q.seen = s.seen /\ q.kept = s.kept
        /\ q.messages \in MessageRows /\ q.revisions = s.revisions
      BY SMT DEF Drafts, Fields
  <2>5. q.row \in LooseRow
      BY <2>4 DEF RowType, LooseRow
  <2>6. /\ Reread(q, t, e, DetailMessages(q.messages, e, s.seen[e]))
        /\ t.row.project = Coalesce(to, q.row.project)
    <3>1. LET u == PersistDetail(q, e, k.stamp, k.digest, to)
          IN /\ Reread(q, u, e, DetailMessages(q.messages, e, k.digest))
             /\ u.row.project = Coalesce(to, q.row.project)
        BY <2>2, <2>3, <2>4, <2>5, PersistDetailWrites
    <3> QED
        BY <2>1, <2>2, <3>1
  <2>7. t.messages = DetailMessages(q.messages, e, s.seen[e])
      BY <2>6 DEF Reread
  <2>8. /\ MessagesGrow(q.messages, t.messages, e, s.seen[e])
        /\ MessagesWritten(t.messages, e, s.seen[e])
      BY <2>2, <2>4, <2>7, DetailMessagesWrites
  <2>9. t.row.project \in projects \cup {q.row.project}
      BY <2>3, <2>6 DEF Coalesce
  <2>10. Step(q, t, s, e, projects)
      BY <2>6, <2>8, <2>9 DEF Step, Reread
  <2>11. t \in Drafts(s)
    <3>1. t.row \in RowType /\ t.messages \in MessageRows
        BY <2>6, <2>8 DEF Reread, MessagesGrow
    <3>2. t = [q EXCEPT !.row = t.row, !.messages = t.messages]
      <4>1. t = [q EXCEPT !.row = [q.row EXCEPT !.project = Coalesce(to, q.row.project),
                                      !.first = Coalesce(q.row.first, e), !.last = e, !.stamp = k.stamp],
                          !.messages = DetailMessages(q.messages, e, k.digest)]
          BY <2>1 DEF PersistDetail, DetailMessages
      <4> DEFINE row == [q.row EXCEPT !.project = Coalesce(to, q.row.project),
                                      !.first = Coalesce(q.row.first, e), !.last = e, !.stamp = k.stamp]
                 messages == DetailMessages(q.messages, e, k.digest)
      <4> HIDE DEF row, messages
      <4>2. t = [q EXCEPT !.row = row, !.messages = messages]
          BY <4>1 DEF row, messages
      <4>3. t.row = row /\ t.messages = messages
          BY <2>4, <4>2, SMT DEF Fields
      <4> QED
          BY <4>2, <4>3
    <3> QED
        BY <3>1, <3>2 DEF Drafts
  <2> QED
      BY <1>1, <1>3, <2>10, <2>11
<1> QED
    BY <1>2, <1>3

\* The row and the messages of a conversation before its replay.
LEMMA ClearedWrites ==
    ASSUME NEW s, RecordOK(s), s.row # None
    PROVE LET q == Cleared(s)
          IN /\ q \in Drafts(s)
             /\ q.row.first = s.row.first /\ q.row.last = s.row.last /\ q.row.project = None
             /\ \A m \in Messages :
                  /\ q.messages[m] = None <=> s.messages[m] = None
                  /\ s.messages[m] # None => q.messages[m].heard = s.messages[m].heard /\ q.messages[m].parts = <<>>
<1> DEFINE messages == [m \in Messages |-> IF s.messages[m] = None THEN None
                                           ELSE [s.messages[m] EXCEPT !.parts = <<>>]]
           row == [s.row EXCEPT !.project = None]
<1>1. PICK q : q = Cleared(s)
    OBVIOUS
<1>2. q = [s EXCEPT !.row = row, !.messages = messages]
    BY <1>1 DEF Cleared
<1>3. s.row \in RowType /\ s.messages \in MessageRows /\ DOMAIN s = Fields
    BY DEF RecordOK, MessageRows, Fields
<1>4. row \in RowType
    BY <1>3 DEF RowType
<1>5. row.first = s.row.first /\ row.last = s.row.last /\ row.project = None
    BY <1>3, SMT DEF RowType
<1>6. ASSUME NEW m \in Messages, s.messages[m] # None
      PROVE /\ messages[m] \in MessageType /\ messages[m].heard = s.messages[m].heard
            /\ messages[m].parts = <<>>
  <2>1. s.messages[m] \in MessageType
      BY <1>3, <1>6 DEF MessageRows
  <2>2. messages[m] = [s.messages[m] EXCEPT !.parts = <<>>]
      BY <1>6
  <2>3. <<>> \in Seq(Payloads)
      BY SMT
  <2> HIDE DEF messages
  <2>4. messages[m] \in MessageType
      BY <2>1, <2>2, <2>3 DEF MessageType
  <2>5. messages[m].heard = s.messages[m].heard /\ messages[m].parts = <<>>
      BY <2>1, <2>2, SMT DEF MessageType
  <2> QED
      BY <2>4, <2>5
<1>7. \A m \in Messages : s.messages[m] = None => messages[m] = None
    OBVIOUS
<1>8. messages \in MessageRows
    BY <1>6, <1>7 DEF MessageRows
<1> HIDE DEF row, messages
<1>9. /\ DOMAIN q = Fields /\ q.row = row /\ q.messages = messages
      /\ q.seen = s.seen /\ q.kept = s.kept /\ q.revisions = s.revisions
    BY <1>2, <1>3, SMT DEF Fields
<1>10. q \in Drafts(s)
    BY <1>2, <1>3, <1>4, <1>8 DEF Drafts, Fields
<1> QED
    BY <1>1, <1>5, <1>6, <1>7, <1>9, <1>10, AbsentRows

\* The replay is the iteration of its steps over the exports.
LEMMA ReplayIterates ==
    ASSUME NEW s, NEW projects \in SUBSET Projects, RecordOK(s), s.row # None
    PROVE LET f == Replayed(s, projects)
          IN /\ f \in [0..MaxExports -> Drafts(s)]
             /\ f[0] = Cleared(s)
             /\ \A e \in ExportIds : f[e] = Replay(f[e - 1], s, e, projects)
<1> DEFINE step == [e \in Nat |-> [q \in Drafts(s) |->
                       IF e \in ExportIds THEN Replay(q, s, e, projects) ELSE q]]
           Recursion(f) == f = [e \in 0..MaxExports |->
                                   IF e = 0 THEN Cleared(s) ELSE Replay(f[e - 1], s, e, projects)]
<1>1. step \in [Nat -> [Drafts(s) -> Drafts(s)]]
  <2>1. ASSUME NEW e \in Nat, NEW q \in Drafts(s)
        PROVE (IF e \in ExportIds THEN Replay(q, s, e, projects) ELSE q) \in Drafts(s)
      BY ReplayWrites
  <2> QED
      BY <2>1
<1>2. Cleared(s) \in Drafts(s) /\ MaxExports \in Nat
    BY ClearedWrites, VersionConstants
<1>3. ASSUME NEW e \in ExportIds, NEW q \in Drafts(s)
      PROVE step[e][q] = Replay(q, s, e, projects)
  <2>1. e \in Nat
      BY SMT DEF ExportIds
  <2> QED
      BY <2>1
<1> HIDE DEF step
<1>4. PICK f : Iteration(f, Drafts(s), Cleared(s), step, MaxExports)
  <2>1. Iterable(Drafts(s), Cleared(s), step, MaxExports)
      BY <1>1, <1>2 DEF Iterable
  <2> QED
      BY <2>1, Iterates
<1> USE DEF Iteration
<1>5. ASSUME NEW e \in 0..MaxExports, e # 0
      PROVE e \in ExportIds /\ e - 1 \in 0..MaxExports
    BY <1>2, <1>5, SMT DEF ExportIds
<1>6. ASSUME NEW e \in 0..MaxExports, e # 0
      PROVE f[e] = Replay(f[e - 1], s, e, projects)
  <2>1. e \in ExportIds /\ e \in 1..MaxExports /\ f[e - 1] \in Drafts(s)
      BY <1>4, <1>5, <1>6 DEF ExportIds
  <2>2. f[e] = step[e][f[e - 1]]
      BY <1>4, <2>1
  <2> QED
      BY <1>3, <2>1, <2>2
<1>7. Recursion(f)
    BY <1>4, <1>6
<1>8. Replayed(s, projects) = CHOOSE g : Recursion(g)
    BY DEF Replayed
<1>9. PICK g : g = Replayed(s, projects)
    OBVIOUS
<1>10. Recursion(g)
    BY <1>7, <1>8, <1>9
<1>11. ASSUME NEW e \in ExportIds
       PROVE e \in 0..MaxExports /\ e # 0 /\ e - 1 \in 0..MaxExports
    BY <1>2, SMT DEF ExportIds
<1>12. 0 \in 0..MaxExports
    BY <1>2, SMT
<1>13. DOMAIN g = 0..MaxExports /\ g[0] = Cleared(s)
    BY <1>10, <1>12
<1>14. \A e \in ExportIds : g[e] = Replay(g[e - 1], s, e, projects)
    BY <1>10, <1>11
<1>15. \A n \in 0..MaxExports : g[n] \in Drafts(s)
  <2> DEFINE T == {n \in 0..MaxExports : g[n] \notin Drafts(s)}
  <2>1. SUFFICES ASSUME T # {}
                 PROVE FALSE
      OBVIOUS
  <2>2. T \subseteq Nat
      BY SMT
  <2>3. PICK n \in T : \A k \in T : n <= k
      BY <2>1, <2>2, Least
  <2>4. n # 0
      BY <1>2, <1>13
  <2>5. n \in ExportIds /\ n - 1 \in 0..MaxExports /\ ~(n <= n - 1)
      BY <1>2, <2>4, SMT DEF ExportIds
  <2>6. g[n - 1] \in Drafts(s)
      BY <2>3, <2>5
  <2> QED
      BY <1>14, <2>5, <2>6, ReplayWrites
<1>16. g \in [0..MaxExports -> Drafts(s)]
    BY <1>10, <1>15
<1> QED
    BY <1>9, <1>13, <1>14, <1>16

\* The record q after the replay of the versions of the exports up to e.
Drafted(s, q, e, projects, imported) ==
    /\ NamesObservers(q.row, Observers(s))
    /\ q.row.project \in projects \cup {None}
    /\ \A m \in Messages : s.messages[m] # None =>
          q.messages[m] # None /\ s.messages[m].heard \subseteq q.messages[m].heard
    /\ \A m \in Messages : q.messages[m] # None =>
          /\ q.messages[m].heard \subseteq imported
          /\ Range(q.messages[m].parts) \subseteq UNION {PayloadsOf(d, m) : d \in Versions(s)}
    /\ \A h \in Held(s) : h <= e /\ (\A g \in Held(s) : g <= h \/ g > e) => ReadsAs(q, Body[s.seen[h]])

\* The replay starts from a record without parts.
LEMMA DraftStarts ==
    ASSUME NEW s, NEW projects \in SUBSET Projects, NEW imported, RecordOK(s), s.row # None, RowReferences(s),
           \A m \in Present(s) : s.messages[m].heard \subseteq imported
    PROVE Drafted(s, Cleared(s), 0, projects, imported)
<1>1. PICK q : q = Cleared(s)
    OBVIOUS
<1>2. /\ q.row.first = s.row.first /\ q.row.last = s.row.last /\ q.row.project = None
      /\ \A m \in Messages :
            /\ q.messages[m] = None <=> s.messages[m] = None
            /\ s.messages[m] # None => q.messages[m].heard = s.messages[m].heard /\ q.messages[m].parts = <<>>
    BY <1>1, ClearedWrites
<1>3. Range(<<>>) = {}
    BY SMT DEF Range
<1>4. \A h \in Held(s) : ~(h <= 0)
  <2>1. Held(s) \subseteq 1..MaxExports
      BY DEF Held, Observers, ExportIds
  <2> QED
      BY <2>1, SMT
<1>5. NamesObservers(q.row, Observers(s))
    BY <1>2 DEF RowReferences, NamesObservers
<1>6. ASSUME NEW m \in Messages, q.messages[m] # None
      PROVE /\ q.messages[m].heard \subseteq imported
            /\ Range(q.messages[m].parts) = {}
    BY <1>2, <1>3, <1>6 DEF Present
<1>7. \A m \in Messages : s.messages[m] # None =>
          q.messages[m] # None /\ s.messages[m].heard \subseteq q.messages[m].heard
    BY <1>2
<1> QED
    BY <1>1, <1>2, <1>4, <1>5, <1>6, <1>7 DEF Drafted

\* Writing a version of the replay makes the record read as that version.
LEMMA StepDrafts ==
    ASSUME NEW s, NEW q, NEW t, NEW e \in Held(s), NEW before, NEW projects, NEW imported,
           RecordOK(s), Observers(s) \subseteq imported,
           Drafted(s, q, before, projects, imported), Step(q, t, s, e, projects)
    PROVE Drafted(s, t, e, projects, imported)
<1>1. e \in Observers(s) /\ e \in ExportIds /\ s.seen[e] \in Versions(s)
    BY DEF Held, Observers, Versions
<1>2. NamesObservers(t.row, Observers(s))
    BY <1>1 DEF Step, Drafted, NamesObservers, Coalesce
<1>3. t.row.project \in projects \cup {None}
    BY DEF Step, Drafted
<1>4. ASSUME NEW m \in Messages, s.messages[m] # None
      PROVE t.messages[m] # None /\ s.messages[m].heard \subseteq t.messages[m].heard
  <2>1. q.messages[m] # None /\ s.messages[m].heard \subseteq q.messages[m].heard
      BY <1>4 DEF Drafted
  <2>2. t.messages[m] # None /\ q.messages[m].heard \subseteq t.messages[m].heard
      BY <2>1 DEF Step, MessagesGrow
  <2> QED
      BY <2>1, <2>2
<1>5. ASSUME NEW m \in Messages, t.messages[m] # None
      PROVE /\ t.messages[m].heard \subseteq imported
            /\ Range(t.messages[m].parts) \subseteq UNION {PayloadsOf(d, m) : d \in Versions(s)}
  <2>1. /\ t.messages[m].heard \subseteq (IF q.messages[m] = None THEN {} ELSE q.messages[m].heard) \cup {e}
        /\ Range(t.messages[m].parts) \subseteq
             (IF q.messages[m] = None THEN {} ELSE Range(q.messages[m].parts)) \cup PayloadsOf(s.seen[e], m)
      BY <1>5 DEF Step, MessagesGrow
  <2>2. PayloadsOf(s.seen[e], m) \subseteq UNION {PayloadsOf(d, m) : d \in Versions(s)} /\ e \in imported
      BY <1>1
  <2>3. CASE q.messages[m] = None
      BY <2>1, <2>2, <2>3
  <2>4. CASE q.messages[m] # None
    <3>1. /\ q.messages[m].heard \subseteq imported
          /\ Range(q.messages[m].parts) \subseteq UNION {PayloadsOf(d, m) : d \in Versions(s)}
        BY <2>4 DEF Drafted
    <3> QED
        BY <2>1, <2>2, <2>4, <3>1
  <2> QED
      BY <2>3, <2>4
<1>6. ReadsAs(t, Body[s.seen[e]])
    BY DEF Step, MessagesWritten, ReadsAs, LatestParts
<1>7. ASSUME NEW h \in Held(s), h <= e, \A g \in Held(s) : g <= h \/ g > e
      PROVE h = e
  <2>1. h \in 1..MaxExports /\ e \in 1..MaxExports
      BY DEF Held, Observers, ExportIds
  <2>2. e <= h \/ e > e
      BY <1>7
  <2> QED
      BY <1>7, <2>1, <2>2, SMT
<1> QED
    BY <1>2, <1>3, <1>4, <1>5, <1>6, <1>7 DEF Drafted

\* The replay ends with a record that reads as the newest version.
LEMMA ReplayDrafts ==
    ASSUME NEW x, NEW s, NEW projects \in SUBSET Projects, NEW imported, ScopedInv(s, imported)
    PROVE Drafted(s, Replayed(s, projects)[MaxExports], MaxExports, projects, imported)
<1>1. PICK f : f = Replayed(s, projects)
    OBVIOUS
<1>2. /\ RecordOK(s) /\ s.row # None /\ RowReferences(s) /\ Observers(s) \subseteq imported
      /\ \A m \in Present(s) : s.messages[m].heard \subseteq imported
    BY DEF ScopedInv
<1>3. /\ f \in [0..MaxExports -> Drafts(s)]
      /\ f[0] = Cleared(s)
      /\ \A e \in ExportIds : f[e] = Replay(f[e - 1], s, e, projects)
    BY <1>1, <1>2, ReplayIterates
<1>4. MaxExports \in Nat
    BY VersionConstants
<1> DEFINE T == {n \in 0..MaxExports : ~Drafted(s, f[n], n, projects, imported)}
<1>5. T = {}
  <2>1. SUFFICES ASSUME T # {}
                 PROVE FALSE
      OBVIOUS
  <2>2. T \subseteq Nat
      BY SMT
  <2>3. PICK n \in T : \A k \in T : n <= k
      BY <2>1, <2>2, Least
  <2>4. n # 0
      BY <1>2, <1>3, DraftStarts
  <2>5. n \in ExportIds /\ n \in Nat /\ n - 1 \in 0..MaxExports /\ ~(n <= n - 1)
      BY <1>4, <2>4, SMT DEF ExportIds
  <2>6. Drafted(s, f[n - 1], n - 1, projects, imported)
      BY <2>3, <2>5
  <2>7. f[n] = Replay(f[n - 1], s, n, projects) /\ f[n - 1] \in Drafts(s)
      BY <1>3, <2>5
  <2>8. IF n \notin Held(s) \/ Repeats(s, n) THEN f[n] = f[n - 1] ELSE Step(f[n - 1], f[n], s, n, projects)
      BY <1>2, <2>5, <2>7, ReplayWrites
  <2>9. CASE n \in Held(s) /\ ~Repeats(s, n)
      BY <1>2, <2>6, <2>8, <2>9, StepDrafts
  <2>10. CASE n \notin Held(s) \/ Repeats(s, n)
    <3>1. f[n] = f[n - 1]
        BY <2>8, <2>10
    <3>2. ASSUME NEW h \in Held(s), h <= n, \A g \in Held(s) : g <= h \/ g > n
          PROVE ReadsAs(f[n], Body[s.seen[h]])
      <4>1. Held(s) \subseteq Nat
          BY SMT DEF Held, Observers, ExportIds
      <4>2. CASE n \notin Held(s)
        <5>1. h <= n - 1 /\ \A g \in Held(s) : g <= h \/ g > n - 1
          <6>1. h # n
              BY <4>2
          <6>2. h \in Nat
              BY <4>1
          <6>3. h <= n - 1
              BY <2>5, <3>2, <6>1, <6>2, SMT
          <6>4. ASSUME NEW g \in Held(s)
                PROVE g <= h \/ g > n - 1
            <7>1. g \in Nat /\ (g <= h \/ g > n)
                BY <3>2, <4>1
            <7> QED
                BY <2>5, <6>2, <7>1, SMT
          <6> QED
              BY <6>3, <6>4
        <5> QED
            BY <2>6, <3>1, <5>1 DEF Drafted
      <4>3. CASE n \in Held(s) /\ Repeats(s, n)
        <5>1. h = n
          <6>1. h \in Nat /\ (n <= h \/ n > n)
              BY <3>2, <4>1, <4>3
          <6> QED
              BY <2>5, <3>2, <6>1, SMT
        <5>2. PICK o \in Held(s) : o < n /\ s.seen[o] = s.seen[n] /\ \A g \in Held(s) : g <= o \/ g >= n
            BY <4>3 DEF Repeats
        <5>3. o \in Nat /\ o <= n - 1
          <6>1. o \in Nat
              BY <4>1
          <6> QED
              BY <2>5, <5>2, <6>1, SMT
        <5>4. ASSUME NEW g \in Held(s)
              PROVE g <= o \/ g > n - 1
          <6>1. g \in Nat /\ (g <= o \/ g >= n)
              BY <4>1, <5>2
          <6> QED
              BY <2>5, <5>3, <6>1, SMT
        <5>5. ReadsAs(f[n - 1], Body[s.seen[o]])
            BY <2>6, <5>3, <5>4 DEF Drafted
        <5> QED
            BY <3>1, <5>1, <5>2, <5>5
      <4> QED
          BY <2>10, <4>2, <4>3
    <3>3. Drafted(s, f[n], n, projects, imported)
        BY <2>6, <3>1, <3>2 DEF Drafted
    <3> QED
        BY <3>3
  <2> QED
      BY <2>9, <2>10
<1>6. MaxExports \in 0..MaxExports
    BY <1>4, SMT
<1> QED
    BY <1>1, <1>5, <1>6

-----------------------------------------------------------------------------
\* The record q is s rebuilt from the versions it holds.
Rebuilt(s, q, projects, imported) ==
    /\ DOMAIN q = Fields /\ q.seen = s.seen /\ q.kept = s.kept
    /\ q.row \in RowType /\ NamesObservers(q.row, Observers(s))
    /\ q.row.digest \in Versions(s) \/ Held(s) = {}
    /\ q.row.project \in projects \cup {None, s.row.project}
    /\ Evidenced(q, imported)

\* The history of q is written again, as its row has it.
RewrittenFrom(s, q) ==
    /\ ReadsAs(q, Body[q.row.digest])
    /\ \A m \in Messages : s.messages[m] # None =>
          q.messages[m] # None /\ s.messages[m].heard \subseteq q.messages[m].heard
    /\ PartsComeFrom(q, Versions(s))

\* The newest of the versions a record holds.
LEMMA NewestHeld ==
    ASSUME NEW s, RecordOK(s), Held(s) # {}
    PROVE /\ Max(Held(s)) \in Held(s) /\ \A e \in Held(s) : Max(Held(s)) >= e
          /\ Max(Held(s)) \in Observers(s) /\ s.seen[Max(Held(s))] \in Versions(s)
<1>1. Held(s) \subseteq ExportIds
    BY DEF Held, Observers
<1>2. Max(Held(s)) \in Held(s) /\ \A e \in Held(s) : Max(Held(s)) >= e
  <2>1. \E n \in Held(s) : \A k \in Held(s) : n >= k
      BY <1>1, Greatest
  <2> QED
      BY <2>1 DEF Max
<1>3. Held(s) \subseteq Observers(s)
    BY DEF Held
<1>4. \A e \in Observers(s) : s.seen[e] \in Versions(s)
    BY DEF Observers, Versions
<1> QED
    BY <1>2, <1>3, <1>4

\* restore_project shows the newest version.
LEMMA RestoreProjectWrites ==
    ASSUME NEW s, NEW projects, NEW imported, ScopedInv(s, imported), Held(s) # {}
    PROVE Rebuilt(s, RestoreProject(s), projects, imported)
<1>1. RecordOK(s) /\ s.row # None /\ RowReferences(s)
    BY DEF ScopedInv
<1>2. PICK newest : newest = Max(Held(s))
    OBVIOUS
<1>3. newest \in Held(s) /\ s.seen[newest] \in Versions(s)
    BY <1>1, <1>2, NewestHeld
<1>4. PICK k : k = SnapshotOf(s, s.seen[newest])
    OBVIOUS
<1>5. k.digest = s.seen[newest] /\ s.seen[newest] \in DOMAIN Body /\ k.stamp \in Parsers
    BY <1>1, <1>3, <1>4, SnapshotHeld
<1>6. PICK q : q = RestoreProject(s)
    OBVIOUS
<1> DEFINE row == [s.row EXCEPT !.digest = k.digest, !.stamp = k.stamp]
<1>7. q = [s EXCEPT !.row.digest = k.digest, !.row.stamp = k.stamp]
    BY <1>2, <1>4, <1>6 DEF RestoreProject
<1>8. s.row \in RowType /\ DOMAIN s = Fields
    BY <1>1 DEF RecordOK, Fields
<1>9. row \in RowType
    BY <1>5, <1>8 DEF RowType
<1>10. row.digest = k.digest /\ row.first = s.row.first /\ row.last = s.row.last /\ row.project = s.row.project
    BY <1>8, SMT DEF RowType
<1>11. q = [s EXCEPT !.row = row]
    BY <1>7
<1> HIDE DEF row
<1>12. /\ DOMAIN q = Fields /\ q.row = row /\ q.messages = s.messages
       /\ q.seen = s.seen /\ q.kept = s.kept /\ q.revisions = s.revisions
    BY <1>8, <1>11, SMT DEF Fields
<1>13. NamesObservers(q.row, Observers(s))
    BY <1>1, <1>10, <1>12 DEF RowReferences, NamesObservers
<1>14. Evidenced(q, imported)
    BY <1>12 DEF Evidenced, ScopedInv, RecordOK, Present
<1> QED
    BY <1>3, <1>5, <1>6, <1>9, <1>10, <1>12, <1>13, <1>14 DEF Rebuilt

\* restore_conversation shows the newest version, with a history of versions
\* that are held.
LEMMA RestoreConversationWrites ==
    ASSUME NEW s, NEW projects \in SUBSET Projects, NEW imported, ScopedInv(s, imported), Held(s) # {}
    PROVE LET q == RestoreConversation(s, projects)
          IN Rebuilt(s, q, projects, imported) /\ RewrittenFrom(s, q)
<1>1. RecordOK(s) /\ s.row # None /\ RowReferences(s) /\ Observers(s) \subseteq imported
    BY DEF ScopedInv
<1>2. PICK newest : newest = Max(Held(s))
    OBVIOUS
<1>3. /\ newest \in Held(s) /\ \A e \in Held(s) : newest >= e
      /\ newest \in Observers(s) /\ s.seen[newest] \in Versions(s)
    BY <1>1, <1>2, NewestHeld
<1>4. PICK d : d = s.seen[newest]
    OBVIOUS
<1>5. d \in DOMAIN Body
    BY <1>1, <1>3, <1>4, SnapshotHeld
<1>6. PICK f : f = Replayed(s, projects)[MaxExports]
    OBVIOUS
<1>7. f \in Drafts(s) /\ Drafted(s, f, MaxExports, projects, imported)
  <2>1. MaxExports \in 0..MaxExports
      BY VersionConstants, SMT
  <2>2. Replayed(s, projects) \in [0..MaxExports -> Drafts(s)]
      BY <1>1, ReplayIterates
  <2> QED
      BY <1>6, <2>1, <2>2, ReplayDrafts
<1> DEFINE row == [f.row EXCEPT !.digest = d]
           t == [f EXCEPT !.row.digest = d]
<1>8. PICK q : q = RestoreConversation(s, projects)
    OBVIOUS
<1>9. q = AppendRevision(t, newest, d)
    BY <1>2, <1>4, <1>6, <1>8 DEF RestoreConversation
<1>10. /\ DOMAIN f = Fields /\ f.row \in RowType /\ f.seen = s.seen /\ f.kept = s.kept
       /\ f.messages \in MessageRows /\ f.revisions = s.revisions
    BY <1>7, SMT DEF Drafts, Fields
<1>11. row \in RowType
    BY <1>5, <1>10 DEF RowType
<1>12. row.digest = d /\ row.first = f.row.first /\ row.last = f.row.last /\ row.project = f.row.project
    BY <1>10, SMT DEF RowType
<1>13. t = [f EXCEPT !.row = row]
    OBVIOUS
<1> HIDE DEF row, t
<1>14. /\ DOMAIN t = Fields /\ t.row = row /\ t.messages = f.messages
       /\ t.seen = s.seen /\ t.kept = s.kept /\ t.revisions = s.revisions
    BY <1>10, <1>13, SMT DEF Fields
<1>15. Revised(t, q, newest, d)
    BY <1>9, <1>14, AppendRevisionWrites
<1>16. /\ DOMAIN q = Fields /\ q.row = row /\ q.messages = f.messages /\ q.seen = s.seen /\ q.kept = s.kept
       /\ \A v \in q.revisions : v \in s.revisions \/ (v.digest = d /\ v.export = newest)
    BY <1>14, <1>15 DEF Revised
<1>17. NamesObservers(q.row, Observers(s)) /\ q.row.project \in projects \cup {None}
    BY <1>7, <1>12, <1>16 DEF Drafted, NamesObservers
<1>18. Evidenced(q, imported)
  <2>1. \A m \in Present(q) : q.messages[m].heard \subseteq imported
      BY <1>7, <1>16 DEF Drafted, Present
  <2>2. ASSUME NEW v \in q.revisions
        PROVE v.digest \in DOMAIN Body /\ v.export \in ExportIds /\ v.export \in imported
    <3>1. CASE v \in s.revisions
        BY <3>1 DEF ScopedInv, RecordOK
    <3>2. CASE v.digest = d /\ v.export = newest
        BY <1>1, <1>3, <1>5, <3>2 DEF Observers
    <3> QED
        BY <1>16, <3>1, <3>2
  <2>3. q.messages \in [Messages -> MessageType \cup {None}]
      BY <1>10, <1>16 DEF MessageRows
  <2> QED
      BY <2>1, <2>2, <2>3 DEF Evidenced
<1>19. Rebuilt(s, q, projects, imported)
    BY <1>3, <1>4, <1>11, <1>12, <1>16, <1>17, <1>18 DEF Rebuilt
<1>20. ReadsAs(q, Body[q.row.digest])
  <2>1. ReadsAs(f, Body[d])
    <3>1. newest <= MaxExports
      <4>1. newest \in 1..MaxExports
          BY <1>3 DEF Observers, ExportIds
      <4> QED
          BY <4>1, SMT
    <3>2. ASSUME NEW g \in Held(s)
          PROVE g <= newest \/ g > MaxExports
      <4>1. g \in 1..MaxExports /\ newest \in 1..MaxExports /\ newest >= g
          BY <1>3 DEF Held, Observers, ExportIds
      <4> QED
          BY <4>1, SMT
    <3> QED
        BY <1>3, <1>4, <1>7, <3>1, <3>2 DEF Drafted
  <2>2. q.row.digest = d /\ q.messages = f.messages
      BY <1>12, <1>16
  <2>3. \A m : LatestParts(q, m) = LatestParts(f, m)
      BY <2>2 DEF LatestParts
  <2>4. ReadsAs(q, Body[d])
      BY <2>1, <2>2, <2>3 DEF ReadsAs
  <2> QED
      BY <2>2, <2>4
<1>21. PartsComeFrom(q, Versions(s))
    BY <1>7, <1>16 DEF Drafted, PartsComeFrom, Present
<1>22. \A m \in Messages : s.messages[m] # None =>
          q.messages[m] # None /\ s.messages[m].heard \subseteq q.messages[m].heard
    BY <1>7, <1>16 DEF Drafted
<1> QED
    BY <1>8, <1>19, <1>20, <1>21, <1>22 DEF RewrittenFrom

\* What restore_retained_versions leaves of a record the deletion kept.
RestoredRecord(x, s, t, projects, imported) ==
    /\ RecordInv(t, imported) /\ t.row # None
    /\ ScopedKept(x, s) => KeptInv(x, t)
    /\ Observers(t) = Observers(s)
    /\ t.row.project \in projects \cup {None, s.row.project}

\* A record with nothing stale in it is kept as it is.
LEMMA FreshStays ==
    ASSUME NEW x, NEW s, NEW projects, NEW imported, ScopedInv(s, imported), ~Stale(s)
    PROVE RestoredRecord(x, s, s, projects, imported)
<1>1. RecordOK(s) /\ s.row # None /\ s.seen \in Seen /\ s.kept \subseteq KeptType
    BY DEF ScopedInv, RecordOK, Seen
<1>2. \A k \in s.kept : Named(s, k.digest)
    BY <1>1 DEF Stale
<1>3. ASSUME NEW k \in s.kept
      PROVE k.digest \in DOMAIN Body
    BY <1>1, SMT DEF KeptType
<1>4. Digests(s.kept) \subseteq Versions(s)
    BY <1>1, <1>2, <1>3, VersionsAreContents DEF Digests
<1>5. ScopedKept(x, s) => KeptInv(x, s)
  <2> SUFFICES ASSUME ScopedKept(x, s)
               PROVE KeptInv(x, s)
      OBVIOUS
  <2>1. Digests(s.kept) = Versions(s)
      BY <1>4 DEF ScopedKept
  <2>2. Observers(s) # {} => Named(s, s.row.digest)
      BY <1>2 DEF ScopedKept, Digests
  <2> QED
      BY <2>1, <2>2 DEF ScopedKept, KeptInv, Digests
<1>6. RecordInv(s, imported)
    BY <1>1 DEF RecordInv, ScopedInv
<1> QED
    BY <1>1, <1>5, <1>6 DEF RestoredRecord

\* Every version a record presents is held.
LEMMA HeldAreObservers ==
    ASSUME NEW x, NEW s, ScopedKept(x, s)
    PROVE Held(s) = Observers(s)
<1>1. \A e \in Observers(s) : s.seen[e] \in Versions(s)
    BY DEF Observers, Versions
<1>2. Versions(s) \subseteq Digests(s.kept)
    BY DEF ScopedKept
<1> QED
    BY <1>1, <1>2 DEF Held, Digests

\* Dropping the versions that nobody names leaves the versions there are.
LEMMA PruneKeeps ==
    ASSUME NEW x, NEW s, NEW q, NEW t, NEW projects, NEW imported, ScopedInv(s, imported),
           Rebuilt(s, q, projects, imported), t = [q EXCEPT !.kept = {k \in q.kept : Named(q, k.digest)}]
    PROVE RestoredRecord(x, s, t, projects, imported)
<1> USE DEF Rebuilt
<1>1. /\ RecordOK(s) /\ s.seen \in Seen /\ s.kept \subseteq KeptType /\ Observers(s) \subseteq imported
    BY DEF ScopedInv, RecordOK, Seen
<1> DEFINE kept == {k \in q.kept : Named(q, k.digest)}
<1> HIDE DEF kept
<1>2. t = [q EXCEPT !.kept = kept]
    BY DEF kept
<1>3. /\ DOMAIN t = Fields /\ t.row = q.row /\ t.messages = q.messages
      /\ t.seen = s.seen /\ t.kept = kept /\ t.revisions = q.revisions
    BY <1>2, SMT DEF Fields
<1>4. Observers(t) = Observers(s) /\ Versions(t) = Versions(s)
    BY <1>3, SameSeen
<1>5. \A d : Named(t, d) <=> Named(s, d)
    BY <1>3, SameSeen
<1>6. \A k \in s.kept : k \in t.kept <=> Named(s, k.digest)
    BY <1>3, <1>5 DEF kept, Named
<1>7. t.kept \subseteq s.kept
    BY <1>3 DEF kept
<1>8. ASSUME NEW k \in s.kept
      PROVE k.digest \in DOMAIN Body
    BY <1>1, SMT DEF KeptType
<1>9. ASSUME ScopedKept(x, s)
      PROVE Digests(t.kept) = Versions(t)
  <2>1. Digests(t.kept) \subseteq Versions(s)
      BY <1>1, <1>6, <1>7, <1>8, VersionsAreContents DEF Digests
  <2>2. ASSUME NEW d \in Versions(s)
        PROVE d \in Digests(t.kept)
    <3>1. PICK k \in s.kept : k.digest = d
        BY <1>9 DEF Digests, ScopedKept
    <3>2. Named(s, d)
        BY <1>1, <1>8, <3>1, VersionsAreContents
    <3> QED
        BY <1>6, <3>1, <3>2 DEF Digests
  <2> QED
      BY <1>4, <2>1, <2>2
<1>10. RecordOK(t)
    BY <1>1, <1>3, <1>7 DEF RecordOK, Evidenced, Fields, Seen
<1>11. t.row # None
    BY <1>3, AbsentRows
<1>12. RowReferences(t)
    BY <1>3, <1>4 DEF RowReferences
<1>13. ScopedKept(x, s) /\ Observers(t) # {} => Named(t, t.row.digest)
    BY <1>1, <1>3, <1>4, <1>5, VersionsAreContents, HeldAreObservers
<1>14. /\ \A m \in Present(t) : t.messages[m].heard \subseteq imported
       /\ \A v \in t.revisions : v.export \in imported
    BY <1>3 DEF Evidenced, Present
<1>15. ScopedKept(x, s) => KeptInv(x, t)
    BY <1>4, <1>9, <1>13 DEF KeptInv, ScopedKept, Digests
<1>16. RecordInv(t, imported)
    BY <1>1, <1>4, <1>10, <1>11, <1>12, <1>14 DEF RecordInv
<1> QED
    BY <1>3, <1>4, <1>11, <1>15, <1>16 DEF RestoredRecord

\* restore_retained_versions keeps the invariant of a record the deletion left.
LEMMA RestoreKeeps ==
    ASSUME NEW x \in Entities, NEW s, NEW projects \in SUBSET Projects, NEW imported, ScopedInv(s, imported)
    PROVE RestoredRecord(x, s, Restore(x, s, projects), projects, imported)
<1>1. PICK t : t = Restore(x, s, projects)
    OBVIOUS
<1>2. s.row # None
    BY DEF ScopedInv
<1>3. CASE ~Stale(s)
  <2>1. t = s
      BY <1>1, <1>2, <1>3 DEF Restore
  <2>2. RestoredRecord(x, s, s, projects, imported)
      BY <1>3, FreshStays
  <2> QED
      BY <1>1, <2>1, <2>2
<1>4. CASE Stale(s)
  <2>1. PICK q : q = IF Held(s) # {} THEN Restored(x, s, projects) ELSE s
      OBVIOUS
  <2>2. t = [q EXCEPT !.kept = {k \in q.kept : Named(q, k.digest)}]
      BY <1>1, <1>2, <1>4, <2>1 DEF Restore
  <2>3. Rebuilt(s, q, projects, imported)
    <3>1. CASE Held(s) = {}
      <4>1. q = s
          BY <2>1, <3>1
      <4>2. RecordOK(s) /\ NamesObservers(s.row, Observers(s)) /\ Evidenced(s, imported)
          BY DEF ScopedInv, RowReferences, RecordOK, Evidenced
      <4>3. DOMAIN s = Fields /\ s.row \in RowType
          BY <1>2, <4>2 DEF RecordOK, Fields
      <4> QED
          BY <3>1, <4>1, <4>2, <4>3 DEF Rebuilt
    <3>2. CASE Held(s) # {} /\ x \in Projects
      <4>1. q = RestoreProject(s)
          BY <2>1, <3>2 DEF Restored
      <4> QED
          BY <3>2, <4>1, RestoreProjectWrites
    <3>3. CASE Held(s) # {} /\ x \notin Projects
      <4>1. q = RestoreConversation(s, projects)
          BY <2>1, <3>3 DEF Restored
      <4>2. Rebuilt(s, RestoreConversation(s, projects), projects, imported)
          BY <3>3, RestoreConversationWrites
      <4> QED
          BY <4>1, <4>2
    <3> QED
        BY <3>1, <3>2, <3>3
  <2>4. RestoredRecord(x, s, t, projects, imported)
      BY <2>2, <2>3, PruneKeeps
  <2> QED
      BY <1>1, <2>4
<1> QED
    BY <1>3, <1>4

\* restore_conversation leaves the messages that the remaining exports present,
\* and when it writes them again nothing of a version that was replaced.
LEMMA RestoreKeepsHistory ==
    ASSUME NEW x \in Conversations, NEW s, NEW projects \in SUBSET Projects, NEW imported,
           NEW replaced, NEW taken, ScopedInv(s, imported), ScopedKept(x, s), ScopedHistory(s, replaced, taken)
    PROVE HistoryInv(Restore(x, s, projects), IF Stale(s) /\ Held(s) # {} THEN {} ELSE replaced, taken)
<1>1. PICK t : t = Restore(x, s, projects)
    OBVIOUS
<1>2. s.row # None /\ RecordOK(s) /\ s.seen \in Seen
    BY DEF ScopedInv, RecordOK, Seen
<1>3. CASE ~Stale(s)
  <2>1. t = s
      BY <1>1, <1>2, <1>3 DEF Restore
  <2>2. KeptInv(x, s) /\ Digests(s.kept) = Versions(s)
      BY <1>3, FreshStays DEF RestoredRecord, KeptInv, Digests
  <2>3. Named(s, s.row.digest)
      BY <1>2, <2>2 DEF KeptInv
  <2>4. HistoryInv(s, replaced, taken)
      BY <2>2, <2>3 DEF HistoryInv, ScopedHistory
  <2> QED
      BY <1>1, <1>3, <2>1, <2>4
<1>4. CASE Stale(s)
  <2>1. PICK q : q = RestoreConversation(s, projects)
      OBVIOUS
  <2>2. Held(s) # {}
      BY HeldAreObservers DEF ScopedKept
  <2>3. Rebuilt(s, q, projects, imported) /\ RewrittenFrom(s, q)
      BY <2>1, <2>2, RestoreConversationWrites
  <2>4. x \notin Projects
      BY VersionConstants
  <2>5. t = [q EXCEPT !.kept = {k \in q.kept : Named(q, k.digest)}]
      BY <1>1, <1>2, <1>4, <2>1, <2>2, <2>4 DEF Restore, Restored
  <2>6. t.messages = q.messages /\ t.row = q.row /\ t.seen = s.seen
    <3>1. PICK kept : kept = {k \in q.kept : Named(q, k.digest)}
        OBVIOUS
    <3>2. t = [q EXCEPT !.kept = kept] /\ DOMAIN q = Fields /\ q.seen = s.seen
        BY <2>3, <2>5, <3>1 DEF Rebuilt
    <3> QED
        BY <3>2, SMT DEF Fields
  <2>7. Versions(t) = Versions(s) /\ Observers(t) = Observers(s) /\ Present(t) = Present(q)
      BY <2>6 DEF Versions, Observers, Present
  <2>8. PartsComeFrom(t, Versions(t) \cup {})
      BY <2>3, <2>6, <2>7 DEF RewrittenFrom, PartsComeFrom
  <2>9. ReadsAs(t, Body[t.row.digest])
      BY <2>3, <2>6 DEF RewrittenFrom, ReadsAs, LatestParts
  <2>10. ASSUME taken = {}, NEW e \in Observers(t)
         PROVE Heard(t, e)
    <3>1. Heard(s, e) /\ t.seen[e] = s.seen[e]
        BY <2>6, <2>7, <2>10 DEF ScopedHistory
    <3>2. s.seen[e] \in DOMAIN Body
        BY <1>2, <2>7, <2>10, VersionsAreContents
    <3>3. ASSUME NEW m \in DOMAIN Body[t.seen[e]]
          PROVE t.messages[m] # None /\ e \in t.messages[m].heard
      <4>1. m \in Messages
          BY <3>1, <3>2, BodyTypes
      <4>2. s.messages[m] # None /\ e \in s.messages[m].heard
          BY <3>1 DEF Heard
      <4> QED
          BY <2>3, <2>6, <4>1, <4>2 DEF RewrittenFrom
    <3> QED
        BY <3>3 DEF Heard
  <2>11. HistoryInv(t, {}, taken)
      BY <2>8, <2>9, <2>10 DEF HistoryInv
  <2> QED
      BY <1>1, <1>4, <2>2, <2>11
<1> QED
    BY <1>3, <1>4
=============================================================================
