----------------------------- MODULE ArchiveIntake -----------------------------
(***************************************************************************)
(* The inspection of a stored ZIP file before anything reads its content,  *)
(* and the extraction of its entries to a staging directory.  A file is a  *)
(* sequence of entries [name, directory, special, compressed,              *)
(* decompressed, actual]: the sizes its metadata declares and the bytes it *)
(* really inflates to.  A name is the sequence of components between its   *)
(* separators, so an absolute name begins with an empty component.         *)
(***************************************************************************)
EXTENDS OrderedFold

CONSTANTS
    WordMax,          \* the largest value of the counters (u64::MAX)
    MaxEntries, MaxCompressed, MaxEntry, MaxDecompressed, MaxRatio,  \* ArchiveLimits
    Chunk,            \* bytes the extractor reads at a time
    Drives            \* components that contain a colon

ASSUME IntakeConstants ==
    /\ {WordMax, MaxEntries, MaxCompressed, MaxEntry, MaxDecompressed, MaxRatio} \subseteq Nat
    /\ MaxCompressed <= WordMax /\ MaxEntry <= WordMax /\ MaxDecompressed <= WordMax
    /\ Chunk \in Nat \ {0}
    /\ Drives \cap {"", "."} = {}

EntryType ==
    [name : Seq(STRING), directory : BOOLEAN, special : BOOLEAN,
     compressed : Nat, decompressed : Nat, actual : Nat]

Unsafe == <<>>

\* normalize_path: the components without the empty ones and the dots.
Normalized(name) ==
    LET parts == Without(name, {"", "."})
    IN IF name = <<>> \/ Head(name) = "" \/ ".." \in Range(name) \/ Range(parts) \cap Drives # {}
       THEN Unsafe ELSE parts

\* saturating_mul
Product(x, y) == IF x * y > WordMax THEN WordMax ELSE x * y

\* checked_metadata_totals, with the checked additions.
WithinLimits(s, entry) ==
    LET compressed == s.compressed + entry.compressed
        decompressed == s.decompressed + entry.decompressed
    IN /\ compressed <= WordMax /\ decompressed <= WordMax
       /\ entry.compressed <= MaxCompressed /\ compressed <= MaxCompressed
       /\ entry.decompressed <= MaxEntry /\ decompressed <= MaxDecompressed
       /\ entry.compressed = 0 => entry.decompressed = 0
       /\ entry.compressed > 0 => entry.decompressed <= Product(entry.compressed, MaxRatio)

\* Mutant: names are compared before they are normalized.
InspectEntryRaw(s, entry) ==
    LET path == Normalized(entry.name)
    IN IF s.refused \/ path = Unsafe \/ entry.name \in s.names \/ entry.special \/ ~WithinLimits(s, entry)
       THEN [s EXCEPT !.refused = TRUE]
       ELSE [s EXCEPT !.names = @ \cup {entry.name},
                      !.compressed = @ + entry.compressed,
                      !.decompressed = @ + entry.decompressed,
                      !.signals = @ \cup (IF entry.directory THEN {} ELSE {path[Len(path)]})]

\* One turn of the first loop of inspect_zip; the first refusal ends it.
InspectEntry(s, entry) ==
    LET path == Normalized(entry.name)
    IN IF s.refused \/ path = Unsafe \/ path \in s.names \/ entry.special \/ ~WithinLimits(s, entry)
       THEN [s EXCEPT !.refused = TRUE]
       ELSE [s EXCEPT !.names = @ \cup {path},
                      !.compressed = @ + entry.compressed,
                      !.decompressed = @ + entry.decompressed,
                      !.signals = @ \cup (IF entry.directory THEN {} ELSE {path[Len(path)]})]

\* inspect_zip: whether the file is refused, and the signals of its files.
Inspected(zip) ==
    LET start == [refused |-> Len(zip) > MaxEntries, names |-> {}, compressed |-> 0,
                  decompressed |-> 0, signals |-> {}]
    IN InOrder(InspectEntry, start, zip)

\* read_artifacts: every file inflates to the size it declares.
Readable(zip) == \A i \in DOMAIN zip : ~zip[i].directory => zip[i].actual = zip[i].decompressed

-----------------------------------------------------------------------------
\* The bytes of an entry that reach its staged file: the chunk that passes a
\* limit is not written.
Written(s, entry) ==
    LET left == MaxDecompressed - s.total
        room == IF MaxEntry < left THEN MaxEntry ELSE left
    IN IF entry.actual <= room THEN entry.actual ELSE Chunk * (room \div Chunk)

\* Mutant: the size is compared when the entry has been written.
ExtractEntryWhole(s, entry) ==
    IF s.failed \/ entry.directory THEN s
    ELSE [s EXCEPT !.total = @ + entry.actual,
                   !.failed = entry.actual # entry.decompressed,
                   !.staged = Append(@, entry)]

\* One turn of the loop of extract_entries; the first failure ends it.  A format
\* that cannot be read, a limit and a wrong size are one failure here.
ExtractEntry(s, entry) ==
    IF s.failed \/ entry.directory THEN s
    ELSE [s EXCEPT !.total = @ + Written(s, entry),
                   !.failed = Written(s, entry) # entry.actual \/ entry.actual # entry.decompressed,
                   !.staged = Append(@, entry)]

\* extract_zip_to_staging: the file is inspected again and must be the one
\* that was inspected before; a failure removes the staging directory.  The code
\* ignores an error of that removal; here it always succeeds.
Extracted(zip, expected) ==
    LET inspected == Inspected(zip)
        s == InOrder(ExtractEntry,
                      [failed |-> inspected.refused \/ inspected # expected, total |-> 0, staged |-> <<>>],
                      zip)
    IN IF s.failed THEN [s EXCEPT !.staged = <<>>] ELSE s
=============================================================================
