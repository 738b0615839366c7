---------------------------- MODULE IntakeProofs ----------------------------
(***************************************************************************)
(* What reaches a parser, and which parser: the inspection accepts exactly *)
(* the safe files, the extraction keeps the limits and stages exactly the  *)
(* files of a safe one, and the registry lists the releases of a parser in *)
(* order, for all files, limits and declarations.                          *)
(***************************************************************************)
EXTENDS Migration, LoopProofs, FiniteSetTheorems

\* Few leaves need another prover; those name it.
USE Zenon

\* The value after each element of what Total adds.
Sums(f, sizes) ==
    /\ f \in [0..Len(sizes) -> Nat] /\ f[0] = 0
    /\ \A n \in 1..Len(sizes) : f[n] = f[n - 1] + sizes[n]

\* Total adds the elements one after another.
LEMMA TotalSums ==
    ASSUME NEW sizes \in Seq(Nat)
    PROVE \E f : Sums(f, sizes) /\ Total(sizes) = f[Len(sizes)]
<1> DEFINE N == Len(sizes)
           step == [k \in Nat |-> [sum \in Nat |-> IF k \in 1..N THEN sum + sizes[k] ELSE sum]]
           Recursion(f) == f = [n \in 0..N |-> IF n = 0 THEN 0 ELSE f[n - 1] + sizes[n]]
<1>1. N \in Nat /\ sizes \in [1..N -> Nat]
    BY SMT
<1>2. Iterable(Nat, 0, step, N)
  <2>1. step \in [Nat -> [Nat -> Nat]]
      BY <1>1, SMT
  <2> QED
      BY <1>1, <2>1 DEF Iterable
<1>3. \A k \in 1..N : k \in Nat /\ k - 1 \in 0..N /\ k \in 0..N /\ k # 0
    BY <1>1, SMT
<1>4. \A k \in 1..N : \A sum \in Nat : step[k][sum] = sum + sizes[k]
    BY <1>3
<1> HIDE DEF step
<1>5. PICK g : Iteration(g, Nat, 0, step, N)
    BY <1>2, Iterates
<1>6. /\ g \in [0..N -> Nat] /\ g[0] = 0
      /\ \A n \in 1..N : g[n] = g[n - 1] + sizes[n]
    BY <1>3, <1>4, <1>5 DEF Iteration
<1>7. \A n \in 0..N : n # 0 => n \in 1..N
    BY <1>1, SMT
<1>8. Recursion(g)
    BY <1>6, <1>7
<1>9. Total(sizes) = (CHOOSE f : Recursion(f))[N]
    BY DEF Total, InOrder, Turns
<1>10. ASSUME NEW f, Recursion(f)
       PROVE f = g
  <2> DEFINE P == {n \in 0..N : f[n] = g[n]}
  <2>1. 0 \in P
      BY <1>1, <1>6, <1>10, SMT
  <2>2. ASSUME NEW n \in 1..N, n - 1 \in P
        PROVE n \in P
      BY <1>3, <1>6, <1>10, <2>2
  <2>3. \A n \in 0..N : n \in P
      BY <1>1, <2>1, <2>2, Induction
  <2>4. f = [n \in 0..N |-> f[n]] /\ g = [n \in 0..N |-> g[n]]
      BY <1>6, <1>10
  <2> QED
      BY <2>3, <2>4
<1> HIDE DEF Recursion
<1>11. Recursion(CHOOSE f : Recursion(f))
    BY <1>8
<1>12. Total(sizes) = g[N]
    BY <1>9, <1>10, <1>11
<1> QED
    BY <1>6, <1>12 DEF Sums


\* What Without has kept after each element.
Keeping(f, seq, out, T) ==
    /\ f \in [0..Len(seq) -> Seq(T)] /\ f[0] = <<>>
    /\ \A n \in 1..Len(seq) : f[n] = IF seq[n] \in out THEN f[n - 1] ELSE Append(f[n - 1], seq[n])

\* Without takes the elements one after another.
LEMMA WithoutKeeps ==
    ASSUME NEW T, NEW seq \in Seq(T), NEW out
    PROVE \E f : Keeping(f, seq, out, T) /\ Without(seq, out) = f[Len(seq)]
<1> DEFINE N == Len(seq)
           Op(kept, element) == IF element \in out THEN kept ELSE Append(kept, element)
           step == [k \in Nat |-> [kept \in Seq(T) |-> IF k \in 1..N THEN Op(kept, seq[k]) ELSE kept]]
           Recursion(f) == f = [n \in 0..N |-> IF n = 0 THEN <<>> ELSE Op(f[n - 1], seq[n])]
<1>1. N \in Nat /\ seq \in [1..N -> T] /\ <<>> \in Seq(T)
    BY SMT
<1>2. Iterable(Seq(T), <<>>, step, N)
  <2>1. \A kept \in Seq(T), element \in T : Op(kept, element) \in Seq(T)
      BY SMT
  <2>2. step \in [Nat -> [Seq(T) -> Seq(T)]]
      BY <1>1, <2>1
  <2> QED
      BY <1>1, <2>2 DEF Iterable
<1>3. \A k \in 1..N : k \in Nat /\ k - 1 \in 0..N /\ k \in 0..N /\ k # 0
    BY <1>1, SMT
<1>4. \A k \in 1..N : \A kept \in Seq(T) : step[k][kept] = Op(kept, seq[k])
    BY <1>3
<1>5. Without(seq, out) = (CHOOSE f : Recursion(f))[N]
    BY DEF Without, InOrder, Turns
<1> HIDE DEF step
<1>6. PICK g : Iteration(g, Seq(T), <<>>, step, N)
    BY <1>2, Iterates
<1> HIDE DEF Op
<1>7. /\ g \in [0..N -> Seq(T)] /\ g[0] = <<>>
      /\ \A n \in 1..N : g[n] = Op(g[n - 1], seq[n])
    BY <1>3, <1>4, <1>6 DEF Iteration
<1>8. \A n \in 0..N : n # 0 => n \in 1..N
    BY <1>1, SMT
<1>9. Recursion(g)
    BY <1>7, <1>8
<1>10. ASSUME NEW f, Recursion(f)
       PROVE f = g
  <2> DEFINE P == {n \in 0..N : f[n] = g[n]}
  <2>1. 0 \in P
      BY <1>1, <1>7, <1>10, SMT
  <2>2. ASSUME NEW n \in 1..N, n - 1 \in P
        PROVE n \in P
      BY <1>3, <1>7, <1>10, <2>2
  <2>3. \A n \in 0..N : n \in P
      BY <1>1, <2>1, <2>2, Induction
  <2>4. f = [n \in 0..N |-> f[n]] /\ g = [n \in 0..N |-> g[n]]
      BY <1>7, <1>10
  <2> QED
      BY <2>3, <2>4
<1> HIDE DEF Recursion
<1>11. Recursion(CHOOSE f : Recursion(f))
    BY <1>9
<1>12. Without(seq, out) = g[N]
    BY <1>5, <1>10, <1>11
<1> QED
    BY <1>7, <1>12 DEF Keeping, Op

\* An appended element joins the others.
LEMMA RangeOfAppend ==
    ASSUME NEW T, NEW seq \in Seq(T), NEW element
    PROVE Range(Append(seq, element)) = Range(seq) \cup {element}
<1> DEFINE more == Append(seq, element)
<1>1. /\ Len(seq) \in Nat /\ DOMAIN seq = 1..Len(seq) /\ DOMAIN more = 1..(Len(seq) + 1)
      /\ more[Len(seq) + 1] = element /\ \A i \in 1..Len(seq) : more[i] = seq[i]
    BY SMT
<1> HIDE DEF more
<1>2. \A i : i \in 1..(Len(seq) + 1) <=> i \in 1..Len(seq) \/ i = Len(seq) + 1
    BY <1>1, SMT
<1>3. Range(more) \subseteq Range(seq) \cup {element}
    BY <1>1, <1>2 DEF Range
<1>4. Range(seq) \subseteq Range(more)
    BY <1>1, <1>2 DEF Range
<1>5. element \in Range(more)
    BY <1>1, <1>2 DEF Range
<1> QED
    BY <1>3, <1>4, <1>5 DEF more

\* Without keeps the elements that are not taken out.
LEMMA WithoutRange ==
    ASSUME NEW T, NEW seq \in Seq(T), NEW out
    PROVE Without(seq, out) \in Seq(T) /\ Range(Without(seq, out)) = Range(seq) \ out
<1> DEFINE N == Len(seq)
<1>1. PICK f : Keeping(f, seq, out, T) /\ Without(seq, out) = f[N]
    BY WithoutKeeps
<1>2. N \in Nat /\ DOMAIN seq = 1..N /\ N \in 0..N
    BY SMT
<1>3. \A k \in 1..N : k - 1 \in 0..N /\ k \in 0..N
    BY <1>2, SMT
<1> DEFINE First(n) == {seq[i] : i \in 1..n} \ out
           P == {n \in 0..N : Range(f[n]) = First(n)}
<1>4. 0 \in P
  <2>1. Range(<<>>) = {}
      BY SMT DEF Range
  <2>2. 1..0 = {} /\ 0 \in 0..N
      BY <1>2, SMT
  <2>3. First(0) = {}
      BY <2>2
  <2> QED
      BY <1>1, <2>1, <2>2, <2>3 DEF Keeping
<1>5. ASSUME NEW n \in 1..N, n - 1 \in P
      PROVE n \in P
  <2>1. f[n - 1] \in Seq(T) /\ Range(f[n - 1]) = First(n - 1)
      BY <1>1, <1>3, <1>5 DEF Keeping
  <2>2. \A i : i \in 1..n <=> i \in 1..(n - 1) \/ i = n
      BY <1>2, SMT
  <2>3. First(n) = First(n - 1) \cup ({seq[n]} \ out)
      BY <2>2
  <2> HIDE DEF First
  <2>4. CASE seq[n] \in out
      BY <1>1, <1>3, <2>1, <2>3, <2>4 DEF Keeping
  <2>5. CASE seq[n] \notin out
    <3>1. f[n] = Append(f[n - 1], seq[n])
        BY <1>1, <2>5 DEF Keeping
    <3>2. Range(f[n]) = Range(f[n - 1]) \cup {seq[n]}
        BY <2>1, <3>1, RangeOfAppend
    <3> QED
        BY <1>3, <2>1, <2>3, <2>5, <3>2
  <2> QED
      BY <2>4, <2>5
<1> HIDE DEF P
<1>6. N \in P
    BY <1>2, <1>4, <1>5, Induction
<1>7. First(N) = Range(seq) \ out
    BY <1>2 DEF Range
<1> QED
    BY <1>1, <1>2, <1>6, <1>7 DEF P, Keeping


-----------------------------------------------------------------------------
(* The inspection *)

\* A sequence that is not empty has a first element.
LEMMA FirstElement ==
    ASSUME NEW T, NEW seq \in Seq(T), seq # <<>>
    PROVE 1 \in DOMAIN seq
    BY SMT

\* normalize_path refuses exactly the names that are not inside.
LEMMA NamesNormalize ==
    ASSUME NEW name \in Seq(STRING)
    PROVE /\ Normalized(name) \in Seq(STRING)
          /\ Inside(name) <=> Normalized(name) # Unsafe
          /\ Inside(name) => Normalized(name) = Without(name, {"", "."})
<1> DEFINE parts == Without(name, {"", "."})
<1>1. parts \in Seq(STRING) /\ Range(parts) = Range(name) \ {"", "."}
    BY WithoutRange
<1>2. /\ Normalized(name) = IF \/ name = <<>> \/ Head(name) = "" \/ ".." \in Range(name)
                               \/ Range(parts) \cap Drives # {}
                            THEN Unsafe ELSE parts
      /\ name # <<>> => Head(name) = name[1]
  <2>1. name # <<>> => Head(name) = name[1]
      BY SMT
  <2> QED
      BY <2>1 DEF Normalized
<1> HIDE DEF parts
<1>3. parts = <<>> <=> Range(parts) = {}
  <2>1. parts # <<>> => 1 \in DOMAIN parts
      BY <1>1, FirstElement
  <2>2. DOMAIN <<>> = {}
      BY SMT
  <2> QED
      BY <2>1, <2>2 DEF Range
<1>4. Drives \cap {"", "."} = {}
    BY IntakeConstants
<1>5. Range(parts) \cap Drives = {} <=> \A i \in DOMAIN name : name[i] \notin Drives
    BY <1>1, <1>4 DEF Range
<1>6. parts # <<>> <=> \E i \in DOMAIN name : name[i] \notin {"", "."}
    BY <1>1, <1>3 DEF Range
<1>7. ".." \in Range(name) <=> \E i \in DOMAIN name : name[i] = ".."
    BY DEF Range
<1>8. <<>> \in Seq(STRING)
    BY SMT
<1>9. Normalized(name) \in Seq(STRING)
    BY <1>1, <1>2, <1>8 DEF Unsafe
<1>10. Inside(name) <=> /\ ~(\/ name = <<>> \/ Head(name) = "" \/ ".." \in Range(name)
                             \/ Range(parts) \cap Drives # {})
                        /\ parts # <<>>
    BY <1>2, <1>5, <1>6, <1>7 DEF Inside
<1> QED
    BY <1>2, <1>9, <1>10 DEF Unsafe, parts

\* The fields of a ZIP entry.
LEMMA EntryFields ==
    \A entry \in EntryType :
        /\ entry.name \in Seq(STRING)
        /\ entry.compressed \in Nat /\ entry.decompressed \in Nat /\ entry.actual \in Nat
    BY SMT DEF EntryType

Inspections ==
    [refused : BOOLEAN, names : SUBSET Seq(STRING), compressed : Nat, decompressed : Nat,
     signals : SUBSET STRING]

\* One turn of the inspection, and what the limits say of it.
LEMMA EntryInspected ==
    ASSUME NEW s \in Inspections, NEW entry \in EntryType
    PROVE LET t == InspectEntry(s, entry)
              path == Normalized(entry.name)
              fits == path # Unsafe /\ path \notin s.names /\ ~entry.special /\ WithinLimits(s, entry)
          IN /\ t \in Inspections
             /\ t.refused <=> s.refused \/ ~fits
             /\ ~t.refused => /\ t.names = s.names \cup {path}
                              /\ t.compressed = s.compressed + entry.compressed
                              /\ t.decompressed = s.decompressed + entry.decompressed
<1> DEFINE path == Normalized(entry.name)
           fits == path # Unsafe /\ path \notin s.names /\ ~entry.special /\ WithinLimits(s, entry)
           last == IF entry.directory THEN {} ELSE {path[Len(path)]}
           names == s.names \cup {path}
           compressed == s.compressed + entry.compressed
           decompressed == s.decompressed + entry.decompressed
           signals == s.signals \cup last
<1>1. PICK t : t = InspectEntry(s, entry)
    OBVIOUS
<1>2. t = IF s.refused \/ ~fits THEN [s EXCEPT !.refused = TRUE]
          ELSE [s EXCEPT !.names = names, !.compressed = compressed,
                         !.decompressed = decompressed, !.signals = signals]
    BY <1>1 DEF InspectEntry
<1>3. /\ s.refused \in BOOLEAN /\ s.names \subseteq Seq(STRING) /\ s.compressed \in Nat
      /\ s.decompressed \in Nat /\ s.signals \subseteq STRING
    BY SMT DEF Inspections
<1>4. entry.name \in Seq(STRING) /\ entry.compressed \in Nat /\ entry.decompressed \in Nat
    BY EntryFields
<1>5. path \in Seq(STRING)
    BY <1>4, NamesNormalize
<1> HIDE DEF path
<1>6. path # Unsafe => last \subseteq STRING
  <2>1. path # <<>> => path[Len(path)] \in STRING
      BY <1>5, SMT
  <2> QED
      BY <2>1 DEF Unsafe
<1>7. compressed \in Nat /\ decompressed \in Nat
  <2>1. \A m, n \in Nat : m + n \in Nat
      BY SMT
  <2> QED
      BY <1>3, <1>4, <2>1
<1>8. CASE s.refused \/ ~fits
  <2>1. t = [s EXCEPT !.refused = TRUE]
      BY <1>2, <1>8
  <2>2. t.refused
      BY <2>1, SMT DEF Inspections
  <2>3. t \in Inspections
      BY <2>1 DEF Inspections
  <2> QED
      BY <1>1, <1>8, <2>2, <2>3 DEF path
<1>9. CASE ~s.refused /\ fits
  <2>1. names \subseteq Seq(STRING) /\ signals \subseteq STRING
      BY <1>3, <1>5, <1>6, <1>9
  <2>2. t = [s EXCEPT !.names = names, !.compressed = compressed,
                      !.decompressed = decompressed, !.signals = signals]
      BY <1>2, <1>9
  <2> HIDE DEF names, signals, compressed, decompressed
  <2>3. /\ t.names = names /\ t.compressed = compressed /\ t.decompressed = decompressed
        /\ t.refused = s.refused
      BY <2>2, SMT DEF Inspections
  <2>4. t \in Inspections
      BY <1>3, <1>7, <2>1, <2>2 DEF Inspections
  <2> QED
      BY <1>1, <1>9, <2>3, <2>4 DEF path, names, compressed, decompressed
<1> QED
    BY <1>8, <1>9

\* checked_metadata_totals: the checked additions and the saturating product
\* refuse no more than the limits do.
LEMMA LimitsAreTheRules ==
    ASSUME NEW s \in Inspections, NEW entry \in EntryType
    PROVE WithinLimits(s, entry) <=>
              /\ entry.decompressed <= MaxEntry
              /\ entry.decompressed <= MaxRatio * entry.compressed
              /\ s.compressed + entry.compressed <= MaxCompressed
              /\ s.decompressed + entry.decompressed <= MaxDecompressed
<1>1. s.compressed \in Nat /\ s.decompressed \in Nat
    BY SMT DEF Inspections
<1>2. entry.compressed \in Nat /\ entry.decompressed \in Nat
    BY EntryFields
<1>3. /\ WordMax \in Nat /\ MaxCompressed \in Nat /\ MaxEntry \in Nat /\ MaxDecompressed \in Nat
      /\ MaxRatio \in Nat
      /\ MaxCompressed <= WordMax /\ MaxEntry <= WordMax /\ MaxDecompressed <= WordMax
    BY IntakeConstants
<1>4. \A c, d \in Nat :
          d <= MaxEntry => ((c = 0 => d = 0) /\ (c > 0 => d <= Product(c, MaxRatio)) <=> d <= MaxRatio * c)
    BY <1>3, SMT DEF Product
<1>5. \A c, d, x, y \in Nat :
          /\ x + c <= MaxCompressed => c <= MaxCompressed /\ x + c <= WordMax
          /\ y + d <= MaxDecompressed => y + d <= WordMax
    BY <1>3, SMT
<1> QED
    BY <1>1, <1>2, <1>4, <1>5 DEF WithinLimits


InspectionStart(zip) ==
    [refused |-> Len(zip) > MaxEntries, names |-> {}, compressed |-> 0, decompressed |-> 0,
     signals |-> {}]

\* What the inspection knows after each entry.
Inspecting(f, zip) ==
    /\ f \in [0..Len(zip) -> Inspections] /\ f[0] = InspectionStart(zip)
    /\ \A n \in 1..Len(zip) : f[n] = InspectEntry(f[n - 1], zip[n])

\* The loop of inspect_zip takes the entries one after another.
LEMMA InspectionTurns ==
    ASSUME NEW zip \in Seq(EntryType)
    PROVE \E f : Inspecting(f, zip) /\ Inspected(zip) = f[Len(zip)]
<1> DEFINE N == Len(zip)
           start == InspectionStart(zip)
           step == [k \in Nat |-> [s \in Inspections |-> IF k \in 1..N THEN InspectEntry(s, zip[k]) ELSE s]]
           Recursion(f) == f = [n \in 0..N |-> IF n = 0 THEN start ELSE InspectEntry(f[n - 1], zip[n])]
<1>1. N \in Nat /\ zip \in [1..N -> EntryType]
    BY SMT
<1>2. Iterable(Inspections, start, step, N)
  <2>1. \A s \in Inspections, entry \in EntryType : InspectEntry(s, entry) \in Inspections
      BY EntryInspected
  <2>2. step \in [Nat -> [Inspections -> Inspections]]
      BY <1>1, <2>1
  <2>3. (N > MaxEntries) \in BOOLEAN /\ {} \subseteq Seq(STRING) /\ {} \subseteq STRING /\ 0 \in Nat
      BY SMT
  <2>4. start \in Inspections
      BY <2>3 DEF InspectionStart, Inspections
  <2> QED
      BY <1>1, <2>2, <2>4 DEF Iterable
<1>3. \A k \in 1..N : k \in Nat /\ k - 1 \in 0..N /\ k \in 0..N /\ k # 0
    BY <1>1, SMT
<1>4. \A k \in 1..N : \A s \in Inspections : step[k][s] = InspectEntry(s, zip[k])
    BY <1>3
<1>5. Inspected(zip) = (CHOOSE f : Recursion(f))[N]
    BY DEF Inspected, InOrder, Turns, InspectionStart
<1> HIDE DEF step, start
<1>6. PICK g : Iteration(g, Inspections, start, step, N)
    BY <1>2, Iterates
<1>7. /\ g \in [0..N -> Inspections] /\ g[0] = start
      /\ \A n \in 1..N : g[n] = InspectEntry(g[n - 1], zip[n])
    BY <1>3, <1>4, <1>6 DEF Iteration
<1>8. \A n \in 0..N : n # 0 => n \in 1..N
    BY <1>1, SMT
<1>9. Recursion(g)
    BY <1>7, <1>8
<1>10. ASSUME NEW f, Recursion(f)
       PROVE f = g
  <2> DEFINE P == {n \in 0..N : f[n] = g[n]}
  <2>1. 0 \in 0..N
      BY <1>1, SMT
  <2>2. 0 \in P
      BY <1>7, <1>10, <2>1
  <2>3. ASSUME NEW n \in 1..N, n - 1 \in P
        PROVE n \in P
      BY <1>3, <1>7, <1>10, <2>3
  <2>4. \A n \in 0..N : n \in P
      BY <1>1, <2>2, <2>3, Induction
  <2>5. f = [n \in 0..N |-> f[n]] /\ g = [n \in 0..N |-> g[n]]
      BY <1>7, <1>10
  <2> QED
      BY <2>4, <2>5
<1> HIDE DEF Recursion
<1>11. Recursion(CHOOSE f : Recursion(f))
    BY <1>9
<1>12. Inspected(zip) = g[N]
    BY <1>5, <1>10, <1>11
<1> QED
    BY <1>7, <1>12 DEF Inspecting, start

\* The rules, entry by entry, with the sums so far.
EntrySafe(zip, i) ==
    /\ Inside(zip[i].name) /\ ~zip[i].special
    /\ zip[i].decompressed <= MaxEntry
    /\ zip[i].decompressed <= MaxRatio * zip[i].compressed
    /\ \A j \in 1..(i - 1) : ~SamePlace(zip[i].name, zip[j].name)

SafeUpTo(zip, compressed, decompressed, n) ==
    /\ Len(zip) <= MaxEntries
    /\ \A i \in 1..n : EntrySafe(zip, i)
    /\ compressed[n] <= MaxCompressed /\ decompressed[n] <= MaxDecompressed

CompressedOf(zip) == [i \in DOMAIN zip |-> zip[i].compressed]
DecompressedOf(zip) == [i \in DOMAIN zip |-> zip[i].decompressed]

\* The declared sizes are sequences of numbers.
LEMMA SizesAreNumbers ==
    ASSUME NEW zip \in Seq(EntryType)
    PROVE /\ CompressedOf(zip) \in Seq(Nat) /\ Len(CompressedOf(zip)) = Len(zip)
          /\ DecompressedOf(zip) \in Seq(Nat) /\ Len(DecompressedOf(zip)) = Len(zip)
<1>1. Len(zip) \in Nat /\ DOMAIN zip = 1..Len(zip) /\ \A i \in DOMAIN zip : zip[i] \in EntryType
    BY SMT
<1>2. \A entry \in EntryType : entry.compressed \in Nat /\ entry.decompressed \in Nat
    BY EntryFields
<1>3. CompressedOf(zip) \in [1..Len(zip) -> Nat] /\ DecompressedOf(zip) \in [1..Len(zip) -> Nat]
    BY <1>1, <1>2 DEF CompressedOf, DecompressedOf
<1>4. \A n \in Nat : \A f \in [1..n -> Nat] : f \in Seq(Nat) /\ Len(f) = n
    BY SMT
<1> QED
    BY <1>1, <1>3, <1>4


\* The sums so far only grow.
LEMMA SumsGrow ==
    ASSUME NEW sizes \in Seq(Nat), NEW f, Sums(f, sizes)
    PROVE \A n \in 1..Len(sizes) : f[n - 1] \in Nat /\ f[n] \in Nat /\ f[n - 1] <= f[n]
<1>1. ASSUME NEW n \in 1..Len(sizes)
      PROVE f[n - 1] \in Nat /\ f[n] \in Nat /\ f[n - 1] <= f[n]
  <2>1. n - 1 \in 0..Len(sizes) /\ n \in 0..Len(sizes) /\ sizes[n] \in Nat
      BY SMT
  <2>2. f[n - 1] \in Nat /\ f[n] \in Nat /\ f[n] = f[n - 1] + sizes[n]
      BY <2>1 DEF Sums
  <2> QED
      BY <2>1, <2>2, SMT
<1> QED
    BY <1>1

\* The rules of a file are those of its entries in order.
LEMMA SafeInOrder ==
    ASSUME NEW zip \in Seq(EntryType), NEW c, NEW d,
           Total(CompressedOf(zip)) = c[Len(zip)], Total(DecompressedOf(zip)) = d[Len(zip)]
    PROVE Safe(zip) <=> SafeUpTo(zip, c, d, Len(zip))
<1>1. Len(zip) \in Nat /\ DOMAIN zip = 1..Len(zip)
    BY SMT
<1>2. (\A i \in DOMAIN zip : \A j \in DOMAIN zip : i # j => ~SamePlace(zip[i].name, zip[j].name))
         <=> \A i \in 1..Len(zip) : \A j \in 1..(i - 1) : ~SamePlace(zip[i].name, zip[j].name)
  <2>1. \A i, j \in 1..Len(zip) : i # j => i \in 1..(j - 1) \/ j \in 1..(i - 1)
      BY <1>1, SMT
  <2>2. \A i \in 1..Len(zip) : \A j \in 1..(i - 1) : i # j /\ j \in 1..Len(zip)
      BY <1>1, SMT
  <2>3. \A n, m : SamePlace(n, m) <=> SamePlace(m, n)
      BY DEF SamePlace
  <2> QED
      BY <1>1, <2>1, <2>2, <2>3
<1> QED
    BY <1>1, <1>2 DEF Safe, SafeUpTo, EntrySafe, CompressedOf, DecompressedOf

\* What the inspection has refused and collected after n entries.
InspectedUpTo(s, zip, c, d, n) ==
    /\ s.refused <=> ~SafeUpTo(zip, c, d, n)
    /\ ~s.refused => /\ s.names = {Normalized(zip[i].name) : i \in 1..n}
                     /\ s.compressed = c[n] /\ s.decompressed = d[n]

\* One turn of the loop of inspect_zip carries what is known of the entries
\* before to the next one.
LEMMA InspectionAdvances ==
    ASSUME NEW zip \in Seq(EntryType), NEW c, NEW d,
           Sums(c, CompressedOf(zip)), Sums(d, DecompressedOf(zip)),
           NEW n \in 1..Len(zip), NEW s \in Inspections, InspectedUpTo(s, zip, c, d, n - 1)
    PROVE InspectedUpTo(InspectEntry(s, zip[n]), zip, c, d, n)
<1>1. PICK t : t = InspectEntry(s, zip[n])
    OBVIOUS
<1>2. PICK entry \in EntryType : entry = zip[n]
    BY SMT
<1>3. entry.name \in Seq(STRING) /\ entry.compressed \in Nat /\ entry.decompressed \in Nat
    BY EntryFields
<1>4. Len(zip) \in Nat /\ DOMAIN zip = 1..Len(zip) /\ n - 1 \in Nat
    BY SMT
<1>5. \A i : i \in 1..n <=> i \in 1..(n - 1) \/ i = n
    BY <1>4, SMT
<1>6. /\ c[n - 1] \in Nat /\ c[n] \in Nat /\ c[n - 1] <= c[n]
      /\ d[n - 1] \in Nat /\ d[n] \in Nat /\ d[n - 1] <= d[n]
    BY SizesAreNumbers, SumsGrow
<1>7. c[n] = c[n - 1] + entry.compressed /\ d[n] = d[n - 1] + entry.decompressed
  <2>1. CompressedOf(zip)[n] = entry.compressed /\ DecompressedOf(zip)[n] = entry.decompressed
      BY <1>2, <1>4 DEF CompressedOf, DecompressedOf
  <2> QED
      BY <2>1, SizesAreNumbers DEF Sums
<1>8. SafeUpTo(zip, c, d, n) <=>
          /\ SafeUpTo(zip, c, d, n - 1) /\ EntrySafe(zip, n)
          /\ c[n] <= MaxCompressed /\ d[n] <= MaxDecompressed
  <2>1. MaxCompressed \in Nat /\ MaxDecompressed \in Nat
      BY IntakeConstants
  <2>2. /\ c[n] <= MaxCompressed => c[n - 1] <= MaxCompressed
        /\ d[n] <= MaxDecompressed => d[n - 1] <= MaxDecompressed
      BY <1>6, <2>1, SMT
  <2> QED
      BY <1>5, <2>2 DEF SafeUpTo
<1> DEFINE path == Normalized(entry.name)
           fits == path # Unsafe /\ path \notin s.names /\ ~entry.special /\ WithinLimits(s, entry)
<1>9. /\ t.refused <=> s.refused \/ ~fits
      /\ ~t.refused => /\ t.names = s.names \cup {path}
                       /\ t.compressed = s.compressed + entry.compressed
                       /\ t.decompressed = s.decompressed + entry.decompressed
    BY <1>1, <1>2, EntryInspected
<1>10. CASE s.refused
  <2>1. t.refused /\ ~SafeUpTo(zip, c, d, n - 1)
      BY <1>9, <1>10 DEF InspectedUpTo
  <2> QED
      BY <1>1, <1>8, <2>1 DEF InspectedUpTo
<1>11. CASE ~s.refused
  <2>1. /\ SafeUpTo(zip, c, d, n - 1) /\ s.names = {Normalized(zip[i].name) : i \in 1..(n - 1)}
        /\ s.compressed = c[n - 1] /\ s.decompressed = d[n - 1]
      BY <1>11 DEF InspectedUpTo
  <2>2. WithinLimits(s, entry) <=>
            /\ entry.decompressed <= MaxEntry /\ entry.decompressed <= MaxRatio * entry.compressed
            /\ c[n] <= MaxCompressed /\ d[n] <= MaxDecompressed
      BY <1>7, <2>1, LimitsAreTheRules
  <2>3. path # Unsafe <=> Inside(entry.name)
      BY <1>3, NamesNormalize
  <2>4. ASSUME Inside(entry.name)
        PROVE path \in s.names <=> \E i \in 1..(n - 1) : SamePlace(entry.name, zip[i].name)
    <3>1. ASSUME NEW i \in 1..(n - 1)
          PROVE Normalized(zip[i].name) = path <=> SamePlace(entry.name, zip[i].name)
      <4>1. zip[i] \in EntryType
          BY <1>4, SMT
      <4>2. zip[i].name \in Seq(STRING)
          BY <4>1, EntryFields
      <4>3. Inside(zip[i].name)
          BY <2>1 DEF SafeUpTo, EntrySafe
      <4>4. Normalized(zip[i].name) = Without(zip[i].name, {"", "."})
          BY <4>2, <4>3, NamesNormalize
      <4>5. path = Without(entry.name, {"", "."})
          BY <1>3, <2>4, NamesNormalize
      <4> QED
          BY <4>4, <4>5 DEF SamePlace
    <3> QED
        BY <2>1, <3>1
  <2> HIDE DEF path
  <2>5. fits <=> EntrySafe(zip, n) /\ c[n] <= MaxCompressed /\ d[n] <= MaxDecompressed
      BY <1>2, <2>2, <2>3, <2>4 DEF EntrySafe
  <2>6. t.refused <=> ~SafeUpTo(zip, c, d, n)
      BY <1>8, <1>9, <1>11, <2>1, <2>5
  <2>7. s.names \cup {path} = {Normalized(zip[i].name) : i \in 1..n}
      BY <1>2, <1>5, <2>1 DEF path
  <2> QED
      BY <1>1, <1>7, <1>9, <2>1, <2>6, <2>7 DEF InspectedUpTo
<1> QED
    BY <1>10, <1>11

\* inspect_zip refuses exactly the files that break a rule.
LEMMA InspectionIsTheRules ==
    ASSUME NEW zip \in Seq(EntryType)
    PROVE Inspected(zip).refused <=> ~Safe(zip)
<1> DEFINE N == Len(zip)
<1>1. PICK f : Inspecting(f, zip) /\ Inspected(zip) = f[N]
    BY InspectionTurns
<1>2. /\ CompressedOf(zip) \in Seq(Nat) /\ Len(CompressedOf(zip)) = N
      /\ DecompressedOf(zip) \in Seq(Nat) /\ Len(DecompressedOf(zip)) = N
    BY SizesAreNumbers
<1>3. PICK c : Sums(c, CompressedOf(zip)) /\ Total(CompressedOf(zip)) = c[N]
    BY <1>2, TotalSums
<1>4. PICK d : Sums(d, DecompressedOf(zip)) /\ Total(DecompressedOf(zip)) = d[N]
    BY <1>2, TotalSums
<1>5. N \in Nat /\ N \in 0..N /\ 0 \in 0..N /\ 1..0 = {} /\ \A n \in 1..N : n \in 0..N /\ n - 1 \in 0..N
    BY SMT
<1> DEFINE P == {n \in 0..N : InspectedUpTo(f[n], zip, c, d, n)}
<1>6. 0 \in P
  <2>1. /\ f[0].refused <=> N > MaxEntries
        /\ f[0].names = {} /\ f[0].compressed = 0 /\ f[0].decompressed = 0
    <3>1. PICK start : start = InspectionStart(zip)
        OBVIOUS
    <3>2. /\ start.refused <=> N > MaxEntries
          /\ start.names = {} /\ start.compressed = 0 /\ start.decompressed = 0
        BY <3>1 DEF InspectionStart
    <3> QED
        BY <1>1, <3>1, <3>2 DEF Inspecting
  <2>2. c[0] = 0 /\ d[0] = 0
      BY <1>3, <1>4 DEF Sums
  <2>3. MaxEntries \in Nat /\ MaxCompressed \in Nat /\ MaxDecompressed \in Nat
      BY IntakeConstants
  <2>4. (N > MaxEntries <=> ~(N <= MaxEntries)) /\ 0 <= MaxCompressed /\ 0 <= MaxDecompressed
      BY <1>5, <2>3, SMT
  <2>5. SafeUpTo(zip, c, d, 0) <=> N <= MaxEntries
      BY <1>5, <2>2, <2>4 DEF SafeUpTo
  <2>6. {Normalized(zip[i].name) : i \in 1..0} = {}
      BY <1>5
  <2>7. InspectedUpTo(f[0], zip, c, d, 0)
      BY <2>1, <2>2, <2>4, <2>5, <2>6 DEF InspectedUpTo
  <2> QED
      BY <1>5, <2>7
<1>7. ASSUME NEW n \in 1..N, n - 1 \in P
      PROVE n \in P
  <2>1. f[n - 1] \in Inspections /\ f[n] = InspectEntry(f[n - 1], zip[n])
      BY <1>1, <1>5 DEF Inspecting
  <2>2. InspectedUpTo(InspectEntry(f[n - 1], zip[n]), zip, c, d, n)
      BY <1>3, <1>4, <1>7, <2>1, InspectionAdvances
  <2> QED
      BY <1>5, <2>1, <2>2
<1> HIDE DEF P
<1>8. N \in P
    BY <1>5, <1>6, <1>7, Induction
<1>9. Inspected(zip).refused <=> ~SafeUpTo(zip, c, d, N)
    BY <1>1, <1>8 DEF P, InspectedUpTo
<1>10. Safe(zip) <=> SafeUpTo(zip, c, d, N)
    BY <1>3, <1>4, SafeInOrder
<1> QED
    BY <1>9, <1>10


-----------------------------------------------------------------------------
(* The extraction *)

Extractions == [failed : BOOLEAN, total : Nat, staged : Seq(EntryType)]

\* The bytes of an entry stay within the limits, and all of them are written
\* exactly when they do.
LEMMA WrittenWithinLimits ==
    ASSUME NEW s \in Extractions, NEW entry \in EntryType, s.total <= MaxDecompressed
    PROVE /\ Written(s, entry) \in Nat /\ s.total + Written(s, entry) <= MaxDecompressed
          /\ Written(s, entry) = entry.actual <=>
                entry.actual <= MaxEntry /\ s.total + entry.actual <= MaxDecompressed
<1>1. s.total \in Nat
    BY SMT DEF Extractions
<1>2. entry.actual \in Nat
    BY EntryFields
<1>3. MaxEntry \in Nat /\ MaxDecompressed \in Nat /\ Chunk \in Nat \ {0}
    BY IntakeConstants
<1> DEFINE left == MaxDecompressed - s.total
           room == IF MaxEntry < left THEN MaxEntry ELSE left
<1>4. /\ room \in Nat /\ s.total + room <= MaxDecompressed
      /\ entry.actual <= room <=> entry.actual <= MaxEntry /\ s.total + entry.actual <= MaxDecompressed
    BY <1>1, <1>2, <1>3, SMT
<1>5. Written(s, entry) = IF entry.actual <= room THEN entry.actual ELSE Chunk * (room \div Chunk)
    BY DEF Written
<1> HIDE DEF room
<1>6. Chunk * (room \div Chunk) \in Nat /\ Chunk * (room \div Chunk) <= room
    BY <1>3, <1>4, SMT
<1>7. PICK w : w = Chunk * (room \div Chunk)
    OBVIOUS
<1>8. /\ w \in Nat /\ w <= room
      /\ Written(s, entry) = IF entry.actual <= room THEN entry.actual ELSE w
    BY <1>5, <1>6, <1>7
<1>9. Written(s, entry) \in Nat /\ Written(s, entry) <= room
    BY <1>2, <1>8
<1>10. s.total + Written(s, entry) <= MaxDecompressed
    BY <1>1, <1>3, <1>4, <1>9, SMT
<1>11. Written(s, entry) = entry.actual <=> entry.actual <= room
    BY <1>2, <1>4, <1>8, SMT
<1> QED
    BY <1>4, <1>9, <1>10, <1>11

\* One turn of the extraction.
LEMMA EntryExtracted ==
    ASSUME NEW s \in Extractions, NEW entry \in EntryType, s.total <= MaxDecompressed
    PROVE LET t == ExtractEntry(s, entry)
          IN /\ t \in Extractions /\ t.total <= MaxDecompressed
             /\ s.failed \/ entry.directory => t = s
             /\ ~s.failed /\ ~entry.directory =>
                   /\ t.failed <=> ~(/\ entry.actual = entry.decompressed
                                     /\ entry.actual <= MaxEntry
                                     /\ s.total + entry.actual <= MaxDecompressed)
                   /\ t.staged = Append(s.staged, entry)
                   /\ ~t.failed => t.total = s.total + entry.actual
<1>1. PICK t : t = ExtractEntry(s, entry)
    OBVIOUS
<1>2. CASE s.failed \/ entry.directory
    BY <1>1, <1>2 DEF ExtractEntry
<1>3. CASE ~s.failed /\ ~entry.directory
  <2> DEFINE w == Written(s, entry)
             total == s.total + w
             failed == w # entry.actual \/ entry.actual # entry.decompressed
             staged == Append(s.staged, entry)
  <2>1. t = [s EXCEPT !.total = total, !.failed = failed, !.staged = staged]
      BY <1>1, <1>3 DEF ExtractEntry
  <2>2. s.total \in Nat /\ s.staged \in Seq(EntryType)
      BY SMT DEF Extractions
  <2>3. w \in Nat /\ total <= MaxDecompressed
        /\ (w = entry.actual <=> entry.actual <= MaxEntry /\ s.total + entry.actual <= MaxDecompressed)
      BY WrittenWithinLimits
  <2>4. total \in Nat
      BY <2>2, <2>3, SMT
  <2>5. staged \in Seq(EntryType)
      BY <2>2, SMT
  <2> HIDE DEF w
  <2>6. failed \in BOOLEAN
      OBVIOUS
  <2> HIDE DEF total, failed, staged
  <2>7. t.total = total /\ t.failed = failed /\ t.staged = staged
      BY <2>1, SMT DEF Extractions
  <2>8. t \in Extractions
      BY <2>1, <2>4, <2>5, <2>6 DEF Extractions
  <2> QED
      BY <1>1, <1>3, <2>3, <2>7, <2>8 DEF total, failed, staged
<1> QED
    BY <1>2, <1>3

ExtractionStart(failed) == [failed |-> failed, total |-> 0, staged |-> <<>>]

\* What the extraction has written after each entry.
Extracting(f, zip, failed) ==
    /\ f \in [0..Len(zip) -> {s \in Extractions : s.total <= MaxDecompressed}]
    /\ f[0] = ExtractionStart(failed)
    /\ \A n \in 1..Len(zip) : f[n] = ExtractEntry(f[n - 1], zip[n])

\* The loop of extract_entries takes the entries one after another.
LEMMA ExtractionTurns ==
    ASSUME NEW zip \in Seq(EntryType), NEW failed \in BOOLEAN
    PROVE \E f : /\ Extracting(f, zip, failed)
                 /\ InOrder(ExtractEntry, ExtractionStart(failed), zip) = f[Len(zip)]
<1> DEFINE N == Len(zip)
           S == {s \in Extractions : s.total <= MaxDecompressed}
           start == ExtractionStart(failed)
           step == [k \in Nat |-> [s \in S |-> IF k \in 1..N THEN ExtractEntry(s, zip[k]) ELSE s]]
           Recursion(f) == f = [n \in 0..N |-> IF n = 0 THEN start ELSE ExtractEntry(f[n - 1], zip[n])]
<1>1. N \in Nat /\ zip \in [1..N -> EntryType]
    BY SMT
<1>2. Iterable(S, start, step, N)
  <2>1. \A s \in S, entry \in EntryType : ExtractEntry(s, entry) \in S
      BY EntryExtracted
  <2>2. step \in [Nat -> [S -> S]]
      BY <1>1, <2>1
  <2>3. MaxDecompressed \in Nat
      BY IntakeConstants
  <2>4. <<>> \in Seq(EntryType) /\ 0 \in Nat /\ 0 <= MaxDecompressed
      BY <2>3, SMT
  <2>5. start \in Extractions
      BY <2>4 DEF ExtractionStart, Extractions
  <2>6. start.total = 0
      BY SMT DEF ExtractionStart
  <2> QED
      BY <1>1, <2>2, <2>4, <2>5, <2>6 DEF Iterable
<1>3. \A k \in 1..N : k \in Nat /\ k - 1 \in 0..N /\ k \in 0..N /\ k # 0
    BY <1>1, SMT
<1>4. \A k \in 1..N : \A s \in S : step[k][s] = ExtractEntry(s, zip[k])
    BY <1>3
<1>5. InOrder(ExtractEntry, ExtractionStart(failed), zip) = (CHOOSE f : Recursion(f))[N]
    BY DEF InOrder, Turns
<1> HIDE DEF step, start, S
<1>6. PICK g : Iteration(g, S, start, step, N)
    BY <1>2, Iterates
<1>7. /\ g \in [0..N -> S] /\ g[0] = start
      /\ \A n \in 1..N : g[n] = ExtractEntry(g[n - 1], zip[n])
    BY <1>3, <1>4, <1>6 DEF Iteration
<1>8. \A n \in 0..N : n # 0 => n \in 1..N
    BY <1>1, SMT
<1>9. Recursion(g)
    BY <1>7, <1>8
<1>10. ASSUME NEW f, Recursion(f)
       PROVE f = g
  <2> DEFINE P == {n \in 0..N : f[n] = g[n]}
  <2>1. 0 \in 0..N
      BY <1>1, SMT
  <2>2. 0 \in P
      BY <1>7, <1>10, <2>1
  <2>3. ASSUME NEW n \in 1..N, n - 1 \in P
        PROVE n \in P
      BY <1>3, <1>7, <1>10, <2>3
  <2>4. \A n \in 0..N : n \in P
      BY <1>1, <2>2, <2>3, Induction
  <2>5. f = [n \in 0..N |-> f[n]] /\ g = [n \in 0..N |-> g[n]]
      BY <1>7, <1>10
  <2> QED
      BY <2>4, <2>5
<1> HIDE DEF Recursion
<1>11. Recursion(CHOOSE f : Recursion(f))
    BY <1>9
<1>12. InOrder(ExtractEntry, ExtractionStart(failed), zip) = g[N]
    BY <1>5, <1>10, <1>11
<1> QED
    BY <1>7, <1>12 DEF Extracting, start, S


\* No sum so far is above the last one.
LEMMA SumsBelowTheTotal ==
    ASSUME NEW sizes \in Seq(Nat), NEW f, Sums(f, sizes)
    PROVE \A n \in 0..Len(sizes) : f[n] \in Nat /\ f[n] <= f[Len(sizes)]
<1> DEFINE N == Len(sizes)
           P == {k \in 0..N : f[N - k] <= f[N]}
<1>1. N \in Nat /\ 0 \in 0..N /\ N - 0 = N /\ N \in 0..N
    BY SMT
<1>2. \A n \in 0..N : f[n] \in Nat
    BY DEF Sums
<1>3. 0 \in P
  <2>1. f[N] <= f[N]
      BY <1>1, <1>2, SMT
  <2> QED
      BY <1>1, <2>1
<1>4. ASSUME NEW k \in 1..N, k - 1 \in P
      PROVE k \in P
  <2>1. N - (k - 1) \in 1..N /\ (N - (k - 1)) - 1 = N - k /\ k \in 0..N
      BY <1>1, SMT
  <2>2. f[N - k] \in Nat /\ f[N - (k - 1)] \in Nat /\ f[N - k] <= f[N - (k - 1)]
      BY <2>1, SumsGrow
  <2>3. f[N - (k - 1)] <= f[N] /\ f[N] \in Nat
      BY <1>1, <1>2, <1>4
  <2>4. f[N - k] <= f[N]
      BY <2>2, <2>3, SMT
  <2> QED
      BY <2>1, <2>4
<1> HIDE DEF P
<1>5. \A k \in 0..N : k \in P
    BY <1>1, <1>3, <1>4, Induction
<1>6. \A n \in 0..N : N - n \in 0..N /\ N - (N - n) = n
    BY <1>1, SMT
<1>7. \A n \in 0..N : f[n] <= f[N]
    BY <1>5, <1>6 DEF P
<1> QED
    BY <1>2, <1>7

Directories(zip) == {e \in Range(zip) : e.directory}

\* What the extraction of a safe file has staged after n entries.
ExtractedUpTo(s, zip, d, kept, n) ==
    /\ s.failed <=> \E i \in 1..n : ~zip[i].directory /\ zip[i].actual # zip[i].decompressed
    /\ ~s.failed => s.total <= d[n] /\ s.staged = kept[n]

\* One turn of the loop of extract_entries carries what is known of the
\* entries before to the next one.
LEMMA ExtractionAdvances ==
    ASSUME NEW zip \in Seq(EntryType), Safe(zip), NEW d, NEW kept,
           Sums(d, DecompressedOf(zip)), Total(DecompressedOf(zip)) = d[Len(zip)],
           Keeping(kept, zip, Directories(zip), EntryType),
           NEW n \in 1..Len(zip), NEW s \in Extractions, s.total <= MaxDecompressed,
           ExtractedUpTo(s, zip, d, kept, n - 1)
    PROVE ExtractedUpTo(ExtractEntry(s, zip[n]), zip, d, kept, n)
<1>1. PICK t : t = ExtractEntry(s, zip[n])
    OBVIOUS
<1>2. PICK entry \in EntryType : entry = zip[n]
    BY SMT
<1>3. entry.decompressed \in Nat /\ entry.actual \in Nat /\ s.total \in Nat
  <2>1. s.total \in Nat
      BY SMT DEF Extractions
  <2> QED
      BY <2>1, EntryFields
<1>4. Len(zip) \in Nat /\ DOMAIN zip = 1..Len(zip) /\ n \in 0..Len(zip)
    BY SMT
<1>5. \A i : i \in 1..n <=> i \in 1..(n - 1) \/ i = n
    BY <1>4, SMT
<1>6. d[n - 1] \in Nat /\ d[n] \in Nat /\ d[n - 1] <= d[n] /\ d[n] = d[n - 1] + entry.decompressed
  <2>1. DecompressedOf(zip)[n] = entry.decompressed
      BY <1>2, <1>4 DEF DecompressedOf
  <2>2. d[n] = d[n - 1] + entry.decompressed
      BY <2>1, SizesAreNumbers DEF Sums
  <2> QED
      BY <2>2, SizesAreNumbers, SumsGrow
<1>7. d[n] <= MaxDecompressed /\ entry.decompressed <= MaxEntry
  <2>1. d[n] <= d[Len(zip)] /\ d[Len(zip)] \in Nat
    <3>1. DecompressedOf(zip) \in Seq(Nat) /\ Len(DecompressedOf(zip)) = Len(zip)
        BY SizesAreNumbers
    <3>2. Len(zip) \in 0..Len(zip)
        BY <1>4, SMT
    <3>3. \A m \in 0..Len(zip) : d[m] \in Nat /\ d[m] <= d[Len(zip)]
        BY <3>1, SumsBelowTheTotal
    <3> QED
        BY <1>4, <3>2, <3>3
  <2>2. d[Len(zip)] <= MaxDecompressed /\ entry.decompressed <= MaxEntry
      BY <1>2, <1>4 DEF Safe, DecompressedOf
  <2>3. MaxDecompressed \in Nat
      BY IntakeConstants
  <2> QED
      BY <1>6, <2>1, <2>2, <2>3, SMT
<1>8. kept[n] = IF entry.directory THEN kept[n - 1] ELSE Append(kept[n - 1], entry)
  <2>1. entry \in Directories(zip) <=> entry.directory
      BY <1>2, <1>4 DEF Directories, Range
  <2> QED
      BY <1>2, <2>1 DEF Keeping
<1>9. /\ s.failed \/ entry.directory => t = s
      /\ ~s.failed /\ ~entry.directory =>
            /\ t.failed <=> ~(/\ entry.actual = entry.decompressed
                              /\ entry.actual <= MaxEntry
                              /\ s.total + entry.actual <= MaxDecompressed)
            /\ t.staged = Append(s.staged, entry)
            /\ ~t.failed => t.total = s.total + entry.actual
    BY <1>1, <1>2, EntryExtracted
<1>10. CASE s.failed
    BY <1>1, <1>5, <1>9, <1>10 DEF ExtractedUpTo
<1>11. CASE ~s.failed /\ entry.directory
  <2>1. t = s /\ s.staged = kept[n] /\ s.total <= d[n - 1]
      BY <1>8, <1>9, <1>11 DEF ExtractedUpTo
  <2>2. s.total <= d[n]
      BY <1>3, <1>6, <2>1, SMT
  <2>3. ~\E i \in 1..n : ~zip[i].directory /\ zip[i].actual # zip[i].decompressed
      BY <1>2, <1>5, <1>11 DEF ExtractedUpTo
  <2> QED
      BY <1>1, <1>11, <2>1, <2>2, <2>3 DEF ExtractedUpTo
<1>12. CASE ~s.failed /\ ~entry.directory
  <2>1. s.staged = kept[n - 1] /\ s.total <= d[n - 1]
      BY <1>12 DEF ExtractedUpTo
  <2>2. MaxEntry \in Nat /\ MaxDecompressed \in Nat
      BY IntakeConstants
  <2>3. entry.actual = entry.decompressed =>
            /\ entry.actual <= MaxEntry /\ s.total + entry.actual <= MaxDecompressed
            /\ s.total + entry.actual <= d[n]
      BY <1>3, <1>6, <1>7, <2>1, <2>2, SMT
  <2>4. t.failed <=> entry.actual # entry.decompressed
      BY <1>9, <1>12, <2>3
  <2>5. t.failed <=> \E i \in 1..n : ~zip[i].directory /\ zip[i].actual # zip[i].decompressed
      BY <1>2, <1>5, <1>12, <2>4 DEF ExtractedUpTo
  <2>6. ~t.failed => t.total <= d[n] /\ t.staged = kept[n]
      BY <1>8, <1>9, <1>12, <2>1, <2>3, <2>4
  <2> QED
      BY <1>1, <2>5, <2>6 DEF ExtractedUpTo
<1> QED
    BY <1>10, <1>11, <1>12

\* extract_entries stays within the limits, succeeds on the safe files whose
\* entries inflate to what they declare, and stages exactly their files.
LEMMA ExtractionIsTheRules ==
    ASSUME NEW zip \in Seq(EntryType)
    PROVE LET done == Extracted(zip, Inspected(zip))
          IN /\ done.total <= MaxDecompressed
             /\ ~done.failed <=> Safe(zip) /\ Readable(zip)
             /\ done.staged = IF done.failed THEN <<>> ELSE Without(zip, Directories(zip))
<1> DEFINE N == Len(zip)
<1>1. PICK done : done = Extracted(zip, Inspected(zip))
    OBVIOUS
<1>2. PICK refused \in BOOLEAN : refused <=> ~Safe(zip)
    OBVIOUS
<1>3. PICK f : Extracting(f, zip, refused) /\ InOrder(ExtractEntry, ExtractionStart(refused), zip) = f[N]
    BY ExtractionTurns
<1>4. Inspected(zip).refused = refused
  <2>1. PICK g : Inspecting(g, zip) /\ Inspected(zip) = g[N]
      BY InspectionTurns
  <2>2. N \in 0..N
      BY SMT
  <2>3. g[N] \in Inspections
      BY <2>1, <2>2 DEF Inspecting
  <2>4. g[N].refused \in BOOLEAN
      BY <2>3 DEF Inspections
  <2>5. Inspected(zip).refused \in BOOLEAN
      BY <2>1, <2>4
  <2> QED
      BY <1>2, <2>5, InspectionIsTheRules
<1>5. done = IF f[N].failed THEN [f[N] EXCEPT !.staged = <<>>] ELSE f[N]
  <2>1. (Inspected(zip).refused \/ Inspected(zip) # Inspected(zip)) = refused
      BY <1>2, <1>4
  <2> QED
      BY <1>1, <1>3, <2>1 DEF Extracted, ExtractionStart
<1>6. N \in Nat /\ N \in 0..N /\ 0 \in 0..N /\ 1..0 = {} /\ \A n \in 1..N : n \in 0..N /\ n - 1 \in 0..N
    BY SMT
<1>7. \A n \in 0..N : f[n] \in Extractions /\ f[n].total <= MaxDecompressed
    BY <1>3 DEF Extracting
<1>8. PICK last \in Extractions : last = f[N]
    BY <1>6, <1>7
<1>9. /\ done.total = last.total /\ done.failed = last.failed
      /\ done.staged = IF last.failed THEN <<>> ELSE last.staged
  <2>1. CASE last.failed
    <3>1. done = [last EXCEPT !.staged = <<>>]
        BY <1>5, <1>8, <2>1
    <3>2. done.total = last.total /\ done.failed = last.failed /\ done.staged = <<>>
        BY <3>1, SMT DEF Extractions
    <3> QED
        BY <2>1, <3>2
  <2>2. CASE ~last.failed
      BY <1>5, <1>8, <2>2
  <2> QED
      BY <2>1, <2>2
<1>10. last.total <= MaxDecompressed
    BY <1>6, <1>7, <1>8
<1>11. (f[0].failed <=> refused) /\ f[0].total = 0 /\ f[0].staged = <<>>
  <2>1. PICK start : start = ExtractionStart(refused)
      OBVIOUS
  <2>2. start.failed <=> refused
      BY <2>1 DEF ExtractionStart
  <2>3. start.total = 0 /\ start.staged = <<>>
      BY <2>1, SMT DEF ExtractionStart
  <2> QED
      BY <1>3, <2>1, <2>2, <2>3 DEF Extracting
<1>12. CASE refused
  <2> DEFINE P == {n \in 0..N : f[n].failed}
  <2>1. 0 \in P
      BY <1>6, <1>11, <1>12
  <2>2. ASSUME NEW n \in 1..N, n - 1 \in P
        PROVE n \in P
    <3>1. zip[n] \in EntryType
        BY SMT
    <3>2. f[n - 1] \in Extractions /\ f[n - 1].total <= MaxDecompressed /\ f[n - 1].failed
        BY <1>6, <1>7, <2>2
    <3>3. f[n] = f[n - 1]
        BY <1>3, <3>1, <3>2, EntryExtracted DEF Extracting
    <3> QED
        BY <1>6, <3>2, <3>3
  <2> HIDE DEF P
  <2>3. N \in P
      BY <1>6, <2>1, <2>2, Induction
  <2>4. last.failed
      BY <1>8, <2>3 DEF P
  <2> QED
      BY <1>1, <1>2, <1>9, <1>10, <1>12, <2>4
<1>13. CASE ~refused
  <2>1. Safe(zip)
      BY <1>2, <1>13
  <2>2. DecompressedOf(zip) \in Seq(Nat) /\ Len(DecompressedOf(zip)) = N
      BY SizesAreNumbers
  <2>3. PICK d : Sums(d, DecompressedOf(zip)) /\ Total(DecompressedOf(zip)) = d[N]
      BY <2>2, TotalSums
  <2>4. PICK kept : Keeping(kept, zip, Directories(zip), EntryType) /\ Without(zip, Directories(zip)) = kept[N]
      BY WithoutKeeps
  <2> DEFINE P == {n \in 0..N : ExtractedUpTo(f[n], zip, d, kept, n)}
  <2>5. 0 \in P
    <3>1. d[0] = 0 /\ kept[0] = <<>> /\ 0 <= 0
        BY <2>3, <2>4, SMT DEF Sums, Keeping
    <3> QED
        BY <1>6, <1>11, <1>13, <3>1 DEF ExtractedUpTo
  <2>6. ASSUME NEW n \in 1..N, n - 1 \in P
        PROVE n \in P
    <3>1. f[n - 1] \in Extractions /\ f[n - 1].total <= MaxDecompressed
        BY <1>6, <1>7
    <3>2. ExtractedUpTo(ExtractEntry(f[n - 1], zip[n]), zip, d, kept, n)
        BY <2>1, <2>3, <2>4, <2>6, <3>1, ExtractionAdvances
    <3>3. f[n] = ExtractEntry(f[n - 1], zip[n])
        BY <1>3 DEF Extracting
    <3> QED
        BY <1>6, <3>2, <3>3
  <2> HIDE DEF P
  <2>7. N \in P
      BY <1>6, <2>5, <2>6, Induction
  <2>8. ExtractedUpTo(last, zip, d, kept, N)
      BY <1>8, <2>7 DEF P
  <2>9. DOMAIN zip = 1..N
      BY SMT
  <2>10. last.failed <=> ~Readable(zip)
      BY <2>8, <2>9 DEF ExtractedUpTo, Readable
  <2>11. ~last.failed => last.staged = Without(zip, Directories(zip))
      BY <2>4, <2>8 DEF ExtractedUpTo
  <2> QED
      BY <1>1, <1>9, <1>10, <2>1, <2>10, <2>11
<1> QED
    BY <1>12, <1>13

-----------------------------------------------------------------------------
(* The order of versions *)

PartType == {0, 1} \X Nat

\* The parts of a version are in a strict total order.
LEMMA PartsAreOrdered ==
    /\ \A p \in PartType : ~PartLess(p, p)
    /\ \A p, q \in PartType : p # q => PartLess(p, q) \/ PartLess(q, p)
    /\ \A p, q, r \in PartType : PartLess(p, q) /\ PartLess(q, r) => PartLess(p, r)
<1>1. \A p \in PartType : p = <<p[1], p[2]>> /\ p[1] \in Nat /\ p[2] \in Nat
    BY SMT DEF PartType
<1>2. \A p \in PartType : ~PartLess(p, p)
    BY <1>1, SMT DEF PartLess
<1>3. ASSUME NEW p \in PartType, NEW q \in PartType, p # q
      PROVE PartLess(p, q) \/ PartLess(q, p)
  <2>1. p[1] # q[1] \/ p[2] # q[2]
      BY <1>1, <1>3
  <2> QED
      BY <1>1, <2>1, SMT DEF PartLess
<1>4. \A p, q, r \in PartType : PartLess(p, q) /\ PartLess(q, r) => PartLess(p, r)
    BY <1>1, SMT DEF PartLess
<1> QED
    BY <1>2, <1>3, <1>4

\* compare_versions is a strict total order of the split versions.
LEMMA VersionLessIrreflexive ==
    ASSUME NEW v \in Seq(PartType)
    PROVE ~VersionLess(v, v)
<1>1. \A i \in 1..Len(v) : v[i] \in PartType /\ i <= Len(v)
    BY SMT
<1> QED
    BY <1>1, PartsAreOrdered DEF VersionLess

LEMMA VersionLessTransitive ==
    ASSUME NEW v \in Seq(PartType), NEW w \in Seq(PartType), NEW u \in Seq(PartType),
           VersionLess(v, w), VersionLess(w, u)
    PROVE VersionLess(v, u)
<1>1. PICK i \in 1..Len(w) : /\ i <= Len(v) + 1 /\ \A m \in 1..(i - 1) : v[m] = w[m]
                             /\ i <= Len(v) => PartLess(v[i], w[i])
    BY DEF VersionLess
<1>2. PICK j \in 1..Len(u) : /\ j <= Len(w) + 1 /\ \A m \in 1..(j - 1) : w[m] = u[m]
                             /\ j <= Len(w) => PartLess(w[j], u[j])
    BY DEF VersionLess
<1>3. Len(v) \in Nat /\ Len(w) \in Nat /\ Len(u) \in Nat
    BY SMT
<1>4. CASE i < j
  <2>1. i \in 1..Len(u) /\ i \in 1..(j - 1) /\ \A m \in 1..(i - 1) : m \in 1..(j - 1)
      BY <1>3, <1>4, SMT
  <2>2. w[i] = u[i] /\ \A m \in 1..(i - 1) : v[m] = u[m]
      BY <1>1, <1>2, <2>1
  <2> QED
      BY <1>1, <2>1, <2>2 DEF VersionLess
<1>5. CASE i = j
  <2>1. i \in 1..Len(u) /\ \A m \in 1..(i - 1) : v[m] = u[m]
      BY <1>1, <1>2, <1>5
  <2>2. ASSUME i <= Len(v)
        PROVE PartLess(v[i], u[i])
    <3>1. v[i] \in PartType /\ w[i] \in PartType /\ u[i] \in PartType /\ i <= Len(w)
        BY <1>3, <2>1, <2>2, SMT
    <3>2. PartLess(v[i], w[i]) /\ PartLess(w[i], u[i])
        BY <1>1, <1>2, <1>5, <2>2, <3>1
    <3> QED
        BY <3>1, <3>2, PartsAreOrdered
  <2> QED
      BY <1>1, <2>1, <2>2 DEF VersionLess
<1>6. CASE j < i
  <2>1. /\ j <= Len(v) /\ j <= Len(v) + 1 /\ j <= Len(w) /\ j \in 1..(i - 1)
        /\ \A m \in 1..(j - 1) : m \in 1..(i - 1)
      BY <1>1, <1>3, <1>6, SMT
  <2>2. v[j] = w[j] /\ PartLess(w[j], u[j]) /\ \A m \in 1..(j - 1) : v[m] = u[m]
      BY <1>1, <1>2, <2>1
  <2> QED
      BY <2>1, <2>2 DEF VersionLess
<1> QED
    BY <1>4, <1>5, <1>6, SMT

LEMMA VersionLessTotal ==
    ASSUME NEW v \in Seq(PartType), NEW w \in Seq(PartType), v # w
    PROVE VersionLess(v, w) \/ VersionLess(w, v)
<1> DEFINE T == {i \in Nat \ {0} : i > Len(v) \/ i > Len(w) \/ v[i] # w[i]}
<1>1. Len(v) \in Nat /\ Len(w) \in Nat
    BY SMT
<1>2. PICK i \in T : \A k \in T : i <= k
  <2>1. Len(v) + 1 \in T /\ T \subseteq Nat
      BY <1>1, SMT
  <2> QED
      BY <2>1, Least
<1>3. i \in Nat /\ i # 0 /\ (i > Len(v) \/ i > Len(w) \/ v[i] # w[i])
    OBVIOUS
<1>4. ASSUME NEW m \in 1..(i - 1)
      PROVE m <= Len(v) /\ m <= Len(w) /\ v[m] = w[m]
  <2>1. m \in Nat \ {0} /\ ~(i <= m)
      BY <1>3, SMT
  <2>2. m \notin T
      BY <1>2, <2>1
  <2>3. ~(m > Len(v)) /\ ~(m > Len(w)) /\ v[m] = w[m]
      BY <2>1, <2>2
  <2> QED
      BY <1>1, <2>1, <2>3, SMT
<1> HIDE DEF T
<1>5. i <= Len(v) + 1 /\ i <= Len(w) + 1
  <2>1. CASE i = 1
      BY <1>1, <2>1, SMT
  <2>2. CASE i # 1
    <3>1. i - 1 \in 1..(i - 1)
        BY <1>3, <2>2, SMT
    <3>2. i - 1 <= Len(v) /\ i - 1 <= Len(w)
        BY <1>4, <3>1
    <3> QED
        BY <1>1, <1>3, <3>2, SMT
  <2> QED
      BY <2>1, <2>2
<1>6. CASE i <= Len(v) /\ i <= Len(w)
  <2>1. i \in 1..Len(v) /\ i \in 1..Len(w) /\ v[i] \in PartType /\ w[i] \in PartType /\ v[i] # w[i]
      BY <1>1, <1>3, <1>6, SMT
  <2>2. PartLess(v[i], w[i]) \/ PartLess(w[i], v[i])
      BY <2>1, PartsAreOrdered
  <2> QED
      BY <1>4, <1>5, <2>1, <2>2 DEF VersionLess
<1>7. CASE ~(i <= Len(v)) /\ i <= Len(w)
  <2>1. i \in 1..Len(w)
      BY <1>1, <1>3, <1>7, SMT
  <2> QED
      BY <1>4, <1>5, <1>7, <2>1 DEF VersionLess
<1>8. CASE ~(i <= Len(w)) /\ i <= Len(v)
  <2>1. i \in 1..Len(v)
      BY <1>1, <1>3, <1>8, SMT
  <2> QED
      BY <1>4, <1>5, <1>8, <2>1 DEF VersionLess
<1>9. CASE ~(i <= Len(v)) /\ ~(i <= Len(w))
  <2>1. Len(v) = i - 1 /\ Len(w) = i - 1
      BY <1>1, <1>3, <1>5, <1>9, SMT
  <2>2. \A m \in 1..Len(v) : v[m] = w[m]
      BY <1>4, <2>1
  <2>3. Len(v) = Len(w)
      BY <2>1
  <2>4. v = w
      BY <2>2, <2>3, SMT
  <2> QED
      BY <2>4
<1> QED
    BY <1>6, <1>7, <1>8, <1>9


\* Identities are ordered by name and then by version; those that neither
\* comes before the other differ at most in the text of their version.
LEMMA IdsAreOrdered ==
    /\ \A x, y \in IdType :
          ~IdLess(x, y) /\ ~IdLess(y, x) <=> x.name = y.name /\ x.parts = y.parts
    /\ \A x, y, z \in IdType : IdLess(x, y) /\ IdLess(y, z) => IdLess(x, z)
<1>1. \A x \in IdType : x.name \in Nat /\ x.parts \in Seq(PartType)
    BY DEF IdType, PartType
<1>2. ASSUME NEW x \in IdType, NEW y \in IdType
      PROVE ~IdLess(x, y) /\ ~IdLess(y, x) <=> x.name = y.name /\ x.parts = y.parts
  <2>1. CASE x.name # y.name
      BY <1>1, <2>1, SMT DEF IdLess
  <2>2. CASE x.name = y.name
    <3>1. ~(x.name < y.name) /\ ~(y.name < x.name)
        BY <1>1, <2>2, SMT
    <3>2. CASE x.parts = y.parts
        BY <1>1, <2>2, <3>1, <3>2, VersionLessIrreflexive DEF IdLess
    <3>3. CASE x.parts # y.parts
        BY <1>1, <2>2, <3>3, VersionLessTotal DEF IdLess
    <3> QED
        BY <3>2, <3>3
  <2> QED
      BY <2>1, <2>2
<1>3. ASSUME NEW x \in IdType, NEW y \in IdType, NEW z \in IdType, IdLess(x, y), IdLess(y, z)
      PROVE IdLess(x, z)
  <2>1. CASE x.name = y.name /\ y.name = z.name
    <3>1. ~(x.name < y.name) /\ ~(y.name < z.name)
        BY <1>1, <2>1, SMT
    <3> QED
        BY <1>1, <1>3, <2>1, <3>1, VersionLessTransitive DEF IdLess
  <2>2. CASE ~(x.name = y.name /\ y.name = z.name)
      BY <1>1, <1>3, <2>2, SMT DEF IdLess
  <2> QED
      BY <2>1, <2>2
<1> QED
    BY <1>2, <1>3

\* A strict total order of a set, as a set of pairs.
TotalOrder(S, R) ==
    /\ \A i \in S : <<i, i>> \notin R
    /\ \A i, j \in S : i # j => <<i, j>> \in R \/ <<j, i>> \in R
    /\ \A i, j, k \in S : <<i, j>> \in R /\ <<j, k>> \in R => <<i, k>> \in R

\* The elements that come before i.
Below(S, R, i) == {j \in S : <<j, i>> \in R}

\* Every place is taken, by elements in order.
Ranked(S, R) ==
    /\ \A i, j \in S : Cardinality(Below(S, R, i)) < Cardinality(Below(S, R, j)) => <<i, j>> \in R
    /\ \A k \in 1..Cardinality(S) : \E i \in S : Cardinality(Below(S, R, i)) = k - 1

\* The number of elements before it is the place of an element in a finite
\* total order.
LEMMA Ranking ==
    ASSUME NEW S, NEW R, IsFiniteSet(S), TotalOrder(S, R)
    PROVE Ranked(S, R)
<1> DEFINE n == Cardinality(S)
           rank == [i \in S |-> Cardinality(Below(S, R, i))]
<1>1. n \in Nat
    BY FS_CardinalityType
<1>2. ASSUME NEW i \in S
      PROVE IsFiniteSet(Below(S, R, i)) /\ rank[i] \in Nat /\ rank[i] <= n /\ rank[i] # n
  <2>1. Below(S, R, i) \in SUBSET S /\ i \notin Below(S, R, i)
      BY DEF Below, TotalOrder
  <2>2. IsFiniteSet(Below(S, R, i)) /\ rank[i] <= n /\ rank[i] # n
      BY <2>1, FS_Subset
  <2> QED
      BY <2>2, FS_CardinalityType
<1>3. ASSUME NEW i \in S, NEW j \in S, <<i, j>> \in R
      PROVE rank[i] < rank[j]
  <2>1. Below(S, R, i) \in SUBSET Below(S, R, j)
      BY <1>3 DEF Below, TotalOrder
  <2>2. i \in Below(S, R, j) /\ i \notin Below(S, R, i)
      BY <1>3 DEF Below, TotalOrder
  <2>3. rank[i] <= rank[j] /\ rank[j] # rank[i]
      BY <1>2, <2>1, <2>2, FS_Subset
  <2>4. rank[i] \in Nat /\ rank[j] \in Nat
      BY <1>2
  <2> HIDE DEF rank
  <2> QED
      BY <2>3, <2>4, SMT
<1>4. \A i, j \in S : rank[i] < rank[j] => <<i, j>> \in R
  <2> SUFFICES ASSUME NEW i \in S, NEW j \in S, rank[i] < rank[j]
               PROVE <<i, j>> \in R
      OBVIOUS
  <2>1. rank[i] \in Nat /\ rank[j] \in Nat
      BY <1>2
  <2> HIDE DEF rank
  <2>2. i # j /\ ~(rank[j] < rank[i])
      BY <2>1, SMT
  <2> QED
      BY <1>3, <2>2 DEF TotalOrder
<1>5. rank \in Injection(S, 0..(n - 1))
  <2>1. \A i \in S : rank[i] \in 0..(n - 1)
    <3> HIDE DEF rank, n
    <3> QED
        BY <1>1, <1>2, SMT
  <2>2. ASSUME NEW i \in S, NEW j \in S, rank[i] = rank[j]
        PROVE i = j
    <3>1. rank[i] \in Nat /\ rank[j] \in Nat
        BY <1>2
    <3> HIDE DEF rank
    <3>2. ~(rank[i] < rank[j]) /\ ~(rank[j] < rank[i])
        BY <2>2, <3>1, SMT
    <3> QED
        BY <1>3, <3>2 DEF TotalOrder
  <2>3. rank = [i \in S |-> rank[i]]
      OBVIOUS
  <2>4. rank \in [S -> 0..(n - 1)]
      BY <2>1, <2>3
  <2> HIDE DEF rank, n
  <2> QED
      BY <2>2, <2>4 DEF Injection, IsInjective
<1>6. IsFiniteSet(0..(n - 1)) /\ Cardinality(0..(n - 1)) = n
  <2> HIDE DEF n
  <2>1. 0 \in Int /\ n - 1 \in Int
      BY <1>1, SMT
  <2>2. IsFiniteSet(0..(n - 1)) /\ Cardinality(0..(n - 1)) = IF 0 > n - 1 THEN 0 ELSE n - 1 - 0 + 1
      BY <2>1, FS_Interval
  <2> QED
      BY <1>1, <2>2, SMT
<1>7. rank \in Surjection(S, 0..(n - 1))
  <2> HIDE DEF rank
  <2> QED
      BY <1>5, <1>6, FS_Injection
<1>8. ASSUME NEW k \in 1..n
      PROVE \E i \in S : rank[i] = k - 1
  <2>1. k - 1 \in 0..(n - 1)
      BY <1>1, <1>8, SMT
  <2> HIDE DEF rank
  <2> QED
      BY <1>7, <2>1 DEF Surjection
<1> QED
    BY <1>4, <1>8 DEF Ranked

\* What the sort of compatible_versions compares: the identities, and the
\* places in the registry of those it calls equal.
Sorted(registry) ==
    {p \in (DOMAIN registry) \X (DOMAIN registry) :
        \/ IdLess(registry[p[1]].id, registry[p[2]].id)
        \/ ~IdLess(registry[p[2]].id, registry[p[1]].id) /\ p[1] < p[2]}

\* The sort orders every set of places.
LEMMA SortIsTotal ==
    ASSUME NEW registry \in Seq(DeclarationType), NEW S, S \subseteq DOMAIN registry
    PROVE TotalOrder(S, Sorted(registry))
<1> DEFINE Id(i) == registry[i].id
           D == DOMAIN registry
           Same(i, j) == Id(i).name = Id(j).name /\ Id(i).parts = Id(j).parts
<1>1. \A i \in D : i \in Nat /\ Id(i) \in IdType
  <2>1. \A i \in D : i \in Nat /\ registry[i] \in DeclarationType
      BY SMT
  <2> QED
      BY <2>1 DEF DeclarationType
<1>2. \A i, j \in D : <<i, j>> \in Sorted(registry)
                         <=> IdLess(Id(i), Id(j)) \/ (~IdLess(Id(j), Id(i)) /\ i < j)
    BY SMT DEF Sorted
<1> HIDE DEF Id, D
<1>3. \A i, j \in D : ~IdLess(Id(i), Id(j)) /\ ~IdLess(Id(j), Id(i)) <=> Same(i, j)
    BY <1>1, IdsAreOrdered
<1>4. \A i, j, k \in D : IdLess(Id(i), Id(j)) /\ IdLess(Id(j), Id(k)) => IdLess(Id(i), Id(k))
    BY <1>1, IdsAreOrdered
<1>5. \A i, j, k \in D : Same(i, j) /\ Same(j, k) => Same(i, k)
    OBVIOUS
<1>6. \A i, j, k \in D : Same(i, j) => /\ IdLess(Id(i), Id(k)) <=> IdLess(Id(j), Id(k))
                                       /\ IdLess(Id(k), Id(i)) <=> IdLess(Id(k), Id(j))
    BY DEF IdLess
<1>7. \A i \in D : Same(i, i)
    OBVIOUS
<1> HIDE DEF Same
<1>8. \A i \in D : <<i, i>> \notin Sorted(registry)
  <2>1. \A i \in D : ~(i < i)
      BY <1>1, SMT
  <2> QED
      BY <1>2, <1>3, <1>7, <2>1
<1>9. \A i, j \in D : i # j => <<i, j>> \in Sorted(registry) \/ <<j, i>> \in Sorted(registry)
  <2>1. \A i, j \in D : i # j => i < j \/ j < i
      BY <1>1, SMT
  <2> QED
      BY <1>2, <2>1
<1>10. ASSUME NEW i \in D, NEW j \in D, NEW k \in D,
              <<i, j>> \in Sorted(registry), <<j, k>> \in Sorted(registry)
       PROVE <<i, k>> \in Sorted(registry)
  <2>1. i < j /\ j < k => i < k
      BY <1>1, SMT
  <2>2. CASE IdLess(Id(i), Id(j))
    <3>1. IdLess(Id(j), Id(k)) \/ Same(j, k)
        BY <1>2, <1>3, <1>10
    <3> QED
        BY <1>2, <1>4, <1>6, <2>2, <3>1
  <2>3. CASE ~IdLess(Id(i), Id(j))
    <3>1. Same(i, j) /\ i < j
        BY <1>2, <1>3, <1>10, <2>3
    <3>2. CASE IdLess(Id(j), Id(k))
        BY <1>2, <1>6, <3>1, <3>2
    <3>3. CASE ~IdLess(Id(j), Id(k))
      <4>1. Same(j, k) /\ j < k
          BY <1>2, <1>3, <1>10, <3>3
      <4>2. Same(i, k) /\ i < k
          BY <1>5, <2>1, <3>1, <4>1
      <4> QED
          BY <1>2, <1>3, <4>2
    <3> QED
        BY <3>2, <3>3
  <2> QED
      BY <2>2, <2>3
<1> QED
    BY <1>8, <1>9, <1>10 DEF TotalOrder, D


\* The registry after each registration.
Registering(f, declarations) ==
    /\ f \in [0..Len(declarations) -> Seq(DeclarationType)] /\ f[0] = <<>>
    /\ \A n \in 1..Len(declarations) : f[n] = Register(f[n - 1], declarations[n])

\* A registry is what its registrations make one after another.
LEMMA RegistryTurns ==
    ASSUME NEW declarations \in Seq(DeclarationType)
    PROVE \E f : Registering(f, declarations) /\ Registry(declarations) = f[Len(declarations)]
<1> DEFINE N == Len(declarations)
           T == Seq(DeclarationType)
           step == [k \in Nat |-> [s \in T |-> IF k \in 1..N THEN Register(s, declarations[k]) ELSE s]]
           Recursion(f) ==
               f = [n \in 0..N |-> IF n = 0 THEN <<>> ELSE Register(f[n - 1], declarations[n])]
<1>1. N \in Nat /\ declarations \in [1..N -> DeclarationType] /\ <<>> \in T
    BY SMT
<1>2. Iterable(T, <<>>, step, N)
  <2>1. \A s \in T, d \in DeclarationType : Append(s, d) \in T
      BY SMT
  <2>2. \A s \in T, d \in DeclarationType : Register(s, d) \in T
      BY <2>1 DEF Register
  <2>3. step \in [Nat -> [T -> T]]
      BY <1>1, <2>2
  <2> QED
      BY <1>1, <2>3 DEF Iterable
<1>3. \A k \in 1..N : k \in Nat /\ k - 1 \in 0..N /\ k \in 0..N /\ k # 0
    BY <1>1, SMT
<1>4. \A k \in 1..N : \A s \in T : step[k][s] = Register(s, declarations[k])
    BY <1>3
<1>5. Registry(declarations) = (CHOOSE f : Recursion(f))[N]
    BY DEF Registry, InOrder, Turns
<1> HIDE DEF step
<1>6. PICK g : Iteration(g, T, <<>>, step, N)
    BY <1>2, Iterates
<1>7. /\ g \in [0..N -> T] /\ g[0] = <<>>
      /\ \A n \in 1..N : g[n] = Register(g[n - 1], declarations[n])
    BY <1>3, <1>4, <1>6 DEF Iteration
<1>8. \A n \in 0..N : n # 0 => n \in 1..N
    BY <1>1, SMT
<1>9. Recursion(g)
    BY <1>7, <1>8
<1>10. ASSUME NEW f, Recursion(f)
       PROVE f = g
  <2> DEFINE P == {n \in 0..N : f[n] = g[n]}
  <2>1. 0 \in P
      BY <1>1, <1>7, <1>10, SMT
  <2>2. ASSUME NEW n \in 1..N, n - 1 \in P
        PROVE n \in P
      BY <1>3, <1>7, <1>10, <2>2
  <2>3. \A n \in 0..N : n \in P
      BY <1>1, <2>1, <2>2, Induction
  <2>4. f = [n \in 0..N |-> f[n]] /\ g = [n \in 0..N |-> g[n]]
      BY <1>7, <1>10
  <2> QED
      BY <2>3, <2>4
<1> HIDE DEF Recursion
<1>11. Recursion(CHOOSE f : Recursion(f))
    BY <1>9
<1>12. Registry(declarations) = g[N]
    BY <1>5, <1>10, <1>11
<1> QED
    BY <1>7, <1>12 DEF Registering

\* A registry of some declarations names no identity twice.
RegistryOf(registry, declarations) ==
    /\ registry \in Seq(DeclarationType)
    /\ \A i, j \in DOMAIN registry : registry[i].id = registry[j].id => i = j
    /\ \A i \in DOMAIN registry : \E k \in DOMAIN declarations : registry[i] = declarations[k]

\* A registration keeps it so.
LEMMA RegisterKeeps ==
    ASSUME NEW declarations, NEW registry, NEW k \in DOMAIN declarations,
           declarations[k] \in DeclarationType, RegistryOf(registry, declarations)
    PROVE RegistryOf(Register(registry, declarations[k]), declarations)
<1> DEFINE d == declarations[k]
           more == Append(registry, d)
<1>1. CASE \E i \in DOMAIN registry : registry[i].id = d.id
    BY <1>1 DEF Register
<1>2. CASE \A i \in DOMAIN registry : registry[i].id # d.id
  <2>1. registry \in Seq(DeclarationType) /\ d \in DeclarationType
      BY DEF RegistryOf
  <2> HIDE DEF d
  <2>2. /\ more \in Seq(DeclarationType) /\ DOMAIN more = DOMAIN registry \cup {Len(registry) + 1}
        /\ more[Len(registry) + 1] = d /\ \A i \in DOMAIN registry : more[i] = registry[i]
      BY <2>1, SMT
  <2>3. Register(registry, d) = more
      BY <1>2 DEF Register
  <2> HIDE DEF more
  <2>4. \A i, j \in DOMAIN more : more[i].id = more[j].id => i = j
      BY <1>2, <2>2 DEF RegistryOf
  <2>5. ASSUME NEW i \in DOMAIN more
        PROVE \E n \in DOMAIN declarations : more[i] = declarations[n]
    <3>1. CASE i \in DOMAIN registry
        BY <2>2, <3>1 DEF RegistryOf
    <3>2. CASE i = Len(registry) + 1
        BY <2>2, <3>2 DEF d
    <3> QED
        BY <2>2, <3>1, <3>2
  <2>6. RegistryOf(more, declarations)
      BY <2>2, <2>4, <2>5 DEF RegistryOf
  <2> QED
      BY <2>3, <2>6 DEF d
<1> QED
    BY <1>1, <1>2

\* What register and register_compiled make of the declarations of a build.
LEMMA RegistryKeeps ==
    ASSUME NEW declarations \in Seq(DeclarationType)
    PROVE RegistryOf(Registry(declarations), declarations)
<1> DEFINE N == Len(declarations)
<1>1. N \in Nat /\ DOMAIN declarations = 1..N /\ \A k \in 1..N : declarations[k] \in DeclarationType
    BY SMT
<1>2. PICK f : Registering(f, declarations) /\ Registry(declarations) = f[N]
    BY RegistryTurns
<1> DEFINE P == {n \in 0..N : RegistryOf(f[n], declarations)}
<1>3. 0 \in P
  <2>1. 0 \in 0..N
      BY <1>1, SMT
  <2>2. <<>> \in Seq(DeclarationType) /\ DOMAIN <<>> = {}
      BY SMT
  <2>3. RegistryOf(<<>>, declarations)
      BY <2>2 DEF RegistryOf
  <2> QED
      BY <1>2, <2>1, <2>3 DEF Registering
<1>4. ASSUME NEW n \in 1..N, n - 1 \in P
      PROVE n \in P
  <2>1. n \in 0..N
      BY <1>1, SMT
  <2>2. RegistryOf(Register(f[n - 1], declarations[n]), declarations)
      BY <1>1, <1>4, RegisterKeeps
  <2> QED
      BY <1>2, <2>1, <2>2 DEF Registering
<1>5. N \in P
  <2>1. N \in 0..N
      BY <1>1, SMT
  <2> HIDE DEF P
  <2> QED
      BY <1>1, <1>3, <1>4, <2>1, Induction
<1> QED
    BY <1>2, <1>5

\* Where in the registry the listed identities stand.
Places(place, ids, registry, signals, mode) ==
    /\ place \in [DOMAIN ids -> DOMAIN registry]
    /\ \A k \in DOMAIN ids : ids[k] = registry[place[k]].id
    /\ \A k \in DOMAIN ids : Compatible(registry[place[k]], signals, mode)
    /\ \A i, j \in DOMAIN ids : i < j => <<place[i], place[j]>> \in Sorted(registry)

\* compatible_versions lists compatible declarations in the order of its sort.
LEMMA VersionsAreSorted ==
    ASSUME NEW registry \in Seq(DeclarationType), NEW signals, NEW mode
    PROVE LET ids == CompatibleVersions(registry, signals, mode)
          IN DOMAIN ids \subseteq Nat /\ \E place : Places(place, ids, registry, signals, mode)
<1> DEFINE id(i) == registry[i].id
           matches == {i \in DOMAIN registry : Compatible(registry[i], signals, mode)}
           before(i, j) == IdLess(id(i), id(j)) \/ (~IdLess(id(j), id(i)) /\ i < j)
           N == Cardinality(matches)
           choice(k) == CHOOSE i \in matches : Cardinality({j \in matches : before(j, i)}) = k - 1
           order == [k \in 1..N |-> choice(k)]
           listed == [k \in DOMAIN order |-> id(order[k])]
           R == Sorted(registry)
<1>1. CompatibleVersions(registry, signals, mode) = listed
    BY DEF CompatibleVersions
<1>2. matches \subseteq DOMAIN registry /\ \A i \in matches : Compatible(registry[i], signals, mode)
    OBVIOUS
<1>3. IsFiniteSet(matches)
  <2>1. DOMAIN registry = 1..Len(registry) /\ 1 \in Int /\ Len(registry) \in Int
      BY SMT
  <2>2. IsFiniteSet(DOMAIN registry)
      BY <2>1, FS_Interval
  <2> QED
      BY <1>2, <2>2, FS_Subset
<1>4. N \in Nat
    BY <1>3, FS_CardinalityType
<1>5. \A i, j \in DOMAIN registry : <<i, j>> \in R <=> before(i, j)
    BY SMT DEF Sorted
<1> HIDE DEF before, matches, R
<1>6. TotalOrder(matches, R)
    BY <1>2, SortIsTotal DEF R
<1>ranked. Ranked(matches, R)
    BY <1>3, <1>6, Ranking
<1>7. \A i \in matches : {j \in matches : before(j, i)} = Below(matches, R, i)
    BY <1>2, <1>5 DEF Below
<1>8. ASSUME NEW k \in 1..N
      PROVE order[k] \in matches /\ Cardinality(Below(matches, R, order[k])) = k - 1
  <2>1. \E i \in matches : Cardinality(Below(matches, R, i)) = k - 1
      BY <1>ranked DEF Ranked
  <2>2. \E i \in matches : Cardinality({j \in matches : before(j, i)}) = k - 1
      BY <1>7, <2>1
  <2>3. choice(k) \in matches /\ Cardinality({j \in matches : before(j, choice(k))}) = k - 1
      BY <2>2
  <2> HIDE DEF choice
  <2>4. order[k] = choice(k)
      OBVIOUS
  <2> HIDE DEF order
  <2> QED
      BY <1>7, <2>3, <2>4
<1> HIDE DEF choice
<1>9. DOMAIN order = 1..N /\ order = [k \in 1..N |-> order[k]]
    OBVIOUS
<1> HIDE DEF order
<1>listed. DOMAIN listed = 1..N /\ \A k \in 1..N : listed[k] = id(order[k])
    BY <1>9
<1> HIDE DEF listed
<1>10. \A i, j \in 1..N : i < j => <<order[i], order[j]>> \in R
  <2> SUFFICES ASSUME NEW i \in 1..N, NEW j \in 1..N, i < j
               PROVE <<order[i], order[j]>> \in R
      OBVIOUS
  <2>1. i - 1 < j - 1
      BY <1>4, SMT
  <2>2. Cardinality(Below(matches, R, order[i])) < Cardinality(Below(matches, R, order[j]))
      BY <1>8, <2>1
  <2> QED
      BY <1>8, <1>ranked, <2>2 DEF Ranked
<1>11. order \in [1..N -> DOMAIN registry]
    BY <1>2, <1>8, <1>9
<1>12. Places(order, listed, registry, signals, mode)
    BY <1>2, <1>8, <1>10, <1>11, <1>listed DEF Places, R
<1>13. \A k \in 1..N : k \in Nat
    BY <1>4, SMT
<1> QED
    BY <1>1, <1>12, <1>13, <1>listed


\* A later release of a parser has a higher version, as compare_versions
\* reads it, and no two texts of one version are declared.
ReleasesFollowVersions ==
    \A b \in DOMAIN Builds :
        \A p, q \in {declaration.id : declaration \in Range(Builds[b])} :
            p.name = q.name /\ p # q =>
                /\ p.parts # q.parts
                /\ VersionLess(p.parts, q.parts) => Release[p.version] < Release[q.version]

\* The releases of a parser stand in order.
InReleaseOrder(ids) ==
    \A i, j \in DOMAIN ids :
        i < j /\ ids[i].name = ids[j].name => Release[ids[i].version] < Release[ids[j].version]

\* Whatever order a build registers its parsers in.
LEMMA ListedInReleaseOrder ==
    ASSUME ReleasesFollowVersions, NEW b \in DOMAIN Builds, NEW declarations \in Seq(DeclarationType),
           \A k \in DOMAIN declarations : declarations[k] \in Range(Builds[b]), NEW signals, NEW mode
    PROVE InReleaseOrder(CompatibleVersions(Registry(declarations), signals, mode))
<1> DEFINE registry == Registry(declarations)
           ids == CompatibleVersions(registry, signals, mode)
<1>1. RegistryOf(registry, declarations)
    BY RegistryKeeps
<1> HIDE DEF registry
<1>2. registry \in Seq(DeclarationType)
    BY <1>1 DEF RegistryOf
<1>3. DOMAIN ids \subseteq Nat /\ \E place : Places(place, ids, registry, signals, mode)
    BY <1>2, VersionsAreSorted
<1> HIDE DEF ids
<1>4. PICK place : Places(place, ids, registry, signals, mode)
    BY <1>3
<1>5. \A k \in DOMAIN ids : /\ place[k] \in DOMAIN registry /\ ids[k] = registry[place[k]].id
                            /\ ids[k] \in {declaration.id : declaration \in Range(Builds[b])}
                            /\ ids[k] \in IdType
  <2>1. \A i \in DOMAIN registry : registry[i] \in DeclarationType
      BY <1>2, SMT
  <2>2. \A i \in DOMAIN registry : registry[i].id \in IdType
      BY <2>1 DEF DeclarationType
  <2>3. \A i \in DOMAIN registry : registry[i] \in Range(Builds[b])
      BY <1>1 DEF RegistryOf
  <2>4. \A k \in DOMAIN ids : place[k] \in DOMAIN registry /\ ids[k] = registry[place[k]].id
      BY <1>4 DEF Places
  <2> QED
      BY <2>2, <2>3, <2>4
<1>6. ASSUME NEW i \in DOMAIN ids, NEW j \in DOMAIN ids, i < j, ids[i].name = ids[j].name
      PROVE Release[ids[i].version] < Release[ids[j].version]
  <2>1. <<place[i], place[j]>> \in Sorted(registry)
      BY <1>4, <1>6 DEF Places
  <2>2. <<place[i], place[i]>> \notin Sorted(registry)
      BY <1>2, <1>5, SortIsTotal DEF TotalOrder
  <2>3. ids[i] # ids[j]
    <3>1. place[i] # place[j]
        BY <2>1, <2>2
    <3>2. registry[place[i]].id # registry[place[j]].id
        BY <1>1, <1>5, <3>1 DEF RegistryOf
    <3> QED
        BY <1>5, <3>2
  <2>4. ids[i].parts # ids[j].parts
      BY <1>5, <1>6, <2>3 DEF ReleasesFollowVersions
  <2>5. ~IdLess(ids[j], ids[i])
    <3>1. IdLess(ids[i], ids[j]) \/ ~IdLess(ids[j], ids[i])
        BY <1>5, <2>1, SMT DEF Sorted
    <3>2. ~IdLess(ids[i], ids[i])
        BY <1>5, IdsAreOrdered
    <3> QED
        BY <1>5, <3>1, <3>2, IdsAreOrdered
  <2>6. IdLess(ids[i], ids[j])
      BY <1>5, <2>4, <2>5, IdsAreOrdered
  <2>7. ~(ids[i].name < ids[j].name)
    <3>1. ids[i].name \in Nat
        BY <1>5 DEF IdType
    <3> QED
        BY <1>6, <3>1, SMT
  <2>8. VersionLess(ids[i].parts, ids[j].parts)
      BY <2>6, <2>7 DEF IdLess
  <2> QED
      BY <1>5, <1>6, <2>3, <2>8 DEF ReleasesFollowVersions
<1> QED
    BY <1>6 DEF InReleaseOrder, ids, registry

\* Where a later release has a higher version, compatible_versions
\* (parser_registry.rs) lists the releases of every parser oldest first,
\* whatever order a build registers them in.
THEOREM ReleasesStandInOrder ==
    ASSUME ReleasesFollowVersions
    PROVE Spec => []VersionsAreOrdered
<1>1. ASSUME NEW b \in DOMAIN Builds, NEW a \in Archives,
             NEW order \in Bijection(DOMAIN Builds[b], DOMAIN Builds[b])
      PROVE InReleaseOrder(CompatibleVersions(
                Registry([i \in DOMAIN Builds[b] |-> Builds[b][order[i]]]), Inventory[a].signals, Mode))
  <2> DEFINE declarations == Builds[b]
             shuffled == [i \in DOMAIN declarations |-> declarations[order[i]]]
  <2>1. declarations \in Seq(DeclarationType)
      BY DeclarationsAreTyped
  <2>2. order \in [DOMAIN declarations -> DOMAIN declarations]
      BY DEF Bijection, Injection
  <2> HIDE DEF declarations
  <2>3. shuffled \in Seq(DeclarationType)
      BY <2>1, <2>2, SMT
  <2>4. \A k \in DOMAIN shuffled : shuffled[k] \in Range(declarations)
      BY <2>2 DEF Range
  <2> HIDE DEF shuffled
  <2>5. InReleaseOrder(CompatibleVersions(Registry(shuffled), Inventory[a].signals, Mode))
      BY <2>3, <2>4, ListedInReleaseOrder DEF declarations
  <2> QED
      BY <2>5 DEF shuffled, declarations
<1>2. VersionsAreOrdered
    BY <1>1 DEF VersionsAreOrdered, InReleaseOrder
<1> QED
    BY <1>2, PTL

\* All the parsers of a build that can read an archive are releases of one.
OneParserPerFile ==
    \A b \in DOMAIN Builds, a \in Archives :
        \A i, j \in DOMAIN Compatibles[b][a] : Compatibles[b][a][i].name = Compatibles[b][a][j].name

-----------------------------------------------------------------------------
(* What is read *)

\* extract_entries (archive.rs) stays within the limits for every file,
\* succeeds on exactly the safe files that can be read, and leaves nothing of
\* the others.
THEOREM ExtractionStaysBounded == Spec => []ExtractionIsBounded
<1>1. ASSUME NEW zip \in Files
      PROVE LET done == Extracted(zip, Inspected(zip))
            IN /\ done.total <= MaxDecompressed
               /\ ~done.failed <=> Safe(zip) /\ Readable(zip)
               /\ done.staged = IF done.failed THEN <<>> ELSE Without(zip, Directories(zip))
    BY FilesAreZips, ExtractionIsTheRules
<1>2. ExtractionIsBounded
    BY <1>1 DEF ExtractionIsBounded, Directories
<1> QED
    BY <1>2, PTL
=============================================================================
