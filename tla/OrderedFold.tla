----------------------------- MODULE OrderedFold -----------------------------
(***************************************************************************)
(* A loop over a sequence.                                                 *)
(***************************************************************************)
EXTENDS Naturals, Sequences, Functions

\* What op has made of base after each number of elements of seq.
Turns(op(_, _), base, seq) ==
    LET done[n \in 0..Len(seq)] == IF n = 0 THEN base ELSE op(done[n - 1], seq[n])
    IN done

\* What op makes of base when it takes the elements of seq first to last.
InOrder(op(_, _), base, seq) == Turns(op, base, seq)[Len(seq)]

\* The elements of seq that are not in S, in order.
Without(seq, S) ==
    InOrder(LAMBDA kept, element : IF element \in S THEN kept ELSE Append(kept, element), <<>>, seq)

\* The sum of a sequence of numbers.
Total(sizes) == InOrder(LAMBDA sum, size : sum + size, 0, sizes)
=============================================================================
