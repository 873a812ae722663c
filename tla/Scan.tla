-------------------------------- MODULE Scan --------------------------------
(***************************************************************************)
(* FoldLeft over long sequences.  A fold goes by halves, the left half     *)
(* before the right one, so that it nests only as deep as the logarithm of *)
(* the length: a burst is some hundreds of bits.                           *)
(***************************************************************************)
EXTENDS Integers, Sequences

Scan(Op(_, _), base, seq) ==
  LET RECURSIVE Over(_, _, _)
      Over(acc, lo, hi) ==
        IF lo > hi THEN acc
        ELSE IF lo = hi THEN Op(acc, seq[lo])
        ELSE LET mid == (lo + hi) \div 2 IN
             CHOOSE r \in {Over(left, mid + 1, hi) : left \in {Over(acc, lo, mid)}} : TRUE
  IN Over(base, 1, Len(seq))

(* The states a fold goes through, without the first. *)
Steps(Op(_, _), base, seq) ==
  LET Grow(states, x) ==
        Append(states, Op(IF states = <<>> THEN base ELSE states[Len(states)], x))
  IN Scan(Grow, <<>>, seq)

Numbers(n) == [i \in 1..n |-> i]
=============================================================================
