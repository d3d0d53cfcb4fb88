------------------------------ MODULE Selections ------------------------------
(***************************************************************************)
(* The elements of a sequence at some of its positions, as a function on   *)
(* prefixes: SelectSeq in a form that proofs can unfold.                   *)
(***************************************************************************)
EXTENDS Integers, Sequences

(* The elements of s at the positions in at, in their order.               *)
Those(s, at) ==
  LET upto[n \in 0 .. Len(s)] ==
        IF n = 0 THEN << >>
        ELSE IF n \in at THEN Append(upto[n - 1], s[n]) ELSE upto[n - 1]
  IN  upto[Len(s)]
=============================================================================
