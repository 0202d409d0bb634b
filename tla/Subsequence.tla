----------------------------- MODULE Subsequence -----------------------------
(***************************************************************************)
(* The elements of a sequence at some of its positions, in their order: a  *)
(* SelectSeq that goes by the position and not by the element, written as  *)
(* a recursive function so that its facts can be proved.                   *)
(***************************************************************************)
EXTENDS Naturals, Sequences

(* What is taken from the first n elements of s, for every n. *)
Taken(s, I) ==
  LET taken[n \in 0..Len(s)] ==
        IF n = 0 THEN <<>>
        ELSE IF n \in I THEN Append(taken[n - 1], s[n])
        ELSE taken[n - 1]
  IN  taken

Pick(s, I) == Taken(s, I)[Len(s)]
==============================================================================
