----------------------------- MODULE Subsequences -----------------------------
(***************************************************************************)
(* Subsequences chosen by a set.  SelectSeq chooses by a test; its          *)
(* definition is closed to the prover, and nothing could be proved of what  *)
(* it returns.                                                              *)
(***************************************************************************)
EXTENDS Naturals, Sequences

(* The elements of s that are in S, in the order of s. *)
Only(s, S) ==
  LET first[k \in 0..Len(s)] ==
        IF k = 0 THEN <<>>
        ELSE IF s[k] \in S THEN Append(first[k - 1], s[k]) ELSE first[k - 1]
  IN first[Len(s)]
===============================================================================
