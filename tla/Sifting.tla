------------------------------- MODULE Sifting -------------------------------
(***************************************************************************)
(* Filtering of sequences, as the code's loops over parts and blocks do    *)
(* it.  Sift is SelectSeq with a set in place of a predicate, and written  *)
(* as a function so that proofs can speak of it.                           *)
(***************************************************************************)
EXTENDS Naturals, Sequences

\* The elements of s that are in S, in the order they have in s.
Sift(s, S) ==
    LET sifted[n \in 0 .. Len(s)] ==
            IF n = 0 THEN <<>>
            ELSE IF s[n] \in S THEN Append(sifted[n - 1], s[n])
            ELSE sifted[n - 1]
    IN  sifted[Len(s)]
=============================================================================
