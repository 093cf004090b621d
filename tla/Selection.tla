------------------------------ MODULE Selection ------------------------------
(***************************************************************************)
(* What a loop that keeps some elements of a slice is left with.           *)
(***************************************************************************)
EXTENDS Integers, Sequences

(* The elements of the sequence s that are in the set S, in their order:    *)
(* SelectSeq with a recursive function, which can be proved about.          *)
Only(s, S) ==
  LET only[i \in 0 .. Len(s)] ==
        IF i = 0 THEN <<>>
        ELSE IF s[i] \in S THEN Append(only[i - 1], s[i]) ELSE only[i - 1]
  IN  only[Len(s)]
=============================================================================
