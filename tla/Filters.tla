------------------------------ MODULE Filters ------------------------------
(***************************************************************************)
(* A sequence without the members that are not wanted.  Sequences has this *)
(* for a test (SelectSeq); here the test is a set and the definition a     *)
(* recursive function, so that what it returns can be proved.              *)
(***************************************************************************)
EXTENDS Integers, Sequences

\* The members of s that are in T, in their order.
Keep(s, T) ==
  LET kept[n \in 0..Len(s)] ==
        IF n = 0 THEN <<>>
        ELSE IF s[n] \in T THEN Append(kept[n - 1], s[n]) ELSE kept[n - 1]
  IN  kept[Len(s)]
=============================================================================
