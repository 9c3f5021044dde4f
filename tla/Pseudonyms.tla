----------------------------- MODULE Pseudonyms -----------------------------
(***************************************************************************)
(* What masking promises, without requests, indices, modes or a clock: a   *)
(* replacement is coined for one value and never for another, and every    *)
(* conversation remembers some of what was coined until it is dropped      *)
(* whole.  It is what makes an answer readable again: expanding a          *)
(* replacement can give its one original or nothing.                       *)
(***************************************************************************)
CONSTANTS Sessions, Replacements, Values

VARIABLES
  coined,      \* the entries made so far
  remembered   \* the entries each session can expand

Names == [masked: Replacements, original: Values]

Init ==
  /\ coined = {}
  /\ remembered = [s \in Sessions |-> {}]

\* A replacement nothing stands behind yet is given to a value.
Coin(e) ==
  /\ e \in Names
  /\ \A c \in coined : c.masked # e.masked
  /\ coined' = coined \union {e}
  /\ UNCHANGED remembered

\* The sessions of D are dropped and session s learns E.
Remember(s, E, D) ==
  /\ remembered' = [t \in Sessions |->
       (IF t \in D THEN {} ELSE remembered[t]) \union (IF t = s THEN E ELSE {})]
  /\ UNCHANGED coined

Drop(D) ==
  /\ remembered' = [t \in Sessions |-> IF t \in D THEN {} ELSE remembered[t]]
  /\ UNCHANGED coined

\* The books live in memory: a new process starts with none.
StartOver ==
  /\ coined' = {}
  /\ remembered' = [s \in Sessions |-> {}]

Next ==
  \/ \E e \in coined' : Coin(e)
  \/ \E s \in Sessions, E \in SUBSET coined, D \in SUBSET Sessions : Remember(s, E, D)
  \/ \E D \in SUBSET Sessions : Drop(D)
  \/ StartOver

Spec == Init /\ [][Next]_<<coined, remembered>>
=============================================================================
