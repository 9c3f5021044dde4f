------------------------------- MODULE MCScan -------------------------------
(***************************************************************************)
(* A catalogue for model checking: two grouped patterns of equal score, a  *)
(* refined one, an ordinary plain one with the highest score and a plain   *)
(* credential with the lowest.                                             *)
(***************************************************************************)
EXTENDS Scan, TLC

Entry(kind, secret, score, noisy) ==
  [kind |-> kind, on |-> TRUE, secret |-> secret, score |-> score, noisy |-> noisy]

MCCatalogue ==
  <<Entry("refined", FALSE, 90, FALSE), Entry("plain", FALSE, 95, FALSE),
    Entry("grouped", FALSE, 80, TRUE), Entry("plain", TRUE, 70, FALSE),
    Entry("grouped", TRUE, 80, FALSE),
    [kind |-> "grouped", on |-> FALSE, secret |-> FALSE, score |-> 99, noisy |-> FALSE]>>

MCTexts ==
  UNION {[1..n -> Pieces] : n \in 0..4} \union [1..5 -> {"value", "end"}] \union [1..6 -> {"value", "end"}]

\* As substrings, <<1, 3>> is the first two pieces.
MCHitSets == {{}, {<<1, 3>>}, {<<2, 5>>}, {<<1, 4>>, <<4, 6>>}}
=============================================================================
