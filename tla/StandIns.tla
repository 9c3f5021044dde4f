------------------------------ MODULE StandIns ------------------------------
(***************************************************************************)
(* The stand-ins of fake mode (pkg/pii/generators.go) for the one category *)
(* every country writes in its own notation, a date of birth.  All of them *)
(* draw on one counter, DATE_OF_BIRTH; which generator renders an index is *)
(* decided by the pattern that recognised the value, so dates of several   *)
(* countries in one process take turns.                                    *)
(*                                                                         *)
(* Module Exchange assumes of its generators that two indexes are never    *)
(* rendered alike (GeneratorsAssumption).  Here the real arithmetic of     *)
(* these is spelled out, for the countries a deployment loads.             *)
(***************************************************************************)
EXTENDS Naturals

CONSTANTS
  Loaded,     \* countries loaded, of "fr", "gb" and "us"
  MaxIndex    \* bound: how many dates the process ever masks

\* The locale-independent set, always loaded: it reads ISO dates.
Tables == Loaded \union {"shared"}

VARIABLES
  counter,  \* Detector.counters["DATE_OF_BIRTH"]
  last,     \* the index handed out last, and what it was rendered as
  kept      \* history: an earlier one, any

vars == <<counter, last, kept>>

None == [index |-> 0, text |-> <<"none">>]

\* One stand-in per day of twelve months of twenty-eight days.
DatesCapacity == 28 * 12

\* isoMonthDay: the month and the day an index stands for.
Month(index) == (index - 1) \div 28 + 1
Day(index) == ((index - 1) % 28) + 1

\* Generator.Make: "1900-MM-DD", "MM/DD/1900" and "DD/MM/1900".  A text is its
\* notation, as a reader can tell it, and its two numbers as they are written.
Make(table, index) ==
  CASE table = "shared"       -> <<"dashes", Month(index), Day(index)>>
    [] table = "us"           -> <<"slashes", Month(index), Day(index)>>
    [] table \in {"fr", "gb"} -> <<"slashes", Day(index), Month(index)>>

\* FakeSet.Value, else the bracket token, which carries the index.
Rendered(table, index) ==
  IF index \in 1..DatesCapacity THEN Make(table, index) ELSE <<"token", index>>

Init == counter = 0 /\ last = None /\ kept = None

\* A date this process has not seen yet, read by the pattern of some country.
NextDate(table) ==
  /\ counter < MaxIndex
  /\ counter' = counter + 1
  /\ last' = [index |-> counter', text |-> Rendered(table, counter')]
  /\ kept' \in {kept, last}

Next == \E table \in Tables : NextDate(table)

Spec == Init /\ [][Next]_vars

\* "So the mapping is still one-to-one and still reversible"
\* (pkg/pii/generators.go:14): two indexes, that is two originals, never share a
\* stand-in, whichever countries' patterns read them.
OneToOne == kept # None /\ last.text = kept.text => last.index = kept.index
=============================================================================
