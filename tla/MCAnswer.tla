------------------------------ MODULE MCAnswer ------------------------------
(***************************************************************************)
(* Answers for model checking.  "[1]" is a token the session minted and    *)
(* "[2]" one it did not; "pq" and "pqr" are stand-ins, the first the       *)
(* beginning of the second as 192.0.2.1 is of 192.0.2.11; "pxp" ends with  *)
(* what it begins with, as 192.0.2.1 does.                                 *)
(***************************************************************************)
EXTENDS Answer, TLC

TokenKey == <<"[", "1", "]">>
Tokens == TokenKey :> <<"quote">>
StandIns == (<<"p", "q">> :> <<"A">>) @@ (<<"p", "q", "r">> :> <<"B">>)
Bordered == <<"p", "x", "p">> :> <<"A">>

Answers(shape, known, pieces, blocks, deltas) ==
  [shape |-> shape, known |-> known, pieces |-> pieces, blocks |-> blocks,
   deltas |-> deltas, ids |-> FALSE, tools |-> FALSE, fragments |-> {}]

WithTools(s, slices) == [s EXCEPT !.tools = TRUE, !.fragments = slices]
WithIds(s) == [s EXCEPT !.ids = TRUE]

TokenPieces == {<<"x", "[">>, <<"1">>, <<"]">>, <<"2", "]">>}
TokenSlices == {<<>>, <<"{", "[">>, <<"1", "]">>, <<"}">>}
StandInPieces == {<<"p">>, <<"q">>, <<"q", "r">>, <<"r", "p">>, <<"x">>}

MCScenarios ==
  { WithTools(Answers("messages", Tokens, {<<"x", "[">>, <<"1", "]">>}, 2, 3), TokenSlices),
    WithIds(WithTools(Answers("messages", Tokens, {<<"[">>, <<"1", "]">>}, 2, 2),
                      {<<"{", "}">>, <<>>})),
    WithTools(Answers("messages", StandIns, {<<"p">>, <<"q">>, <<"r">>}, 2, 2),
              {<<"{", "p">>, <<"q">>, <<"}">>}),
    WithTools(Answers("messages", <<>>, {<<"x", "[">>}, 2, 2), TokenSlices),
    Answers("chat", Tokens, TokenPieces, 1, 5),
    Answers("chat", StandIns, StandInPieces, 1, 5),
    Answers("chat", Bordered, {<<"p">>, <<"x">>, <<"q">>}, 1, 5),
    WithTools(Answers("document", Tokens @@ StandIns, {<<"p", "q">>, TokenKey}, 2, 2),
              {<<"{", "[", "1", "]", "}">>, <<"{", "p">>, <<"q", "}">>}) }
=============================================================================
