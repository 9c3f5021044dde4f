------------------------------ MODULE MCChecks ------------------------------
(***************************************************************************)
(* Values for model checking: a few of the digits of each number vary, the *)
(* rest are fixed.  Accounts are Norwegian, Belgian and German.            *)
(***************************************************************************)
EXTENDS Checks

Some == {0, 4, 9}

MCBodies ==
  [siren |-> {<<a, 3, b, 5, 2, 9, 8, d>> : a, b, d \in Some},
   siret |-> {<<a, 3, 2, 9, 5, 1, 1, 7, 0, 0, 0, c, d>> : a, c, d \in Some},
   card |-> {<<4, 5, a, 2, 7, 1, b, 3, 3, 6, 0, 9, 0, 1, d>> : a, b, d \in Some}
            \union {<<4, 5, a, 2, 7, 1, b, 3, 3, 6, 0, 0>> : a, b \in Some},
   nir |-> {<<1, 8, a, 0, 5, 2, b, 0, 1, 7, c, 3, 4>> : a, c \in Some, b \in Some \union {10, 11}},
   iban |-> {<<23, 24, 8, 6, a, 1, 1, b, 1, 7, 9, c, 7>> : a, b, c \in {0, 9}}
            \union {<<11, 14, 5, 3, a, 0, 0, b, 5, 4, 7, 0, 3, c>> : a, b, c \in {0, 9}}
            \union {<<13, 14, 3, 7, 0, a, 0, 0, 4, 4, 0, b, 3, 2, 0, 1, 3, 0, 0, c>> :
                       a, b, c \in {0, 9}},
   nhs |-> {<<a, 4, 3, b, 7, 6, 5, 8, d>> : a, b, d \in Some},
   nino |-> {<<10, 11, a, 2, b, 4, 5, c>> : a, b, c \in Some}
            \union {<<12, 14, a, 2, b, 4, 5, c, 13>> : a, b, c \in Some},
   ssn |-> {<<1, a, 3, 4, b, 6, 7, 8, c>> : a, b, c \in Some},
   routing |-> {<<0, 2, 1, 0, 0, 0, 0, 2, 1>>, <<1, 2, 1, 0, 0, 0, 3, 5, 8>>,
                <<3, 2, 2, 2, 7, 1, 6, 2, 7>>},
   email |-> {<<Example, 230>>, <<231, 201>>, <<Example, 231, 203>>, <<204, 202>>,
              <<232, Example, 201>>},
   postcode |-> {<<0>>, <<0, 233>>, <<0, 1233>>, <<0, 234, 215>>, <<0, 1235, 222>>},
   ip |-> {<<10, 4, 2, 17>>, <<192, 168, 1, 1>>, <<8, 8, 8, 8>>, <<198, 51, 99, 3>>}]

MCIndices == 1..300 \union {512, 513, 768, 9999, 10000, 999999, 9999999, 99999999, 999999999}

\* EUR; EUR after a space; e in small letters; letters and digits, spaced.
MCTails == {<<14, 30, 27>>, <<Space, 14, 30, 27>>, <<54, 70>>, <<7>>, <<Space, 7, 14, Space, 30>>}

MCToday == <<2025, 3, 1>>
MCDates == {<<y, m, d>> : y \in {1999, 2024, 2025}, m \in {1, 2, 3, 4, 12}, d \in {1, 2, 3, 4, 28}}
           \union {<<2024, 2, 29>>, <<2000, 2, 29>>}

\* a, s, A, 1 and punctuation; words like "password", like "string" and like "oauth".
MCKeys == {50, 68, 10, 1, Dot, Dash, Star, Ampersand, Question, Opener, Closer, SquareOpener,
           SquareCloser, CurlyOpener, CurlyCloser, Dollar, Percent, Secret, Reserved, Auth}
=============================================================================
