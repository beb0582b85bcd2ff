----------------------------- MODULE MCSmokeTest ------------------------------
\* SmokeTest with two calls that have returned 0.62 and 0.6130 (in ten-thousandths),
\* the first also 2500, and a vocabulary that has every kind of token.
EXTENDS SmokeTest

CONSTANTS a, b

MCCodes == {3, 4, 5}
MCIds == {a, b}
MCCalls == {a, b, Unknown}
MCPayload == [id \in MCIds |-> IF id = a THEN {-6200, 25000000} ELSE {6130}]

\* The index has one candidate for 0.62 and for 2,500, two for 0.6, none for 2,500.00.
MCVocabulary ==
  {Word("opening"), Word("count"), Word("date"),
   Number("number", <<2, 62, "plain">>), Number("number", <<1, 6, "plain">>),
   Number("number", <<0, 2500, "grouped">>), Number("number", <<2, 250000, "grouped">>),
   Number("glued", <<2, 62, "plain">>),
   Marker(a), Marker(b), Marker(Unknown)}
===============================================================================
