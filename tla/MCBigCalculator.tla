-------------------------- MODULE MCBigCalculator ---------------------------
EXTENDS BigCalculator

Text(negative, int, frac) ==
  [negative |-> negative, int |-> int, dot |-> frac # <<>>, frac |-> frac]
MCTexts == {Text(FALSE, <<0>>, <<>>), Text(FALSE, <<3>>, <<>>), Text(FALSE, <<1, 0>>, <<>>),
            Text(TRUE, <<4>>, <<>>), Text(FALSE, <<0>>, <<5>>), Text(TRUE, <<0>>, <<2, 5>>)}
MCCandidates == 0 .. 400 \cup {4087, 4489, 5041, 9409, 10403, 10607}
=============================================================================
