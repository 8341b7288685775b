---------------------------- MODULE MCBigObjects -----------------------------
EXTENDS BigObjects, TLC
MCStarts == {<<1>>, <<0, 2>>, <<3, 3, 3>>}
LongStarts == {<<3, 2, 1, 3>>}
MCShifts == {<<1>>, <<3>>}
Symmetry == Permutations(Objects)
====
