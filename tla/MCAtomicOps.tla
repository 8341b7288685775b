---------------------------- MODULE MCAtomicOps ----------------------------
(* Small instances of AtomicOps. *)
EXTENDS AtomicOps, TLC

CONSTANTS t1, t2, t3, t4, t5

Do(op, v) == [op |-> op, v |-> v]

(* swaps towards both ends while others count, within the range of int *)
SwapCalls == t1 :> Do("swapGreater", 4) @@ t2 :> Do("swapLower", 2)
             @@ t3 :> Do("swapGreater", 6) @@ t4 :> Do("add", 2) @@ t5 :> Do("sub", 3)

(* the same, and the value leaves the range of int: 3 + 7 and 12 read as    *)
(* negative, a swapLower then returns at once and a swapGreater to 4 waits  *)
(* for the value to come back                                               *)
WideCalls == t1 :> Do("swapGreater", 4) @@ t2 :> Do("swapLower", 2)
             @@ t3 :> Do("swapGreater", 12) @@ t4 :> Do("add", 7) @@ t5 :> Do("sub", 3)

(* the operators that are not one instruction, and a swap *)
ScaleCalls == t1 :> Do("mul", 5) @@ t2 :> Do("div", 3) @@ t3 :> Do("mod", 7)
              @@ t4 :> Do("sub", 8) @@ t5 :> Do("swapLower", 4)

MixChoices == {SwapCalls, WideCalls, ScaleCalls}
=============================================================================
