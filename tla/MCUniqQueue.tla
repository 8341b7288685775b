---------------------------- MODULE MCUniqQueue ----------------------------
(* Scripts for small instances of UniqQueue. *)
EXTENDS UniqQueue, TLC

CONSTANTS t1, t2, t3, t4

(* one producer that goes round the buffer, two consumers *)
LapScript == t1 :> <<Push, Push, Push, Push, Push>>
             @@ t2 :> <<Pop, Pop, Pop>> @@ t3 :> <<Pop, Pop>>

(* two producers and a consumer; calls that do not wait *)
TryScript == t1 :> <<Push, TryPush, Push>> @@ t2 :> <<TryPush, Push>>
             @@ t3 :> <<Pop, Pop, TryPop>>

(* a producer and two consumers of a queue that is stopped under them: more *)
(* pops than pushes, so that a pop waits for an item                        *)
StopScript == t1 :> <<Push, Push>> @@ t2 :> <<Pop>> @@ t3 :> <<Pop, Pop>>

(* two producers and a consumer of a queue that is stopped under them: the  *)
(* four cells hold the tickets -1, 1 and 2, since 0 is skipped, and the     *)
(* fourth push waits for the pop, which need not come before stop()         *)
FullScript == t1 :> <<Push, Push>> @@ t2 :> <<Push, Push>> @@ t3 :> <<Pop>>

MixScenarios == {[script |-> LapScript, stops |-> 0],
                 [script |-> TryScript, stops |-> 0],
                 [script |-> StopScript, stops |-> 1],
                 [script |-> FullScript, stops |-> 1]}

(* the start of tests/mrmw.cc: the first item meets three consumers *)
FirstItemScript == t1 :> <<Push>> @@ t2 :> <<Pop>> @@ t3 :> <<Pop>> @@ t4 :> <<Pop>>
FirstItemScenario == {[script |-> FirstItemScript, stops |-> 0]}
=============================================================================
