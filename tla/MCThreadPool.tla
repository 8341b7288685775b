---------------------------- MODULE MCThreadPool ----------------------------
(* Small instances of ThreadPool: the flows of the tests. *)
EXTENDS ThreadPool

CONSTANTS Rounds,  \* rounds of TEST(Pool) (1000), pings of tests/pingpong.cc
          Fanout   \* pongs that one ping of tests/pingpong.cc runs (1000)

(* test_ping and test_pong of cpp/lib/pool.h *)
PingPongBody(name, v) ==
    CASE name = "test_ping" -> <<Run(<<"test_pong", v>>), Count>>
      [] name = "test_pong" -> IF v > 0 THEN <<Run(<<"test_ping", v - 1>>)>> ELSE <<Stop>>
PingPong == [main |-> <<Run(<<"test_ping", Rounds - 1>>)>>, rounds |-> Rounds]

(* tests/pingpong.cc: a ping runs Fanout pongs, the last of which runs the  *)
(* next ping; the pings stop the pool from number 0 on, and the pong of a   *)
(* ping that stopped it still runs the next one, which is numbered 0 again. *)
FanBody(name, v) ==
    CASE name = "ping" -> [i \in 1..Fanout |-> Run(<<IF i < Fanout THEN "pong" ELSE "last", v>>)]
                          \o IF v = 0 THEN <<Stop>> ELSE << >>
      [] name = "last" -> <<Run(<<"ping", IF v = 0 THEN 0 ELSE v - 1>>)>>
      [] name = "pong" -> << >>
Fan == [main |-> <<Run(<<"ping", Rounds - 1>>)>>, rounds |-> 0]

(* run() on a pool that was stopped before it took its first task, from     *)
(* main and from the first task                                             *)
RestartBody(name) == IF name = "first" THEN <<Stop, Run(<<"next", 0>>), Stop>> ELSE <<Stop>>
Restart == [main |-> <<Stop, Run(<<"first", 0>>)>>, rounds |-> 0]

Bodies == [x \in {"test_ping", "test_pong", "ping", "pong", "last", "first", "next"}
                 \X (0..(Rounds - 1)) |->
              CASE x[1] \in {"test_ping", "test_pong"} -> PingPongBody(x[1], x[2])
                [] x[1] \in {"ping", "pong", "last"}   -> FanBody(x[1], x[2])
                [] x[1] \in {"first", "next"}          -> RestartBody(x[1])]

AllFlows == {PingPong, Fan, Restart}
=============================================================================
