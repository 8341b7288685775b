-------------------------- MODULE ProducerConsumer --------------------------
(***************************************************************************)
(* The producer/consumer program of nutshell/main.cc on top of the queue of *)
(* nutshell/queue.h.  Every producer pushes 1..N and then -1; every         *)
(* consumer pops until it meets a -1.  Both keep a count and settle it in   *)
(* the shared `total', which main prints after joining all threads.         *)
(*                                                                         *)
(* The counts and the loop index are local, so a thread updates them in the *)
(* step that makes its next call of the queue.                              *)
(***************************************************************************)
EXTENDS Integers, Sequences, FiniteSets, Functions

CONSTANTS Producers, Consumers,  \* the threads of the pool
          N,                     \* Items / pairs: items of one producer
          Size                   \* seats of the queue Q

Poison == -1

(* main creates the threads in pairs *)
ASSUME PairsAssumption == /\ Cardinality(Producers) = Cardinality(Consumers)
                          /\ Producers \cap Consumers = {}
                          /\ IsFiniteSet(Producers) /\ IsFiniteSet(Consumers)
ASSUME NAssumption == N \in Nat
ASSUME SizeAssumption == Size \in Nat \ {0} /\ \E k \in 0..Size : Size = 2^k

VARIABLES buffer, in, out, pc, idx, reg, calls, hist,  \* the queue Q
          i,       \* i[p]: the loop index of producer p
          sum,     \* sum[t]: the local count of t
          stage,   \* stage[t]: where t is in producer() or consumer()
          total,   \* the shared checksum
          joined   \* main has joined every thread and printed total

Threads == Producers \cup Consumers

Q == INSTANCE NutshellQueue
        WITH Items <- (1..N) \cup {Poison},
             MaxCalls <- Cardinality(Producers) * (N + 1)

qvars == <<buffer, in, out, pc, idx, reg, calls, hist>>
vars  == <<qvars, i, sum, stage, total, joined>>

Init == /\ Q!Init
        /\ i = [p \in Producers |-> 1]
        /\ sum = [t \in Threads |-> 0]
        /\ stage = [t \in Threads |-> "loop"]
        /\ total = 0
        /\ joined = FALSE

Settle(t, amount) == /\ total' = total + amount
                     /\ stage' = [stage EXCEPT ![t] = "done"]

(* Q.push(i); sum += 1 *)
Produce(p) == /\ stage[p] = "loop"
              /\ i[p] <= N
              /\ Q!CallPush(p, i[p])
              /\ i' = [i EXCEPT ![p] = @ + 1]
              /\ sum' = [sum EXCEPT ![p] = @ + 1]
              /\ UNCHANGED <<stage, total, joined>>

(* Mutant of SignalEnd: the end is not signalled. *)
SignalEndSkipped(p) == /\ stage[p] = "loop"
                       /\ i[p] > N
                       /\ stage' = [stage EXCEPT ![p] = "signalled"]
                       /\ UNCHANGED <<qvars, i, sum, total, joined>>

(* Q.push(-1) *)
SignalEnd(p) == /\ stage[p] = "loop"
                /\ i[p] > N
                /\ Q!CallPush(p, Poison)
                /\ stage' = [stage EXCEPT ![p] = "signalled"]
                /\ UNCHANGED <<i, sum, total, joined>>

(* total += sum *)
SettleProduced(p) == /\ stage[p] = "signalled"
                     /\ pc[p] = "idle"
                     /\ Settle(p, sum[p])
                     /\ UNCHANGED <<qvars, i, sum, joined>>

(* the first call of Q.pop() *)
StartConsuming(c) == /\ stage[c] = "loop"
                     /\ Q!CallPop(c)
                     /\ stage' = [stage EXCEPT ![c] = "popping"]
                     /\ UNCHANGED <<i, sum, total, joined>>

(* Q.pop() returned an item: sum += 1, and the next call of Q.pop() *)
Consume(c) == /\ stage[c] = "popping"
              /\ pc[c] = "idle"
              /\ reg[c] > 0
              /\ Q!CallPop(c)
              /\ sum' = [sum EXCEPT ![c] = @ + 1]
              /\ UNCHANGED <<i, stage, total, joined>>

(* Mutant of SettleConsumed: total is read before another thread settles. *)
SettleConsumedLost(c) == /\ stage[c] = "popping"
                         /\ pc[c] = "idle"
                         /\ reg[c] <= 0
                         /\ total' = -sum[c]
                         /\ stage' = [stage EXCEPT ![c] = "done"]
                         /\ UNCHANGED <<qvars, i, sum, joined>>

(* Q.pop() returned the termination signal: total -= sum *)
SettleConsumed(c) == /\ stage[c] = "popping"
                     /\ pc[c] = "idle"
                     /\ reg[c] <= 0
                     /\ Settle(c, -sum[c])
                     /\ UNCHANGED <<qvars, i, sum, joined>>

(* a step inside push or pop *)
QueueStep(t) == /\ Q!Push(t) \/ Q!Pop(t)
                /\ UNCHANGED <<i, sum, stage, total, joined>>

(* main joins the pool and prints the checksum *)
Join == /\ \A t \in Threads : stage[t] = "done"
        /\ ~joined
        /\ joined' = TRUE
        /\ UNCHANGED <<qvars, i, sum, stage, total>>

(* the program has ended *)
Ended == joined /\ UNCHANGED vars

Producer(p) == Produce(p) \/ SignalEnd(p) \/ SettleProduced(p) \/ QueueStep(p)
Consumer(c) == StartConsuming(c) \/ Consume(c) \/ SettleConsumed(c) \/ QueueStep(c)

Next == \/ \E p \in Producers : Producer(p)
        \/ \E c \in Consumers : Consumer(c)
        \/ Join
        \/ Ended

(* Every thread is scheduled again and again (the waits yield), and a       *)
(* compare-and-swap that keeps finding the expected value is not failed     *)
(* spuriously for ever.                                                     *)
Fairness == /\ \A p \in Producers : WF_vars(Producer(p)) /\ SF_vars(QueueStep(p) /\ Q!PushClaim(p))
            /\ \A c \in Consumers : WF_vars(Consumer(c)) /\ SF_vars(QueueStep(c) /\ Q!PopClaim(c))
            /\ WF_vars(Join)

Spec == Init /\ [][Next]_vars /\ Fairness

-----------------------------------------------------------------------------
(* Properties *)

(* The checksum main prints is zero ("it must be zero"), every item that    *)
(* was pushed has been popped and the queue is empty.                       *)
ChecksumZero == joined => /\ total = 0
                          /\ in = out
                          /\ \A s \in DOMAIN buffer : buffer[s] = 0

(* At any moment every item that has left the queue is in the count of one  *)
(* consumer or on its way into it: none is lost between a claim, the store  *)
(* that clears the cell and the local sum.                                  *)
InHand(c) == /\ stage[c] = "popping"
             /\ \/ pc[c] = "o_take" /\ hist[idx[c] + 1] > 0
                \/ pc[c] \in {"o_clear", "idle"} /\ reg[c] > 0

ItemsAccounted ==
    Cardinality({k \in 1..out : hist[k] > 0})
        = SumFunctionOnSet(sum, Consumers)
          + Cardinality({c \in Consumers : InHand(c)})

(* Every thread finishes: no producer waits for ever for a seat, and no     *)
(* consumer for an item, whoever takes which termination signal.            *)
Termination == <>joined
=============================================================================
