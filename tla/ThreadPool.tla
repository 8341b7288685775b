----------------------------- MODULE ThreadPool -----------------------------
(***************************************************************************)
(* uniq::ThreadPool of cpp/lib/pool.h: workers that take functions from the *)
(* pool's queue and call them, and run(), which pushes a function.  A task  *)
(* is a function that was given to run(); what it does to the pool is the   *)
(* sequence of commands Body[task].                                         *)
(*                                                                         *)
(* The pool is a uniq::Queue.  Its push and pop are a test of running() and *)
(* an atomic step on a FIFO of Capacity seats, the behaviour that UniqQueue *)
(* is checked to have while it is not stopped; a call that has to try again *)
(* tests running() again, so stop() may make it return 0.                   *)
(***************************************************************************)
EXTENDS Integers, Sequences, FiniteSets

CONSTANTS Workers,   \* the worker threads
          Main,      \* the thread that starts the flow and joins the pool
          Capacity,  \* seats of the pool's queue (64 in the code)
          Body,      \* Body[task]: the commands of the task
          Flows      \* what Main may do: its commands, and the rounds counted

Run(task) == [op |-> "run", task |-> task]
Stop      == [op |-> "stop"]
Count     == [op |-> "count"]

ASSUME MainAssumption == Main \notin Workers
ASSUME CapacityAssumption == Capacity \in Nat \ {0}

VARIABLES running,  \* Actor::_running
          queue,    \* the tasks in the queue
          popped,   \* tasks taken from the queue; 2 stands for two or more
          pc,       \* pc[t]: where t is
          cont,     \* cont[t]: the commands that t has still to execute
          rounds,   \* the counter `rounds' of the test
          flow      \* the flow that Main started, one of Flows

vars == <<running, queue, popped, pc, cont, rounds, flow>>

Threads == Workers \cup {Main}

(* the constructor of the pool starts the workers; main executes its script *)
Init == /\ flow \in Flows
        /\ running = TRUE
        /\ queue = << >>
        /\ popped = 0
        /\ pc = [t \in Threads |-> IF t = Main THEN "exec" ELSE "test"]
        /\ cont = [t \in Threads |-> IF t = Main THEN flow.main ELSE << >>]
        /\ rounds = 0

Goto(t, label) == pc' = [pc EXCEPT ![t] = label]

Move(t, from, to) == /\ pc[t] = from
                     /\ Goto(t, to)
                     /\ UNCHANGED <<running, queue, popped, cont, rounds, flow>>

-----------------------------------------------------------------------------
(* worker(id) *)

(* while (this->running() && ...) *)
TestRunning(w) == Move(w, "test", IF running THEN "pop" ELSE "ended")

(* pop(f) returns 0 when the queue is stopped *)
PopTest(w) == Move(w, "pop", IF running THEN "deq" ELSE "ended")

(* pop(f) takes a task, and the worker calls it *)
PopTask(w) == /\ pc[w] = "deq"
              /\ queue # << >>
              /\ queue' = Tail(queue)
              /\ popped' = IF popped = 2 THEN 2 ELSE popped + 1
              /\ cont' = [cont EXCEPT ![w] = Body[Head(queue)]]
              /\ Goto(w, "exec")
              /\ UNCHANGED <<running, rounds, flow>>

(* Mutant of PopStopped: a worker that waits is not released by stop(). *)
PopStoppedNever(w) == FALSE /\ Move(w, "deq", "ended")

(* a pop that waits for a task, or that loses a race for one, finds the     *)
(* queue stopped and returns 0                                              *)
PopStopped(w) == ~running /\ Move(w, "deq", "ended")

(* the function returns *)
TaskDone(t) == cont[t] = << >> /\ Move(t, "exec", IF t = Main THEN "join" ELSE "test")

-----------------------------------------------------------------------------
(* the commands of a task *)

Command(t, op) == pc[t] = "exec" /\ cont[t] # << >> /\ Head(cont[t]).op = op
NextCommand(t) == cont' = [cont EXCEPT ![t] = Tail(@)]

(* pool().stop() *)
DoStop(t) == /\ Command(t, "stop")
             /\ running' = FALSE
             /\ NextCommand(t)
             /\ UNCHANGED <<queue, popped, pc, rounds, flow>>

(* rounds++ *)
DoCount(t) == /\ Command(t, "count")
              /\ rounds' = rounds + 1
              /\ NextCommand(t)
              /\ UNCHANGED <<running, queue, popped, pc, flow>>

(* run(f): if (!running() && counter() < 0) start().  counter() is out - 1, *)
(* and out has reached 1 when the first task was taken and a worker came    *)
(* back to skip ticket 0, or when the second task was taken.                *)
RunTest(t) == Command(t, "run") /\ Move(t, "exec", IF running THEN "r_push" ELSE "r_counter")

RunCounter(t) == \/ popped <= 1 /\ Move(t, "r_counter", "r_start")
                 \/ popped >= 1 /\ Move(t, "r_counter", "r_push")

RunStart(t) == /\ pc[t] = "r_start"
               /\ running' = TRUE
               /\ Goto(t, "r_push")
               /\ UNCHANGED <<queue, popped, cont, rounds, flow>>

(* push(vf) returns 0: the queue is stopped, at the first test or at one    *)
(* that follows a wait or a lost race                                       *)
Drop(t) == /\ ~running
           /\ pc[t] \in {"r_push", "r_enq"}
           /\ NextCommand(t)
           /\ Goto(t, "exec")
           /\ UNCHANGED <<running, queue, popped, rounds, flow>>

PushTest(t) == running /\ Move(t, "r_push", "r_enq")

(* Mutant of PushTask: a push does not wait for a seat. *)
PushTaskLost(t) == /\ pc[t] = "r_enq"
                   /\ NextCommand(t)
                   /\ Goto(t, "exec")
                   /\ UNCHANGED <<running, queue, popped, rounds, flow>>

(* push(vf) finds a seat *)
PushTask(t) == /\ pc[t] = "r_enq"
               /\ Len(queue) < Capacity
               /\ queue' = Append(queue, Head(cont[t]).task)
               /\ NextCommand(t)
               /\ Goto(t, "exec")
               /\ UNCHANGED <<running, popped, rounds, flow>>

-----------------------------------------------------------------------------
(* Mutant of Join: join() waits for one worker only. *)
JoinOne == /\ \E w \in Workers : pc[w] = "ended"
           /\ Move(Main, "join", "joined")

(* pool().join() in main *)
Join == /\ \A w \in Workers : pc[w] = "ended"
        /\ Move(Main, "join", "joined")

Joined == pc[Main] = "joined"

WorkerStep(w) == TestRunning(w) \/ PopTest(w) \/ PopTask(w) \/ PopStopped(w)

Execute(t) == \/ TaskDone(t) \/ DoStop(t) \/ DoCount(t)
              \/ RunTest(t) \/ RunCounter(t) \/ RunStart(t)
              \/ Drop(t) \/ PushTest(t) \/ PushTask(t)

Next == \/ \E w \in Workers : WorkerStep(w)
        \/ \E t \in Threads : Execute(t)
        \/ Join
        \/ Joined /\ UNCHANGED vars

(* Every thread is scheduled again and again. *)
Fairness == /\ \A w \in Workers : WF_vars(WorkerStep(w) \/ Execute(w))
            /\ WF_vars(Execute(Main) \/ Join)

Spec == Init /\ [][Next]_vars /\ Fairness

-----------------------------------------------------------------------------
(* Properties *)

(* CHECK(rounds == 1000) of TEST(Pool), with the flow's own number: once    *)
(* main has joined the pool every ping has counted, although the task that  *)
(* stops the pool runs beside the ping that ran it and has still to count.  *)
AllRounds == Joined => rounds = flow.rounds

(* The pool is stopped, every worker leaves its loop and join() returns,    *)
(* although tasks wait for seats in the queue that they themselves empty.   *)
JoinReturns == <>Joined
=============================================================================
