---------------------------- MODULE BoundedFifo ----------------------------
(***************************************************************************)
(* What a bounded multi-reader multi-writer queue promises its callers: a   *)
(* linearizable FIFO of at most Capacity items.  A call is invoked, takes   *)
(* effect in one atomic step between its invocation and its return, and     *)
(* returns.  A push blocks while the queue is full, a pop while it is       *)
(* empty.  This is the abstract specification that the lock-free queue of   *)
(* nutshell/queue.h is shown to implement.                                  *)
(***************************************************************************)
EXTENDS Naturals, Sequences

CONSTANTS Threads,   \* the callers
          Items,     \* the values that may be pushed
          Capacity,  \* the number of seats
          NoItem     \* the value field of a call that carries no item

VARIABLES q,   \* the items that were pushed and not yet popped, oldest first
          op   \* op[t]: the call of t that is under way, if any

vars == <<q, op>>

Idle == [st |-> "idle", val |-> NoItem]

Init == /\ q = << >>
        /\ op = [t \in Threads |-> Idle]

(* t calls push(v) *)
CallPush(t, v) == /\ op[t].st = "idle"
                  /\ op' = [op EXCEPT ![t] = [st |-> "push", val |-> v]]
                  /\ UNCHANGED q

(* the push of t takes effect *)
DoPush(t) == /\ op[t].st = "push"
             /\ Len(q) < Capacity
             /\ q' = Append(q, op[t].val)
             /\ op' = [op EXCEPT ![t] = [st |-> "pushed", val |-> op[t].val]]

(* t calls pop() *)
CallPop(t) == /\ op[t].st = "idle"
              /\ op' = [op EXCEPT ![t] = [st |-> "pop", val |-> NoItem]]
              /\ UNCHANGED q

(* the pop of t takes effect: it is bound to return the oldest item *)
DoPop(t) == /\ op[t].st = "pop"
            /\ q # << >>
            /\ op' = [op EXCEPT ![t] = [st |-> "popped", val |-> Head(q)]]
            /\ q' = Tail(q)

(* the call of t returns; a pop returns op[t].val *)
Return(t) == /\ op[t].st \in {"pushed", "popped"}
             /\ op' = [op EXCEPT ![t] = Idle]
             /\ UNCHANGED q

Next == \E t \in Threads : \/ \E v \in Items : CallPush(t, v)
                           \/ DoPush(t)
                           \/ CallPop(t)
                           \/ DoPop(t)
                           \/ Return(t)

Spec == Init /\ [][Next]_vars
=============================================================================
