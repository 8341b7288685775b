--------------------------- MODULE NutshellQueue ---------------------------
(***************************************************************************)
(* The basic UniQ queue, nutshell/queue.h: a circular buffer of Size cells  *)
(* in which the value 0 marks a free cell, and two atomic counters.  `in'   *)
(* is the ticket of the next push and `out' the ticket of the next pop; a   *)
(* thread owns a ticket once its compare-and-swap on the counter succeeds,  *)
(* and only then touches the ticket's cell.                                 *)
(*                                                                         *)
(* Every read or write of shared memory is an action of its own, in program *)
(* order.  A loop that yields until a condition holds is an action that is  *)
(* enabled when the condition holds.  compare_exchange_weak may fail        *)
(* spuriously.                                                              *)
(***************************************************************************)
EXTENDS Integers, Sequences

CONSTANTS Threads,   \* the threads that share the queue
          Items,     \* the values pushed
          Size,      \* the constructor's size
          MaxCalls   \* bound: the calls a thread makes

Free == 0            \* the content of a free cell

(* A size that is a power of two makes i & mask the same as i % Size; the   *)
(* assert commented out in push asks for items other than 0.                *)
ASSUME SizeAssumption == Size \in Nat \ {0} /\ \E k \in 0..Size : Size = 2^k
ASSUME ItemsAssumption == Free \notin Items
ASSUME MaxCallsAssumption == MaxCalls \in Nat

VARIABLES buffer,  \* buffer[s]: the item in cell s, or Free
          in,      \* ticket of the next push
          out,     \* ticket of the next pop
          pc,      \* pc[t]: where t is in push or pop
          idx,     \* idx[t]: the local i of push, the local o of pop
          reg,     \* reg[t]: the argument of push, the local r of pop
          calls,   \* calls[t]: calls that t has made
          hist     \* history: hist[k + 1] is the item of ticket k

mem  == <<buffer, in, out>>
vars == <<buffer, in, out, pc, idx, reg, calls, hist>>

Slot(i) == i % Size

Init == /\ buffer = [s \in 0..(Size - 1) |-> Free]
        /\ in = 0
        /\ out = 0
        /\ pc = [t \in Threads |-> "idle"]
        /\ idx = [t \in Threads |-> 0]
        /\ reg = [t \in Threads |-> Free]
        /\ calls = [t \in Threads |-> 0]
        /\ hist = << >>

Goto(t, label) == pc' = [pc EXCEPT ![t] = label]

-----------------------------------------------------------------------------
(* push(item) *)

CallPush(t, v) == /\ pc[t] = "idle"
                  /\ calls[t] < MaxCalls
                  /\ calls' = [calls EXCEPT ![t] = @ + 1]
                  /\ reg' = [reg EXCEPT ![t] = v]
                  /\ Goto(t, "p_load")
                  /\ UNCHANGED <<mem, idx, hist>>

(* Mutant of PushLoad: the ticket before the next one. *)
PushLoadStale(t) == /\ pc[t] = "p_load"
                    /\ idx' = [idx EXCEPT ![t] = in - 1]
                    /\ Goto(t, "p_full")
                    /\ UNCHANGED <<mem, reg, calls, hist>>

(* i = in *)
PushLoad(t) == /\ pc[t] = "p_load"
               /\ idx' = [idx EXCEPT ![t] = in]
               /\ Goto(t, "p_full")
               /\ UNCHANGED <<mem, reg, calls, hist>>

(* Mutant of PushNotFull: the wait compares with one seat too many. *)
PushNotFullLate(t) == /\ pc[t] = "p_full"
                      /\ idx[t] - out # Size + 1
                      /\ Goto(t, "p_slot")
                      /\ UNCHANGED <<mem, idx, reg, calls, hist>>

(* the wait ends: i - out is no longer size *)
PushNotFull(t) == /\ pc[t] = "p_full"
                  /\ idx[t] - out # Size
                  /\ Goto(t, "p_slot")
                  /\ UNCHANGED <<mem, idx, reg, calls, hist>>

(* Mutant of PushSlot: the cell is not tested before the claim. *)
PushSlotUntested(t) == /\ pc[t] = "p_slot"
                       /\ Goto(t, "p_cas")
                       /\ UNCHANGED <<mem, idx, reg, calls, hist>>

(* the test of buffer[i & mask] *)
PushSlot(t) == /\ pc[t] = "p_slot"
               /\ Goto(t, IF buffer[Slot(idx[t])] = Free THEN "p_cas" ELSE "p_load")
               /\ UNCHANGED <<mem, idx, reg, calls, hist>>

(* in.compare_exchange_weak(i, i + 1) succeeds: t owns the ticket idx[t] *)
PushClaim(t) == /\ pc[t] = "p_cas"
                /\ in = idx[t]
                /\ in' = in + 1
                /\ hist' = Append(hist, reg[t])
                /\ Goto(t, "p_store")
                /\ UNCHANGED <<buffer, out, idx, reg, calls>>

(* the compare-and-swap fails, because `in' moved or spuriously *)
PushRetry(t) == /\ pc[t] = "p_cas"
                /\ Goto(t, "p_load")
                /\ UNCHANGED <<mem, idx, reg, calls, hist>>

(* buffer[i & mask] = item, and push returns *)
PushStore(t) == /\ pc[t] = "p_store"
                /\ buffer' = [buffer EXCEPT ![Slot(idx[t])] = reg[t]]
                /\ Goto(t, "idle")
                /\ UNCHANGED <<in, out, idx, reg, calls, hist>>

-----------------------------------------------------------------------------
(* pop() *)

CallPop(t) == /\ pc[t] = "idle"
              /\ calls[t] < MaxCalls
              /\ calls' = [calls EXCEPT ![t] = @ + 1]
              /\ Goto(t, "o_load")
              /\ UNCHANGED <<mem, idx, reg, hist>>

(* o = out *)
PopLoad(t) == /\ pc[t] = "o_load"
              /\ idx' = [idx EXCEPT ![t] = out]
              /\ Goto(t, "o_empty")
              /\ UNCHANGED <<mem, reg, calls, hist>>

(* the wait ends: o is no longer in *)
PopNotEmpty(t) == /\ pc[t] = "o_empty"
                  /\ idx[t] # in
                  /\ Goto(t, "o_slot")
                  /\ UNCHANGED <<mem, idx, reg, calls, hist>>

(* Mutant of PopSlot: the cell is not tested before the claim. *)
PopSlotUntested(t) == /\ pc[t] = "o_slot"
                      /\ Goto(t, "o_cas")
                      /\ UNCHANGED <<mem, idx, reg, calls, hist>>

(* the test of buffer[o & mask] *)
PopSlot(t) == /\ pc[t] = "o_slot"
              /\ Goto(t, IF buffer[Slot(idx[t])] = Free THEN "o_load" ELSE "o_cas")
              /\ UNCHANGED <<mem, idx, reg, calls, hist>>

(* Mutant of PopClaim: a plain store instead of the compare-and-swap. *)
PopClaimPlain(t) == /\ pc[t] = "o_cas"
                    /\ out' = idx[t] + 1
                    /\ Goto(t, "o_take")
                    /\ UNCHANGED <<buffer, in, idx, reg, calls, hist>>

(* out.compare_exchange_weak(o, o + 1) succeeds: t owns the ticket idx[t] *)
PopClaim(t) == /\ pc[t] = "o_cas"
               /\ out = idx[t]
               /\ out' = out + 1
               /\ Goto(t, "o_take")
               /\ UNCHANGED <<buffer, in, idx, reg, calls, hist>>

(* the compare-and-swap fails, because `out' moved or spuriously *)
PopRetry(t) == /\ pc[t] = "o_cas"
               /\ Goto(t, "o_load")
               /\ UNCHANGED <<mem, idx, reg, calls, hist>>

(* r = buffer[o &= mask] *)
PopTake(t) == /\ pc[t] = "o_take"
              /\ reg' = [reg EXCEPT ![t] = buffer[Slot(idx[t])]]
              /\ Goto(t, "o_clear")
              /\ UNCHANGED <<mem, idx, calls, hist>>

(* Mutant of PopClear: the cell is not freed. *)
PopClearForgotten(t) == /\ pc[t] = "o_clear"
                        /\ Goto(t, "idle")
                        /\ UNCHANGED <<mem, idx, reg, calls, hist>>

(* buffer[o] = 0, and pop returns r *)
PopClear(t) == /\ pc[t] = "o_clear"
               /\ buffer' = [buffer EXCEPT ![Slot(idx[t])] = Free]
               /\ Goto(t, "idle")
               /\ UNCHANGED <<in, out, idx, reg, calls, hist>>

-----------------------------------------------------------------------------
(* the steps of a call that is under way *)
Push(t) == \/ PushLoad(t) \/ PushNotFull(t) \/ PushSlot(t)
           \/ PushClaim(t) \/ PushRetry(t) \/ PushStore(t)

Pop(t) == \/ PopLoad(t) \/ PopNotEmpty(t) \/ PopSlot(t)
          \/ PopClaim(t) \/ PopRetry(t) \/ PopTake(t) \/ PopClear(t)

Next == \E t \in Threads : \/ \E v \in Items : CallPush(t, v)
                           \/ CallPop(t)
                           \/ Push(t)
                           \/ Pop(t)

Spec == Init /\ [][Next]_vars

-----------------------------------------------------------------------------
(* Properties *)

Labels == {"idle", "p_load", "p_full", "p_slot", "p_cas", "p_store",
           "o_load", "o_empty", "o_slot", "o_cas", "o_take", "o_clear"}

(* The counters are tickets, a cell holds an item or is free, and there is  *)
(* one item of history for every ticket that a push has claimed.            *)
TypeOK == /\ buffer \in [0..(Size - 1) -> Items \cup {Free}]
          /\ in \in Nat
          /\ out \in Nat
          /\ pc \in [Threads -> Labels]
          /\ idx \in [Threads -> Nat]
          /\ reg \in [Threads -> Items \cup {Free}]
          /\ calls \in [Threads -> 0..MaxCalls]
          /\ hist \in Seq(Items)
          /\ Len(hist) = in

(* The threads that own a ticket and have not finished with its cell. *)
Owners == {t \in Threads : pc[t] \in {"p_store", "o_take", "o_clear"}}

(* `out' never overtakes `in' and `in' is never more than a lap ahead, even *)
(* though both tests of the counters are stale when the claim is made.      *)
CountersInOrder == out <= in /\ in <= out + Size

(* No two threads that own tickets share a cell, so the plain reads and     *)
(* writes of the buffer after a claim cannot race with each other, however  *)
(* long an owner is preempted between its claim and its store or clear.     *)
CellsExclusive == \A t, u \in Owners : t # u => Slot(idx[t]) # Slot(idx[u])

(* A pop that is about to return holds the item that was pushed with the    *)
(* same ticket: items leave in the order of the claims, each of them once.  *)
DeliveredInOrder ==
    \A t \in Threads : pc[t] = "o_clear" => /\ idx[t] < out
                                            /\ reg[t] = hist[idx[t] + 1]

(* When no call is under way the buffer holds exactly the items that were   *)
(* pushed and not popped: nothing leaked, nothing is left behind.           *)
NoLeak == (\A t \in Threads : pc[t] = "idle") =>
             \A s \in 0..(Size - 1) :
                buffer[s] = IF \E k \in out..(in - 1) : Slot(k) = s
                            THEN hist[(CHOOSE k \in out..(in - 1) : Slot(k) = s) + 1]
                            ELSE Free

(* No step overwrites an item: a cell goes from free to an item and back,   *)
(* and only the pop that owns its ticket frees it.                          *)
NoOverwrite ==
    [][\A s \in 0..(Size - 1) :
          buffer[s] # Free /\ buffer'[s] # buffer[s] =>
             /\ buffer'[s] = Free
             /\ \E t \in Threads : pc[t] = "o_clear" /\ Slot(idx[t]) = s]_vars

-----------------------------------------------------------------------------
(* The queue implements the bounded FIFO: a push takes effect when its      *)
(* compare-and-swap on `in' succeeds, a pop when its compare-and-swap on    *)
(* `out' does.                                                              *)
qBar == [k \in 1..(in - out) |-> hist[out + k]]

Trying(t) == pc[t] \in {"p_load", "p_full", "p_slot", "p_cas"}

OpBar(t) ==
    CASE pc[t] = "idle"    -> [st |-> "idle",   val |-> Free]
      [] Trying(t)         -> [st |-> "push",   val |-> reg[t]]
      [] pc[t] = "p_store" -> [st |-> "pushed", val |-> reg[t]]
      [] pc[t] = "o_take"  -> [st |-> "popped", val |-> hist[idx[t] + 1]]
      [] pc[t] = "o_clear" -> [st |-> "popped", val |-> reg[t]]
      [] OTHER             -> [st |-> "pop",    val |-> Free]

Fifo == INSTANCE BoundedFifo
            WITH q <- qBar, op <- [t \in Threads |-> OpBar(t)],
                 Capacity <- Size, NoItem <- Free

(* Every behaviour of the queue is one of a linearizable FIFO of Size seats. *)
ImplementsFifo == Fifo!Spec
=============================================================================
