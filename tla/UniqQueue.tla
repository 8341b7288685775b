------------------------------ MODULE UniqQueue ------------------------------
(***************************************************************************)
(* uniq::Queue<T> of cpp/lib/queue.h, the official queue of the library.    *)
(* It differs from the nutshell queue in that                               *)
(*   - the constructor rounds the size up to a power of two and starts both *)
(*     counters at -1, so that they pass through 0 early;                   *)
(*   - 0 is the result of a call that failed, so ticket 0 is skipped: by    *)
(*     push after claiming it, by pop before looking at the queue;          *)
(*   - free cells are marked in isfree, not in the buffer;                  *)
(*   - a call may be made without waiting, and stop() (cpp/lib/Actor.h)     *)
(*     makes the calls return 0.                                            *)
(*                                                                         *)
(* The item of the push that owns ticket k is written k: a cell or a local  *)
(* variable holds the ticket of the push whose item it holds.  0 is the T   *)
(* the constructor fills the buffer with.                                   *)
(*                                                                         *)
(* in, out: atomic, sequentially consistent.  buffer, isfree and _running   *)
(* are plain; every access to them is a step of its own, in program order.  *)
(***************************************************************************)
EXTENDS Integers, Sequences, FiniteSets

CONSTANTS Threads,   \* the threads that call push and pop
          Scenarios, \* choices of the calls that the threads make, in order,
                     \* and of the bound on the calls of stop()
          ReqSize    \* the constructor's argument

Push    == [op |-> "push", wait |-> TRUE]
TryPush == [op |-> "push", wait |-> FALSE]
Pop     == [op |-> "pop",  wait |-> TRUE]
TryPop  == [op |-> "pop",  wait |-> FALSE]
Calls   == {Push, TryPush, Pop, TryPop}

ASSUME ScenariosAssumption ==
    \A sc \in Scenarios : sc.script \in [Threads -> Seq(Calls)] /\ sc.stops \in Nat
ASSUME ReqSizeAssumption == ReqSize \in Nat

VARIABLES buffer, isfree, in, out,  \* the queue
          running,                  \* Actor::_running
          pc, idx,                  \* idx[t]: the local i or o
          arg,                      \* arg[t]: the local i of full(i), o of empty(o)
          item,                     \* item[t]: the item popped
          left,                     \* left[t]: the calls t has still to make
          stops,                    \* calls of stop() that may still be made
          stopped,                  \* history: stop() was called
          ret,                      \* ret[t]: what the last call of t returned
          recv                      \* history: the Delivery of every pop

mem   == <<buffer, isfree, in, out, running>>
hist  == <<stops, stopped, recv>>
vars  == <<mem, pc, idx, arg, item, left, hist, ret>>

(* while (mask < size) mask *= 2 *)
Size == CHOOSE m \in {2^k : k \in 0..ReqSize} :
           m >= ReqSize /\ \A k \in 0..ReqSize : 2^k >= ReqSize => m <= 2^k
mask == Size - 1
Slot(k) == k % Size           \* k & mask, for -1 too
Slots == 0..mask

Init == /\ buffer = [s \in Slots |-> 0]
        /\ isfree = [s \in Slots |-> TRUE]
        /\ in = -1 /\ out = -1
        /\ running = TRUE
        /\ pc = [t \in Threads |-> "idle"]
        /\ idx = [t \in Threads |-> 0]
        /\ arg = [t \in Threads |-> 0]
        /\ item = [t \in Threads |-> 0]
        /\ \E sc \in Scenarios : left = sc.script /\ stops = sc.stops
        /\ stopped = FALSE
        /\ ret = [t \in Threads |-> 0]
        /\ recv = {}

Waits(t) == Head(left[t]).wait

Goto(t, label) == pc' = [pc EXCEPT ![t] = label]

(* the call of t returns r; the next call of its script is up *)
Return(t, r) == /\ Goto(t, "idle")
                /\ left' = [left EXCEPT ![t] = Tail(@)]
                /\ ret' = [ret EXCEPT ![t] = r]

(* a step of t that only moves on: it changes nothing but pc *)
Move(t, from, to) == /\ pc[t] = from
                     /\ Goto(t, to)
                     /\ UNCHANGED <<mem, idx, arg, item, left, ret, hist>>

Call(t) == /\ left[t] # << >>
           /\ Move(t, "idle", IF Head(left[t]).op = "push" THEN "p_load" ELSE "o_load")

-----------------------------------------------------------------------------
(* push(item, wait) *)

(* full(i) reads in again when i is negative, before it reads out. *)
ArgOf(c, first, second) == IF c < 0 THEN first ELSE second

(* i = in *)
PushLoad(t) == /\ pc[t] = "p_load"
               /\ idx' = [idx EXCEPT ![t] = in]
               /\ arg' = [arg EXCEPT ![t] = in]
               /\ Goto(t, ArgOf(in, "p_tryin", "p_try"))
               /\ UNCHANGED <<mem, item, left, ret, hist>>

(* if (i < 0) i = in, in full(i) *)
FullArg(t, from, to) == /\ pc[t] = from
                        /\ arg' = [arg EXCEPT ![t] = in]
                        /\ Goto(t, to)
                        /\ UNCHANGED <<mem, idx, item, left, ret, hist>>

(* Mutant of IsFull: one seat too many. *)
IsFullLate(t) == arg[t] - out > mask + 1

IsFull(t) == arg[t] - out > mask

(* full(i) && !wait: return 0 *)
PushRefused(t) == /\ pc[t] = "p_try"
                  /\ IsFull(t) /\ ~Waits(t)
                  /\ Return(t, 0)
                  /\ UNCHANGED <<mem, idx, arg, item, hist>>

PushTry(t) == Move(t, "p_try", "p_run") /\ (IsFull(t) => Waits(t))

(* !running(): return 0 *)
PushStopped(t) == /\ pc[t] = "p_run"
                  /\ ~running
                  /\ Return(t, 0)
                  /\ UNCHANGED <<mem, idx, arg, item, hist>>

PushRunning(t) == running /\ Move(t, "p_run", ArgOf(idx[t], "p_waitin", "p_wait"))

(* WAIT(!full(i) || !running()): one turn of the loop *)
PushWait(t) == Move(t, "p_wait", IF IsFull(t) THEN "p_waitrun" ELSE "p_slot")

(* Mutant of PushWaitRun: the wait does not look at running(). *)
PushWaitRunDeaf(t) == Move(t, "p_waitrun", ArgOf(idx[t], "p_waitin", "p_wait"))

PushWaitRun(t) ==
    Move(t, "p_waitrun", IF running THEN ArgOf(idx[t], "p_waitin", "p_wait") ELSE "p_slot")

(* Mutant of PushSlot: the cell is not tested before the claim. *)
PushSlotUntested(t) == Move(t, "p_slot", "p_cas")

(* the test of isfree[i & mask] *)
PushSlot(t) == Move(t, "p_slot", IF isfree[Slot(idx[t])] THEN "p_cas" ELSE "p_load")

(* in.compare_exchange_weak(i, i + 1) succeeds; a claim of 0 is given up *)
PushClaim(t) == /\ pc[t] = "p_cas"
                /\ in = idx[t]
                /\ in' = in + 1
                /\ Goto(t, IF idx[t] = 0 THEN "p_load" ELSE "p_store")
                /\ UNCHANGED <<buffer, isfree, out, running, idx, arg, item, left, ret, hist>>

PushRetry(t) == Move(t, "p_cas", "p_load")

(* buffer[i & mask] = item *)
PushStore(t) == /\ pc[t] = "p_store"
                /\ buffer' = [buffer EXCEPT ![Slot(idx[t])] = idx[t]]
                /\ Goto(t, "p_mark")
                /\ UNCHANGED <<isfree, in, out, running, idx, arg, item, left, ret, hist>>

(* isfree[i & mask] = 0; return i *)
PushMark(t) == /\ pc[t] = "p_mark"
               /\ isfree' = [isfree EXCEPT ![Slot(idx[t])] = FALSE]
               /\ Return(t, idx[t])
               /\ UNCHANGED <<buffer, in, out, running, idx, arg, item, hist>>

-----------------------------------------------------------------------------
(* pop(item, wait) *)

(* Mutant of PopLoad: ticket 0 is not skipped. *)
PopLoadZero(t) == /\ pc[t] = "o_load"
                  /\ idx' = [idx EXCEPT ![t] = out]
                  /\ arg' = [arg EXCEPT ![t] = out]
                  /\ Goto(t, ArgOf(out, "o_tryout", "o_try"))
                  /\ UNCHANGED <<mem, item, left, ret, hist>>

(* o = out *)
PopLoad(t) == /\ pc[t] = "o_load"
              /\ idx' = [idx EXCEPT ![t] = out]
              /\ arg' = [arg EXCEPT ![t] = out]
              /\ Goto(t, IF out = 0 THEN "o_skip" ELSE ArgOf(out, "o_tryout", "o_try"))
              /\ UNCHANGED <<mem, item, left, ret, hist>>

(* out.compare_exchange_weak(o, 1) succeeds: ticket 0 is skipped, o stays 0 *)
PopSkip(t) == /\ pc[t] = "o_skip"
              /\ out = 0
              /\ out' = 1
              /\ Goto(t, "o_try")
              /\ UNCHANGED <<buffer, isfree, in, running, idx, arg, item, left, ret, hist>>

PopSkipRetry(t) == Move(t, "o_skip", "o_load")

(* if (o < 0) o = out, in empty(o) *)
EmptyArg(t, from, to) == /\ pc[t] = from
                         /\ arg' = [arg EXCEPT ![t] = out]
                         /\ Goto(t, to)
                         /\ UNCHANGED <<mem, idx, item, left, ret, hist>>

IsEmpty(t) == arg[t] = in

(* empty(o) && !wait: return 0 *)
PopRefused(t) == /\ pc[t] = "o_try"
                 /\ IsEmpty(t) /\ ~Waits(t)
                 /\ Return(t, 0)
                 /\ UNCHANGED <<mem, idx, arg, item, hist>>

PopTry(t) == Move(t, "o_try", "o_run") /\ (IsEmpty(t) => Waits(t))

(* !running(): return 0 *)
PopStopped(t) == /\ pc[t] = "o_run"
                 /\ ~running
                 /\ Return(t, 0)
                 /\ UNCHANGED <<mem, idx, arg, item, hist>>

PopRunning(t) == running /\ Move(t, "o_run", ArgOf(idx[t], "o_waitout", "o_wait"))

(* WAIT(!empty(o) || !running()): one turn of the loop *)
PopWait(t) == Move(t, "o_wait", IF IsEmpty(t) THEN "o_waitrun" ELSE "o_slot")

(* Mutant of PopWaitRun: the wait does not look at running(). *)
PopWaitRunDeaf(t) == Move(t, "o_waitrun", ArgOf(idx[t], "o_waitout", "o_wait"))

PopWaitRun(t) ==
    Move(t, "o_waitrun", IF running THEN ArgOf(idx[t], "o_waitout", "o_wait") ELSE "o_slot")

(* Mutant of PopSlot: the cell is not tested before the claim. *)
PopSlotUntested(t) == Move(t, "o_slot", "o_cas")

(* the test of isfree[o & mask] *)
PopSlot(t) == Move(t, "o_slot", IF isfree[Slot(idx[t])] THEN "o_load" ELSE "o_cas")

(* Mutant of PopClaim: a store, without the comparison. *)
PopClaimStored(t) == /\ pc[t] = "o_cas"
                     /\ out' = idx[t] + 1
                     /\ Goto(t, "o_take")
                     /\ UNCHANGED <<buffer, isfree, in, running, idx, arg, item, left, ret, hist>>

(* out.compare_exchange_weak(o, o + 1) succeeds *)
PopClaim(t) == /\ pc[t] = "o_cas"
               /\ out = idx[t]
               /\ out' = out + 1
               /\ Goto(t, "o_take")
               /\ UNCHANGED <<buffer, isfree, in, running, idx, arg, item, left, ret, hist>>

PopRetry(t) == Move(t, "o_cas", "o_load")

(* item = buffer[o & mask] *)
PopTake(t) == /\ pc[t] = "o_take"
              /\ item' = [item EXCEPT ![t] = buffer[Slot(idx[t])]]
              /\ Goto(t, "o_free")
              /\ UNCHANGED <<mem, idx, arg, left, ret, hist>>

(* What the pop of t delivers.  The calls t has still to make tell apart    *)
(* two calls of t that deliver the same.                                    *)
Delivery(t) == [by |-> t, toGo |-> Len(left[t]), ticket |-> idx[t], item |-> item[t]]

(* Mutant of PopFree: the cell stays taken. *)
PopFreeForgotten(t) == /\ pc[t] = "o_free"
                       /\ recv' = recv \cup {Delivery(t)}
                       /\ Return(t, idx[t])
                       /\ UNCHANGED <<mem, idx, arg, item, stops, stopped>>

(* isfree[o & mask] = 1; return o *)
PopFree(t) == /\ pc[t] = "o_free"
              /\ isfree' = [isfree EXCEPT ![Slot(idx[t])] = TRUE]
              /\ recv' = recv \cup {Delivery(t)}
              /\ Return(t, idx[t])
              /\ UNCHANGED <<buffer, in, out, running, idx, arg, item, stops, stopped>>

-----------------------------------------------------------------------------
(* Actor::stop(), called by a thread that does not use the queue *)
Stop == /\ stops > 0
        /\ running
        /\ running' = FALSE
        /\ stops' = stops - 1
        /\ stopped' = TRUE
        /\ UNCHANGED <<buffer, isfree, in, out, pc, idx, arg, item, left, ret, recv>>

(* Actor::start(), called to resume a stopped queue *)
Start == /\ ~running
         /\ running' = TRUE
         /\ UNCHANGED <<buffer, isfree, in, out, pc, idx, arg, item, left, ret, hist>>

PushStep(t) == \/ PushLoad(t)
               \/ FullArg(t, "p_tryin", "p_try") \/ FullArg(t, "p_waitin", "p_wait")
               \/ PushRefused(t) \/ PushTry(t)
               \/ PushStopped(t) \/ PushRunning(t)
               \/ PushWait(t) \/ PushWaitRun(t)
               \/ PushSlot(t) \/ PushClaim(t) \/ PushRetry(t)
               \/ PushStore(t) \/ PushMark(t)

PopStep(t) == \/ PopLoad(t) \/ PopSkip(t) \/ PopSkipRetry(t)
              \/ EmptyArg(t, "o_tryout", "o_try") \/ EmptyArg(t, "o_waitout", "o_wait")
              \/ PopRefused(t) \/ PopTry(t)
              \/ PopStopped(t) \/ PopRunning(t)
              \/ PopWait(t) \/ PopWaitRun(t)
              \/ PopSlot(t) \/ PopClaim(t) \/ PopRetry(t)
              \/ PopTake(t) \/ PopFree(t)

Step(t) == Call(t) \/ PushStep(t) \/ PopStep(t)

(* every script has been played *)
Finished == \A t \in Threads : left[t] = << >>

Ended == Finished /\ UNCHANGED vars

Next == (\E t \in Threads : Step(t)) \/ Stop \/ Start \/ Ended

(* Every thread is scheduled again and again (the waits yield), and a       *)
(* compare-and-swap that keeps finding the expected value is not failed     *)
(* spuriously for ever.                                                     *)
Fairness == \A t \in Threads : /\ WF_vars(Step(t))
                               /\ SF_vars(PushClaim(t) \/ PopClaim(t) \/ PopSkip(t))

Spec == Init /\ [][Next]_vars /\ Fairness

-----------------------------------------------------------------------------
(* Properties.  After stop() a pop may claim a ticket of an empty queue     *)
(* (DeliveredOnce), so the ticket discipline is stated until then.          *)

(* Every pop returns the item that was pushed with its own ticket, never    *)
(* ticket 0 and never a value that was not pushed, and no two pops are      *)
(* served with the same ticket: every item comes out once at most.          *)
TicketFifo == stopped \/
    /\ \A r \in recv : r.item = r.ticket /\ r.ticket # 0
    /\ \A r, s \in recv : r.ticket = s.ticket => r = s

(* No item is delivered to two pops. *)
DeliveredOnce == \A r, s \in recv : r.item = s.item => r = s

(* Threads that own a ticket and have not finished with its cell. *)
Owners == {t \in Threads : pc[t] \in {"p_store", "p_mark", "o_take", "o_free"}}

(* No two owners share a cell, although buffer and isfree are plain memory. *)
CellsExclusive == stopped \/ \A t, u \in Owners : t # u => Slot(idx[t]) # Slot(idx[u])

(* `in' is at most a lap ahead of `out', and `out' overtakes `in' at most   *)
(* by the one ticket that a pop skips before a push does.                   *)
LapBound == stopped \/ (in - out \in (-1)..Size /\ (out > in => out = 1 /\ in = 0))

(* When no call is under way, the cells marked as taken are those of the    *)
(* tickets in the queue, and each of them holds the item of its ticket.     *)
AtRest == ~stopped /\ (\A t \in Threads : pc[t] = "idle") =>
             LET queued == {k \in out..(in - 1) : k # 0}
             IN  /\ \A s \in Slots : isfree[s] <=> ~\E k \in queued : Slot(k) = s
                 /\ \A k \in queued : buffer[Slot(k)] = k

(* If nobody may stop the queue, every call of every script returns. *)
AllReturn == stops = 0 => <>Finished

(* Once the queue is stopped for good, every call returns, also the ones    *)
(* that were waiting for a seat or an item.                                 *)
StopReleases == <>[](~running) => <>Finished
=============================================================================
