------------------------------ MODULE OpenQueue ------------------------------
(***************************************************************************)
(* uniq::OpenQueue<T> of cpp/lib/OpenQueue.h: the std::queue behind a mutex *)
(* and a condition variable that the lock-free queue is compared with.      *)
(*                                                                         *)
(* The code that runs with the mutex held is one action.  push looks at the *)
(* size of the queue before it takes the mutex.  A pop that finds the queue *)
(* empty releases the mutex and sleeps on notEmpty until it is notified, or *)
(* wakes up spuriously; it then takes the mutex and looks again.  Both      *)
(* ignore their wait flag and running().                                    *)
(*                                                                         *)
(* The item of the n-th push is written n, the ticket that push returns.    *)
(***************************************************************************)
EXTENDS Integers, Sequences, FiniteSets

CONSTANTS Pushers, Poppers,  \* threads that push, threads that pop
          PushCalls,         \* bound: pushes of each pusher
          PopCalls,          \* bound: pops of each popper
          maxsize,           \* the constructor's argument; 0 is unlimited
          MaxSpurious        \* bound: spurious wake-ups

ASSUME BoundsAssumption == {PushCalls, PopCalls, maxsize, MaxSpurious} \subseteq Nat
ASSUME RolesAssumption == Pushers \cap Poppers = {}
ASSUME FiniteAssumption == IsFiniteSet(Pushers) /\ IsFiniteSet(Poppers)

VARIABLES q,        \* the std::queue
          in, out,  \* the counters
          pc,       \* pc[t]: where t is
          calls,    \* calls[t]: calls that t has still to make
          spurious, \* spurious wake-ups so far
          recv      \* history: <<ticket, item>> of every pop

vars == <<q, in, out, pc, calls, spurious, recv>>

Threads == Pushers \cup Poppers

Init == /\ q = << >>
        /\ in = 1 /\ out = 1
        /\ pc = [t \in Threads |-> "idle"]
        /\ calls = [t \in Threads |-> IF t \in Pushers THEN PushCalls ELSE PopCalls]
        /\ spurious = 0
        /\ recv = {}

Goto(t, label) == pc' = [pc EXCEPT ![t] = label]

Call(t, label) == /\ pc[t] = "idle"
                  /\ calls[t] > 0
                  /\ calls' = [calls EXCEPT ![t] = @ - 1]
                  /\ Goto(t, label)
                  /\ UNCHANGED <<q, in, out, spurious, recv>>

CallPush(t) == Call(t, "p_wait")
CallPop(t)  == Call(t, "o_lock")

(* Mutant of PushWait: the size is not looked at. *)
PushWaitNot(t) == /\ pc[t] = "p_wait"
                  /\ Goto(t, "p_lock")
                  /\ UNCHANGED <<q, in, out, calls, spurious, recv>>

(* if (maxsize) WAIT(q.size() < maxsize), without the mutex *)
PushWait(t) == /\ pc[t] = "p_wait"
               /\ maxsize # 0 => Len(q) < maxsize
               /\ Goto(t, "p_lock")
               /\ UNCHANGED <<q, in, out, calls, spurious, recv>>

Waiting == {t \in Poppers : pc[t] = "o_sleep"}

(* Mutant of PushLocked: the waiters are not notified. *)
PushLockedSilent(t) == /\ pc[t] = "p_lock"
                       /\ q' = Append(q, in)
                       /\ in' = in + 1
                       /\ Goto(t, "idle")
                       /\ UNCHANGED <<out, calls, spurious, recv>>

(* lock; q.push(item); notEmpty.notify_one(); return in++ *)
PushLocked(t) == /\ pc[t] = "p_lock"
                 /\ q' = Append(q, in)
                 /\ in' = in + 1
                 /\ \/ Waiting = {} /\ Goto(t, "idle")
                    \/ \E w \in Waiting : pc' = [pc EXCEPT ![t] = "idle", ![w] = "o_lock"]
                 /\ UNCHANGED <<out, calls, spurious, recv>>

(* lock; the queue is empty: release the mutex and sleep *)
PopSleep(t) == /\ pc[t] = "o_lock"
               /\ q = << >>
               /\ Goto(t, "o_sleep")
               /\ UNCHANGED <<q, in, out, calls, spurious, recv>>

(* the condition variable wakes t although nobody notified it *)
SpuriousWakeup(t) == /\ pc[t] = "o_sleep"
                     /\ spurious < MaxSpurious
                     /\ spurious' = spurious + 1
                     /\ Goto(t, "o_lock")
                     /\ UNCHANGED <<q, in, out, calls, recv>>

(* Mutant of PopLocked: the newest item is taken. *)
PopLockedNewest(t) == /\ pc[t] = "o_lock"
                      /\ q # << >>
                      /\ recv' = recv \cup {<<out, q[Len(q)]>>}
                      /\ q' = SubSeq(q, 1, Len(q) - 1)
                      /\ out' = out + 1
                      /\ Goto(t, "idle")
                      /\ UNCHANGED <<in, calls, spurious>>

(* lock; the queue is not empty: item = q.front(); q.pop(); return out++ *)
PopLocked(t) == /\ pc[t] = "o_lock"
                /\ q # << >>
                /\ recv' = recv \cup {<<out, Head(q)>>}
                /\ q' = Tail(q)
                /\ out' = out + 1
                /\ Goto(t, "idle")
                /\ UNCHANGED <<in, calls, spurious>>

PushStep(t) == CallPush(t) \/ PushWait(t) \/ PushLocked(t)
PopStep(t)  == CallPop(t) \/ PopSleep(t) \/ PopLocked(t)

Finished == \A t \in Threads : pc[t] = "idle" /\ calls[t] = 0

Next == \/ \E t \in Pushers : PushStep(t)
        \/ \E t \in Poppers : PopStep(t) \/ SpuriousWakeup(t)
        \/ Finished /\ UNCHANGED vars

(* Threads are scheduled again and again; nothing is assumed of spurious    *)
(* wake-ups.  A thread that wants the mutex may lose it to others any       *)
(* finite number of times, and the calls are finite.                        *)
Fairness == /\ \A t \in Pushers : WF_vars(PushStep(t))
            /\ \A t \in Poppers : WF_vars(PopStep(t))

Spec == Init /\ [][Next]_vars /\ Fairness

-----------------------------------------------------------------------------
(* Properties *)

(* The items come out in the order in which they were pushed, and the value *)
(* pop returns is the one that push returned for the item, since both       *)
(* counters move with the mutex held.                                       *)
TicketFifo == /\ \A r \in recv : r[1] = r[2]
              /\ \A k \in 1..Len(q) : q[k] = out + k - 1
              /\ in = out + Len(q)

(* The size is looked at without the mutex, so maxsize is overrun, but by   *)
(* no more than the other pushers that passed the test.                     *)
OverrunBounded == maxsize # 0 =>
                    Len(q) < maxsize + Cardinality(Pushers)

(* No wake-up is lost: while a popper sleeps, every item in the queue has a *)
(* popper that is awake and about to look.                                  *)
NoLostWakeup == Waiting # {} =>
                  Len(q) <= Cardinality({t \in Poppers : pc[t] = "o_lock"})

(* When as many items are popped as pushed, every call returns. *)
AllReturn == <>Finished
=============================================================================
