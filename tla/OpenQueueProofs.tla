-------------------------- MODULE OpenQueueProofs ---------------------------
(***************************************************************************)
(* Proofs about OpenQueue for every number of pushers and poppers, every    *)
(* maxsize and every number of calls and of spurious wake-ups.              *)
(***************************************************************************)
EXTENDS OpenQueue, SequenceTheorems, FiniteSetTheorems, TLAPS

Labels == {"idle", "p_wait", "p_lock", "o_lock", "o_sleep"}

(* The values of the variables. *)
TypeOK == /\ q \in Seq(Int)
          /\ in \in Int /\ out \in Int
          /\ pc \in [Threads -> Labels]
          /\ calls \in [Threads -> Nat]
          /\ spurious \in 0..MaxSpurious
          /\ recv \subseteq Int \X Int

(* A pusher that has passed the test of the size, a popper about to look. *)
Locking == {t \in Pushers : pc[t] = "p_lock"}
Looking == {t \in Poppers : pc[t] = "o_lock"}

(* The overrun counts the pushers that will still add an item: each of them *)
(* passed the test, and the last one that did saw the queue below maxsize.  *)
Overrun == maxsize # 0 =>
             Len(q) + Cardinality(Locking) < maxsize + Cardinality(Pushers)

Wakeup == Waiting # {} => Len(q) <= Cardinality(Looking)

Inv == TypeOK /\ TicketFifo /\ Overrun /\ Wakeup

-----------------------------------------------------------------------------
(* One thread more or less in a finite set. *)
LEMMA OneMore ==
  ASSUME NEW S, IsFiniteSet(S), NEW x, x \notin S
  PROVE  /\ IsFiniteSet(S \cup {x})
         /\ Cardinality(S) \in Nat
         /\ Cardinality(S \cup {x}) = Cardinality(S) + 1
BY FS_AddElement, FS_CardinalityType

LEMMA OneLess ==
  ASSUME NEW S, IsFiniteSet(S), NEW x \in S
  PROVE  /\ Cardinality(S) \in Nat
         /\ Cardinality(S \ {x}) \in Nat
         /\ Cardinality(S \ {x}) = Cardinality(S) - 1
BY FS_RemoveElement, FS_CardinalityType

(* The sets of threads that the invariant counts are finite. *)
LEMMA Counts ==
  /\ IsFiniteSet(Locking) /\ IsFiniteSet(Looking)
  /\ Cardinality(Locking) \in Nat /\ Cardinality(Looking) \in Nat
  /\ Cardinality(Pushers) \in Nat
  /\ Cardinality(Locking) <= Cardinality(Pushers)
<1>1. Locking \subseteq Pushers /\ Looking \subseteq Poppers
  BY DEF Locking, Looking
<1> QED
  BY <1>1, FiniteAssumption, FS_Subset, FS_CardinalityType

-----------------------------------------------------------------------------
LEMMA InitInv == Init => Inv
<1> SUFFICES ASSUME Init PROVE Inv
  OBVIOUS
<1> USE BoundsAssumption
<1>1. TypeOK
  BY DEF Init, TypeOK, Labels, Threads
<1>2. TicketFifo
  BY DEF Init, TicketFifo
<1>3. Locking = {} /\ Waiting = {}
  BY DEF Init, Locking, Waiting, Threads
<1>4. maxsize # 0 => Cardinality(Locking) < maxsize + Cardinality(Pushers)
  BY <1>3, FS_EmptySet, Counts
<1>5. Overrun
  BY <1>4, Counts DEF Init, Overrun
<1>6. Wakeup
  BY <1>3 DEF Wakeup
<1> QED
  BY <1>1, <1>2, <1>5, <1>6 DEF Inv

(* A step that changes only where threads are keeps the order. *)
LEMMA SameOrder ==
  ASSUME TicketFifo, UNCHANGED <<q, in, out, recv>>
  PROVE  TicketFifo'
BY DEF TicketFifo

-----------------------------------------------------------------------------
(* A call begins. *)
LEMMA CallStep ==
  ASSUME Inv, NEW t \in Threads, NEW label,
         \/ t \in Pushers /\ label = "p_wait"
         \/ t \in Poppers /\ label = "o_lock",
         Call(t, label)
  PROVE  Inv'
<1> USE RolesAssumption
<1>1. TypeOK'
  <2>1. pc' \in [Threads -> Labels]
    BY DEF Inv, TypeOK, Call, Goto, Labels
  <2>2. calls' \in [Threads -> Nat]
    BY DEF Inv, TypeOK, Call
  <2> QED
    BY <2>1, <2>2 DEF Inv, TypeOK, Call
<1>2. TicketFifo'
  BY SameOrder DEF Inv, Call
<1>3. Locking' = Locking /\ Waiting' = Waiting
  BY DEF Inv, TypeOK, Call, Goto, Locking, Waiting, Threads
<1>4. Overrun'
  BY <1>3 DEF Inv, Overrun, Call
<1>5. \/ Looking' = Looking
      \/ t \notin Looking /\ Looking' = Looking \cup {t}
  BY DEF Inv, TypeOK, Call, Goto, Looking, Threads
<1>6. Cardinality(Looking) <= Cardinality(Looking')
  BY <1>5, Counts, OneMore
<1>7. Cardinality(Looking') \in Nat
  BY <1>5, Counts, OneMore
<1>8. Wakeup'
  <2>1. Len(q) \in Nat
    BY DEF Inv, TypeOK
  <2>2. Len(q') = Len(q)
    BY DEF Call
  <2> QED
    BY <1>3, <1>6, <1>7, <2>1, <2>2, Counts DEF Inv, Wakeup
<1> QED
  BY <1>1, <1>2, <1>4, <1>8 DEF Inv

(* A push passes the test of the size. *)
LEMMA PushWaitStep ==
  ASSUME Inv, NEW t \in Pushers, PushWait(t)
  PROVE  Inv'
<1> USE RolesAssumption, BoundsAssumption
<1>1. TypeOK'
  BY DEF Inv, TypeOK, PushWait, Goto, Labels, Threads
<1>2. TicketFifo'
  BY SameOrder DEF Inv, PushWait
<1>3. Looking' = Looking /\ Waiting' = Waiting
  BY DEF Inv, TypeOK, PushWait, Goto, Looking, Waiting, Threads
<1>4. Wakeup'
  BY <1>3 DEF Inv, Wakeup, PushWait
<1>5. Locking' \subseteq Pushers
  BY DEF Locking
<1>6. /\ Cardinality(Locking') <= Cardinality(Pushers)
      /\ Cardinality(Locking') \in Nat
  BY <1>5, FiniteAssumption, FS_Subset, FS_CardinalityType
<1>7. Overrun'
  <2>1. Len(q) \in Nat
    BY DEF Inv, TypeOK
  <2>2. Len(q') = Len(q) /\ (maxsize # 0 => Len(q) < maxsize)
    BY DEF PushWait
  <2> QED
    BY <1>6, <2>1, <2>2, Counts DEF Overrun
<1> QED
  BY <1>1, <1>2, <1>4, <1>7 DEF Inv

(* A push adds its item, and wakes a sleeper if there is one. *)
LEMMA PushLockedStep ==
  ASSUME Inv, NEW t \in Pushers, PushLocked(t)
  PROVE  Inv'
<1> USE RolesAssumption, BoundsAssumption
<1>1. /\ Len(q') = Len(q) + 1 /\ Len(q) \in Nat /\ q' \in Seq(Int)
      /\ \A k \in 1..Len(q) : q'[k] = q[k]
      /\ q'[Len(q) + 1] = in
  BY DEF Inv, TypeOK, PushLocked
<1>2. TypeOK'
  <2>1. pc' \in [Threads -> Labels]
    BY DEF Inv, TypeOK, PushLocked, Goto, Labels, Threads, Waiting
  <2> QED
    BY <1>1, <2>1 DEF Inv, TypeOK, PushLocked
<1>3. TicketFifo'
  BY <1>1 DEF Inv, TypeOK, TicketFifo, PushLocked
<1>4. t \in Locking /\ Locking' = Locking \ {t}
  BY DEF Inv, TypeOK, PushLocked, Goto, Locking, Waiting, Threads
<1>5. /\ Cardinality(Locking') \in Nat
      /\ Cardinality(Locking') = Cardinality(Locking) - 1
  BY <1>4, Counts, OneLess
<1>6. Overrun'
  BY <1>1, <1>5, Counts DEF Inv, Overrun
<1>7. Wakeup'
  <2>1. CASE Waiting = {} /\ Goto(t, "idle")
    <3>1. Waiting' = {}
      BY <2>1 DEF Inv, TypeOK, Goto, Waiting, Threads
    <3> QED
      BY <3>1 DEF Wakeup
  <2>2. CASE \E w \in Waiting : pc' = [pc EXCEPT ![t] = "idle", ![w] = "o_lock"]
    <3>1. PICK w \in Waiting : pc' = [pc EXCEPT ![t] = "idle", ![w] = "o_lock"]
      BY <2>2
    <3>2. w \notin Looking /\ Looking' = Looking \cup {w}
      BY <3>1 DEF Inv, TypeOK, PushLocked, Looking, Waiting, Threads
    <3>3. Cardinality(Looking') = Cardinality(Looking) + 1
      BY <3>2, Counts, OneMore
    <3> QED
      BY <1>1, <3>1, <3>3, Counts DEF Inv, Wakeup
  <2> QED
    BY <2>1, <2>2 DEF PushLocked
<1> QED
  BY <1>2, <1>3, <1>6, <1>7 DEF Inv

(* A pop finds the queue empty and sleeps. *)
LEMMA PopSleepStep ==
  ASSUME Inv, NEW t \in Poppers, PopSleep(t)
  PROVE  Inv'
<1> USE RolesAssumption
<1>1. TypeOK'
  BY DEF Inv, TypeOK, PopSleep, Goto, Labels, Threads
<1>2. TicketFifo'
  BY SameOrder DEF Inv, PopSleep
<1>3. Locking' = Locking
  BY DEF Inv, TypeOK, PopSleep, Goto, Locking, Threads
<1>4. Overrun'
  BY <1>3 DEF Inv, Overrun, PopSleep
<1>5. t \in Looking /\ Looking' = Looking \ {t}
  BY DEF Inv, TypeOK, PopSleep, Goto, Looking, Threads
<1>6. Cardinality(Looking') \in Nat
  BY <1>5, Counts, OneLess
<1>7. Wakeup'
  BY <1>6 DEF Wakeup, PopSleep
<1> QED
  BY <1>1, <1>2, <1>4, <1>7 DEF Inv

(* A sleeper wakes up by itself. *)
LEMMA SpuriousStep ==
  ASSUME Inv, NEW t \in Poppers, SpuriousWakeup(t)
  PROVE  Inv'
<1> USE RolesAssumption, BoundsAssumption
<1>1. TypeOK'
  BY DEF Inv, TypeOK, SpuriousWakeup, Goto, Labels, Threads
<1>2. TicketFifo'
  BY SameOrder DEF Inv, SpuriousWakeup
<1>3. Locking' = Locking /\ t \in Waiting
  BY DEF Inv, TypeOK, SpuriousWakeup, Goto, Locking, Waiting, Threads
<1>4. Overrun'
  BY <1>3 DEF Inv, Overrun, SpuriousWakeup
<1>5. t \notin Looking /\ Looking' = Looking \cup {t}
  BY DEF Inv, TypeOK, SpuriousWakeup, Goto, Looking, Threads
<1>6. Cardinality(Looking') = Cardinality(Looking) + 1
  BY <1>5, Counts, OneMore
<1>7. Wakeup'
  <2>1. Len(q) \in Nat /\ Len(q') = Len(q)
    BY DEF Inv, TypeOK, SpuriousWakeup
  <2> QED
    BY <1>3, <1>6, <2>1, Counts DEF Inv, Wakeup
<1> QED
  BY <1>1, <1>2, <1>4, <1>7 DEF Inv

(* A pop takes the oldest item. *)
LEMMA PopLockedStep ==
  ASSUME Inv, NEW t \in Poppers, PopLocked(t)
  PROVE  Inv'
<1> USE RolesAssumption, BoundsAssumption
<1>1. /\ Len(q) \in Nat /\ Len(q) >= 1 /\ Len(q') = Len(q) - 1
      /\ q' \in Seq(Int) /\ Head(q) \in Int /\ Head(q) = q[1]
      /\ \A k \in 1..Len(q') : q'[k] = q[k + 1]
  <2>1. q \in Seq(Int) /\ q # << >> /\ q' = Tail(q)
    BY DEF Inv, TypeOK, PopLocked
  <2> QED
    BY <2>1, HeadTailProperties, EmptySeq
<1>2. TypeOK'
  <2>1. pc' \in [Threads -> Labels]
    BY DEF Inv, TypeOK, PopLocked, Goto, Labels, Threads
  <2> QED
    BY <1>1, <2>1 DEF Inv, TypeOK, PopLocked
<1>3. TicketFifo'
  <2>1. Head(q) = out /\ in' = out' + Len(q')
    BY <1>1 DEF Inv, TypeOK, TicketFifo, PopLocked
  <2>2. \A k \in 1..Len(q') : q'[k] = out' + k - 1
    BY <1>1 DEF Inv, TypeOK, TicketFifo, PopLocked
  <2>3. \A r \in recv' : r[1] = r[2]
    BY <2>1 DEF Inv, TicketFifo, PopLocked
  <2> QED
    BY <2>1, <2>2, <2>3 DEF TicketFifo
<1>4. Locking' = Locking /\ Waiting' = Waiting
  BY DEF Inv, TypeOK, PopLocked, Goto, Locking, Waiting, Threads
<1>5. Overrun'
  BY <1>1, <1>4, Counts DEF Inv, Overrun
<1>6. t \in Looking /\ Looking' = Looking \ {t}
  BY DEF Inv, TypeOK, PopLocked, Goto, Looking, Threads
<1>7. Cardinality(Looking') = Cardinality(Looking) - 1
  BY <1>6, Counts, OneLess
<1>8. Wakeup'
  BY <1>1, <1>4, <1>7, Counts DEF Inv, Wakeup
<1> QED
  BY <1>2, <1>3, <1>5, <1>8 DEF Inv

LEMMA NextInv == Inv /\ [Next]_vars => Inv'
<1> SUFFICES ASSUME Inv, [Next]_vars PROVE Inv'
  OBVIOUS
<1>1. ASSUME NEW t \in Pushers, PushStep(t) PROVE Inv'
  <2>1. CASE CallPush(t)
    BY <2>1, CallStep DEF CallPush, Threads
  <2>2. CASE PushWait(t) \/ PushLocked(t)
    BY <2>2, PushWaitStep, PushLockedStep
  <2> QED
    BY <1>1, <2>1, <2>2 DEF PushStep
<1>2. ASSUME NEW t \in Poppers, PopStep(t) PROVE Inv'
  <2>1. CASE CallPop(t)
    BY <2>1, CallStep DEF CallPop, Threads
  <2>2. CASE PopSleep(t) \/ PopLocked(t)
    BY <2>2, PopSleepStep, PopLockedStep
  <2> QED
    BY <1>2, <2>1, <2>2 DEF PopStep
<1>3. CASE UNCHANGED vars
  BY <1>3 DEF vars, Inv, TypeOK, TicketFifo, Overrun, Wakeup, Locking, Looking, Waiting
<1> QED
  BY <1>1, <1>2, <1>3, SpuriousStep DEF Next

-----------------------------------------------------------------------------
(* The inductive invariant of the mutex-protected queue holds for every     *)
(* number of threads, every maxsize and every number of calls.              *)
THEOREM InvCorrect == Spec => []Inv
<1> QED
  BY InitInv, NextInv, PTL DEF Spec

(* push and pop return equal tickets for the same item, and the items come  *)
(* out in the order in which the pushes took the mutex.                     *)
THEOREM TicketFifoHolds == Spec => []TicketFifo
<1>1. Inv => TicketFifo
  BY DEF Inv
<1> QED
  BY <1>1, InvCorrect, PTL

(* A push that tests the size without the mutex overruns maxsize by fewer   *)
(* items than there are pushers.                                            *)
THEOREM OverrunBoundedHolds == Spec => []OverrunBounded
<1>1. Inv => OverrunBounded
  <2> SUFFICES ASSUME Inv, maxsize # 0
               PROVE  Len(q) < maxsize + Cardinality(Pushers)
    BY DEF OverrunBounded
  <2>1. Len(q) \in Nat /\ maxsize \in Nat
    BY BoundsAssumption DEF Inv, TypeOK
  <2> QED
    BY <2>1, Counts DEF Inv, Overrun
<1> QED
  BY <1>1, InvCorrect, PTL

(* push notifies one sleeper with the mutex held, and that is enough: while *)
(* a pop sleeps, every item has a popper that is awake and will look.       *)
THEOREM NoLostWakeupHolds == Spec => []NoLostWakeup
<1>1. Inv => NoLostWakeup
  BY DEF Inv, Wakeup, NoLostWakeup, Looking
<1> QED
  BY <1>1, InvCorrect, PTL
=============================================================================
