-------------------------- MODULE UniqQueueProofs ---------------------------
(***************************************************************************)
(* Proofs about UniqQueue for every set of threads, every scripts and every *)
(* queue of more than two cells: until stop() is called, the tickets from   *)
(* -1 on are handed out and served in order, ticket 0 excepted.             *)
(***************************************************************************)
EXTENDS UniqQueue, FiniteSetTheorems, WellFoundedInduction, TLAPS

Labels == {"idle", "p_load", "p_tryin", "p_try", "p_run", "p_waitin", "p_wait",
           "p_waitrun", "p_slot", "p_cas", "p_store", "p_mark",
           "o_load", "o_skip", "o_tryout", "o_try", "o_run", "o_waitout", "o_wait",
           "o_waitrun", "o_slot", "o_cas", "o_take", "o_free"}

(* The values of the variables. *)
TypeOK == /\ buffer \in [Slots -> Int]
          /\ isfree \in [Slots -> BOOLEAN]
          /\ in \in Int /\ in >= -1
          /\ out \in Int /\ out >= -1
          /\ running \in BOOLEAN /\ stopped \in BOOLEAN
          /\ stopped \/ running
          /\ pc \in [Threads -> Labels]
          /\ idx \in [Threads -> Int] /\ \A t \in Threads : idx[t] >= -1
          /\ arg \in [Threads -> Int]
          /\ item \in [Threads -> Int]
          /\ left \in [Threads -> Seq(Calls)]
          /\ \A t \in Threads : pc[t] # "idle" => left[t] # << >>
          /\ stops \in Nat
          /\ ret \in [Threads -> Int]
          /\ recv \subseteq [by : Threads, toGo : Nat, ticket : Int, item : Int]

-----------------------------------------------------------------------------
(* A push that has read `in' and owns nothing yet. *)
Pushing(t) == pc[t] \in {"p_tryin", "p_try", "p_run", "p_waitin", "p_wait",
                         "p_waitrun", "p_slot", "p_cas"}

(* A pop that has read `out' and owns nothing yet. *)
Popping(t) == pc[t] \in {"o_skip", "o_tryout", "o_try", "o_run", "o_waitout", "o_wait",
                         "o_waitrun", "o_slot", "o_cas"}

(* A push between its claim and the mark of its cell. *)
Writing(t) == pc[t] \in {"p_store", "p_mark"}

(* A pop between its claim and the release of its cell. *)
Reading(t) == pc[t] \in {"o_take", "o_free"}

(* `out' overtakes `in' only by skipping ticket 0. *)
Ahead == out = 1 /\ in = 0
Counters == /\ out <= in \/ Ahead
            /\ in <= out + Size

(* What the local ticket of a push is worth: it may be stale, but if it is  *)
(* not, then the tests already made still hold.  A negative ticket is read  *)
(* again by full(), so that the test may be one of a later counter.         *)
PushLoaded(t) == Pushing(t) =>
    /\ idx[t] <= arg[t] /\ arg[t] <= in
    /\ pc[t] \in {"p_slot", "p_cas"} /\ idx[t] = in => in < out + Size
    /\ pc[t] = "p_cas" /\ idx[t] = in => isfree[Slot(in)]

(* The same of a pop.  A pop that skips ticket 0 goes on with o = 0, which  *)
(* then is no longer the value of `out'.                                    *)
PopLoaded(t) == Popping(t) =>
    /\ idx[t] <= arg[t] /\ arg[t] <= out
    /\ pc[t] = "o_skip" => idx[t] = 0
    /\ pc[t] # "o_skip" /\ idx[t] = 0 => out >= 1
    /\ pc[t] \in {"o_slot", "o_cas"} /\ idx[t] = out => out < in \/ (out = 1 /\ in <= 1)
    /\ pc[t] = "o_cas" /\ idx[t] = out => out < in /\ ~isfree[Slot(out)]

Loaded == \A t \in Threads : PushLoaded(t) /\ PopLoaded(t)

(* The ticket of a writing push has not been popped and its cell is free. *)
Writers == \A t \in Threads : Writing(t) =>
    /\ idx[t] # 0
    /\ out <= idx[t]
    /\ idx[t] < in
    /\ isfree[Slot(idx[t])]
    /\ pc[t] = "p_mark" => buffer[Slot(idx[t])] = idx[t]

(* The cell of a reading pop still holds the item of its ticket, and the    *)
(* pushes of the next lap have not claimed that cell.                       *)
Readers == \A t \in Threads : Reading(t) =>
    /\ idx[t] # 0
    /\ idx[t] < out
    /\ in <= idx[t] + Size
    /\ ~isfree[Slot(idx[t])]
    /\ buffer[Slot(idx[t])] = idx[t]
    /\ pc[t] = "o_free" => item[t] = idx[t]

(* A ticket has one owner. *)
Distinct == \A t, u \in Threads :
    t # u /\ ((Writing(t) /\ Writing(u)) \/ (Reading(t) /\ Reading(u))) => idx[t] # idx[u]

(* The cell of a ticket in the queue holds its item once it is marked. *)
Stored == \A k \in out..(in - 1) : k # 0 =>
    \/ ~isfree[Slot(k)] /\ buffer[Slot(k)] = k
    \/ \E t \in Threads : Writing(t) /\ idx[t] = k

(* A taken cell is that of a ticket in the queue, or a pop is about to free *)
(* it.                                                                      *)
Accounted == \A s \in Slots : ~isfree[s] =>
    \/ \E k \in out..(in - 1) : k # 0 /\ Slot(k) = s
    \/ \E t \in Threads : Reading(t) /\ Slot(idx[t]) = s

(* Every pop returned the item of its ticket, which no other pop has        *)
(* returned, holds, or may still claim.                                     *)
Delivered == \A r \in recv :
    /\ r.item = r.ticket /\ r.ticket # 0
    /\ r.ticket < out
    /\ \A t \in Threads : Reading(t) => idx[t] # r.ticket
    /\ \A s \in recv : r.ticket = s.ticket => r = s

(* The ticket discipline, until the queue is stopped. *)
Discipline == /\ Counters
              /\ Loaded
              /\ Writers
              /\ Readers
              /\ Distinct
              /\ Stored
              /\ Accounted
              /\ Delivered

Inv == TypeOK /\ (stopped \/ Discipline)

-----------------------------------------------------------------------------
(* The size of the buffer *)

(* The 2^n subsets of n elements are the empty one and one for each of them *)
(* at least.                                                                *)
LEMMA PowerLarge ==
    ASSUME NEW n \in Nat
    PROVE  2^n \in Nat /\ n < 2^n
<1> DEFINE S == 1..n
           f == [x \in 0..n |-> {x} \cap S]
<1>1. /\ IsFiniteSet(S) /\ Cardinality(S) = n
      /\ Cardinality(0..n) = n + 1
  BY FS_Interval
<1>2. IsFiniteSet(SUBSET S) /\ Cardinality(SUBSET S) = 2^n
  BY <1>1, FS_SUBSET
<1>3. f \in Injection(0..n, SUBSET S)
  <2>1. f \in [0..n -> SUBSET S]
    OBVIOUS
  <2>2. ASSUME NEW x \in 0..n, NEW y \in 0..n, f[x] = f[y]
        PROVE  x = y
    <3>1. \A z \in 0..n : z = 0 \/ z \in S
      OBVIOUS
    <3>2. 0 \notin S
      OBVIOUS
    <3>3. \A z : z \in {x} \cap S <=> z \in {y} \cap S
      BY <2>2
    <3> HIDE DEF S
    <3> QED
      BY <3>1, <3>2, <3>3
  <2> HIDE DEF f
  <2> QED
    BY <2>1, <2>2 DEF Injection, IsInjective
<1>4. Cardinality(0..n) <= Cardinality(SUBSET S)
  BY <1>2, <1>3, FS_Injection
<1>5. Cardinality(SUBSET S) \in Nat
  BY <1>2, FS_CardinalityType
<1> QED
  BY <1>1, <1>2, <1>4, <1>5

(* Every nonempty set of naturals has a least element. *)
LEMMA LeastNatural ==
    ASSUME NEW T \in SUBSET Nat, T # {}
    PROVE  \E m \in T : \A n \in T : m <= n
<1> DEFINE Below == {1..n : n \in T}
           R == StrictSubsetOrdering(Nat)
<1>1. Below \subseteq FiniteSubsetsOf(Nat) /\ Below # {}
  <2>1. \A n \in T : 1..n \in SUBSET Nat /\ IsFiniteSet(1..n)
    BY FS_Interval
  <2> QED
    BY <2>1 DEF FiniteSubsetsOf
<1>2. IsWellFoundedOn(R, FiniteSubsetsOf(Nat))
  BY FS_StrictSubsetOrderingWellFounded
<1>3. \E x \in Below : \A y \in Below : ~(<<y, x>> \in R)
  <2> HIDE DEF Below, R
  <2> QED
    BY <1>1, <1>2, WFMin
<1>4. PICK m \in T : \A y \in Below : ~(<<y, 1..m>> \in R)
  BY <1>3
<1>5. ASSUME NEW n \in T, n < m
      PROVE  FALSE
  <2>1. 1..n \in Below /\ 1..n \in SUBSET Nat /\ 1..m \in SUBSET Nat
    OBVIOUS
  <2>2. 1..n \subseteq 1..m
    BY <1>5
  <2>3. m \in 1..m /\ m \notin 1..n
    BY <1>5
  <2>4. <<1..n, 1..m>> \in R
    BY <2>1, <2>2, <2>3 DEF StrictSubsetOrdering
  <2> QED
    BY <1>4, <2>1, <2>4
<1> QED
  BY <1>5

(* The constructor finds a size that is large enough. *)
LEMMA SizeType == Size \in Nat /\ Size > 0 /\ Size >= ReqSize
<1> DEFINE T == {2^k : k \in {j \in 0..ReqSize : 2^j >= ReqSize}}
           P(m) == m >= ReqSize /\ \A k \in 0..ReqSize : 2^k >= ReqSize => m <= 2^k
<1>1. T \in SUBSET Nat
  BY ReqSizeAssumption, PowerLarge
<1>2. 2^ReqSize \in T
  BY ReqSizeAssumption, PowerLarge
<1>3. PICK m \in T : \A n \in T : m <= n
  BY <1>1, <1>2, LeastNatural
<1>4. m \in {2^k : k \in 0..ReqSize} /\ P(m)
  BY <1>3
<1>5. Size \in {2^k : k \in 0..ReqSize} /\ P(Size)
  BY <1>4 DEF Size
<1> QED
  BY <1>5, PowerLarge, ReqSizeAssumption

(* A multiple of Size is at least Size more than every smaller multiple. *)
LEMMA NextMultiple ==
    ASSUME NEW a \in Int, NEW b \in Int, a < b
    PROVE  Size * a + Size <= Size * b
BY SizeType

(* Every ticket has a cell, that of -1 too. *)
LEMMA SlotType ==
    \A i \in Int : Slot(i) \in Slots
BY SizeType DEF Slot, Slots, mask

(* Two different tickets less than a lap apart have different cells. *)
LEMMA SlotDistinct ==
    \A i, j \in Int : i < j /\ j < i + Size => Slot(i) # Slot(j)
<1> SUFFICES ASSUME NEW i \in Int, NEW j \in Int, i < j, j < i + Size,
                    i % Size = j % Size
             PROVE  FALSE
  BY DEF Slot
<1> DEFINE a == i \div Size
           b == j \div Size
           m == i % Size
<1>1. i = Size * a + m /\ j = Size * b + m
  BY SizeType
<1>2. a \in Int /\ b \in Int /\ m \in Int
  BY SizeType
<1>3. a < b => Size * a + Size <= Size * b
  BY <1>2, NextMultiple
<1>4. b < a => Size * b + Size <= Size * a
  BY <1>2, NextMultiple
<1> HIDE DEF a, b, m
<1>5. a = b
  BY <1>1, <1>2, <1>3, <1>4, SizeType
<1> QED
  BY <1>1, <1>5

(* A ticket and the one a lap later have the same cell. *)
LEMMA SlotWrap ==
    \A i \in Int : Slot(i + Size) = Slot(i)
<1> SUFFICES ASSUME NEW i \in Int
             PROVE  (i + Size) % Size = i % Size
  BY DEF Slot
<1> DEFINE a == i \div Size
           b == (i + Size) \div Size
           m == i % Size
           n == (i + Size) % Size
<1>1. i = Size * a + m /\ i + Size = Size * b + n
  BY SizeType
<1>2. a \in Int /\ b \in Int /\ m \in 0..(Size - 1) /\ n \in 0..(Size - 1)
  BY SizeType
<1>3. a + 1 < b => Size * (a + 1) + Size <= Size * b
  BY <1>2, NextMultiple
<1>4. b < a + 1 => Size * b + Size <= Size * (a + 1)
  BY <1>2, NextMultiple
<1>5. Size * (a + 1) = Size * a + Size
  BY <1>2, SizeType
<1> HIDE DEF a, b, m, n
<1>6. m = n
  BY <1>1, <1>2, <1>3, <1>4, <1>5, SizeType
<1> QED
  BY <1>6 DEF m, n

-----------------------------------------------------------------------------
(* The type invariant, for every size *)

(* The constructor and the scripts establish the type invariant. *)
LEMMA InitType == Init => TypeOK
<1> SUFFICES ASSUME Init PROVE TypeOK
  OBVIOUS
<1>1. left \in [Threads -> Seq(Calls)] /\ stops \in Nat
  BY ScenariosAssumption DEF Init
<1>2. /\ pc \in [Threads -> Labels] /\ \A t \in Threads : pc[t] = "idle"
      /\ idx \in [Threads -> Int] /\ \A t \in Threads : idx[t] >= -1
      /\ arg \in [Threads -> Int] /\ item \in [Threads -> Int] /\ ret \in [Threads -> Int]
  BY DEF Init, Labels
<1>3. /\ buffer \in [Slots -> Int] /\ isfree \in [Slots -> BOOLEAN]
      /\ in \in Int /\ in >= -1 /\ out \in Int /\ out >= -1
      /\ recv \subseteq [by : Threads, toGo : Nat, ticket : Int, item : Int]
  BY DEF Init
<1>4. running \in BOOLEAN /\ stopped \in BOOLEAN /\ running
  BY DEF Init
<1> QED
  BY <1>1, <1>2, <1>3, <1>4 DEF TypeOK

(* A step that only moves on. *)
LEMMA MoveType ==
    ASSUME TypeOK, NEW t \in Threads, NEW from, NEW to \in Labels, Move(t, from, to),
           left[t] # << >>
    PROVE  TypeOK'
<1> USE DEF Move, Goto, mem, hist
<1>1. pc' \in [Threads -> Labels] /\ \A u \in Threads : u # t => pc'[u] = pc[u]
  BY DEF TypeOK
<1> QED
  BY <1>1 DEF TypeOK

(* The return of a call. *)
LEMMA ReturnType ==
    ASSUME TypeOK, NEW t \in Threads, pc[t] # "idle", NEW r \in Int, Return(t, r)
    PROVE  /\ pc' \in [Threads -> Labels]
           /\ left' \in [Threads -> Seq(Calls)]
           /\ \A u \in Threads : pc'[u] # "idle" => left'[u] # << >>
           /\ ret' \in [Threads -> Int]
<1> USE DEF Return, Goto
<1>1. Tail(left[t]) \in Seq(Calls)
  BY DEF TypeOK
<1>2. pc' \in [Threads -> Labels] /\ left' \in [Threads -> Seq(Calls)] /\ ret' \in [Threads -> Int]
  BY <1>1 DEF TypeOK, Labels
<1>3. \A u \in Threads : pc'[u] # "idle" => pc'[u] = pc[u] /\ left'[u] = left[u]
  BY DEF TypeOK
<1> QED
  BY <1>2, <1>3 DEF TypeOK

(* Steps of a push keep the type invariant. *)
LEMMA PushType ==
    ASSUME TypeOK, NEW t \in Threads, PushStep(t)
    PROVE  TypeOK'
<1>0. pc[t] # "idle" /\ left[t] # << >>
  BY DEF PushStep, PushLoad, FullArg, PushRefused, PushTry, PushStopped, PushRunning, PushWait,
         PushWaitRun, PushSlot, PushClaim, PushRetry, PushStore, PushMark, Move, TypeOK
<1>1. ASSUME NEW from, NEW to, Move(t, from, to), to \in Labels
      PROVE  TypeOK'
  BY <1>0, <1>1, MoveType
<1>2. CASE PushTry(t)
  BY <1>1, <1>2 DEF PushTry, Labels
<1>3. CASE PushRunning(t)
  BY <1>1, <1>3 DEF PushRunning, ArgOf, Labels
<1>4. CASE PushWait(t)
  BY <1>1, <1>4 DEF PushWait, Labels
<1>5. CASE PushWaitRun(t)
  BY <1>1, <1>5 DEF PushWaitRun, ArgOf, Labels
<1>6. CASE PushSlot(t)
  BY <1>1, <1>6 DEF PushSlot, Labels
<1>7. CASE PushRetry(t)
  BY <1>1, <1>7 DEF PushRetry, Labels
<1>8. CASE PushLoad(t)
  BY <1>0, <1>8 DEF PushLoad, ArgOf, Goto, mem, hist, TypeOK, Labels
<1>9. CASE FullArg(t, "p_tryin", "p_try") \/ FullArg(t, "p_waitin", "p_wait")
  <2>1. CASE FullArg(t, "p_tryin", "p_try")
    BY <1>0, <2>1 DEF FullArg, Goto, mem, hist, TypeOK, Labels
  <2>2. CASE FullArg(t, "p_waitin", "p_wait")
    BY <1>0, <2>2 DEF FullArg, Goto, mem, hist, TypeOK, Labels
  <2> QED
    BY <1>9, <2>1, <2>2
<1>10. CASE PushRefused(t) \/ PushStopped(t)
  <2>1. Return(t, 0) /\ UNCHANGED <<mem, idx, arg, item, hist>>
    BY <1>10 DEF PushRefused, PushStopped
  <2>2. /\ pc' \in [Threads -> Labels]
        /\ left' \in [Threads -> Seq(Calls)]
        /\ \A u \in Threads : pc'[u] # "idle" => left'[u] # << >>
        /\ ret' \in [Threads -> Int]
    <3>1. 0 \in Int
      OBVIOUS
    <3> QED
      BY <1>0, <2>1, <3>1, ReturnType
  <2> QED
    BY <2>1, <2>2 DEF TypeOK, mem, hist
<1>11. CASE PushClaim(t)
  BY <1>0, <1>11 DEF PushClaim, Goto, hist, TypeOK, Labels
<1>12. CASE PushStore(t)
  <2>1. buffer' \in [Slots -> Int]
    BY <1>12, SlotType DEF PushStore, TypeOK
  <2> QED
    BY <1>0, <1>12, <2>1 DEF PushStore, Goto, hist, TypeOK, Labels
<1>13. CASE PushMark(t)
  <2>1. Return(t, idx[t]) /\ UNCHANGED <<buffer, in, out, running, idx, arg, item, hist>>
    BY <1>13 DEF PushMark
  <2>2. idx[t] \in Int
    BY DEF TypeOK
  <2>3. isfree' \in [Slots -> BOOLEAN]
    BY <1>13, SlotType DEF PushMark, TypeOK
  <2> QED
    BY <1>0, <2>1, <2>2, <2>3, ReturnType DEF TypeOK, hist
<1> QED
  BY <1>2, <1>3, <1>4, <1>5, <1>6, <1>7, <1>8, <1>9, <1>10, <1>11, <1>12, <1>13 DEF PushStep

(* Steps of a pop keep the type invariant. *)
LEMMA PopType ==
    ASSUME TypeOK, NEW t \in Threads, PopStep(t)
    PROVE  TypeOK'
<1>0. pc[t] # "idle" /\ left[t] # << >>
  BY DEF PopStep, PopLoad, PopSkip, PopSkipRetry, EmptyArg, PopRefused, PopTry, PopStopped,
         PopRunning, PopWait, PopWaitRun, PopSlot, PopClaim, PopRetry, PopTake, PopFree, Move, TypeOK
<1>1. ASSUME NEW from, NEW to, Move(t, from, to), to \in Labels
      PROVE  TypeOK'
  BY <1>0, <1>1, MoveType
<1>2. CASE PopTry(t)
  BY <1>1, <1>2 DEF PopTry, Labels
<1>3. CASE PopRunning(t)
  BY <1>1, <1>3 DEF PopRunning, ArgOf, Labels
<1>4. CASE PopWait(t)
  BY <1>1, <1>4 DEF PopWait, Labels
<1>5. CASE PopWaitRun(t)
  BY <1>1, <1>5 DEF PopWaitRun, ArgOf, Labels
<1>6. CASE PopSlot(t)
  BY <1>1, <1>6 DEF PopSlot, Labels
<1>7. CASE PopRetry(t) \/ PopSkipRetry(t)
  BY <1>1, <1>7 DEF PopRetry, PopSkipRetry, Labels
<1>8. CASE PopLoad(t)
  BY <1>0, <1>8 DEF PopLoad, ArgOf, Goto, mem, hist, TypeOK, Labels
<1>9. CASE EmptyArg(t, "o_tryout", "o_try") \/ EmptyArg(t, "o_waitout", "o_wait")
  <2>1. CASE EmptyArg(t, "o_tryout", "o_try")
    BY <1>0, <2>1 DEF EmptyArg, Goto, mem, hist, TypeOK, Labels
  <2>2. CASE EmptyArg(t, "o_waitout", "o_wait")
    BY <1>0, <2>2 DEF EmptyArg, Goto, mem, hist, TypeOK, Labels
  <2> QED
    BY <1>9, <2>1, <2>2
<1>10. CASE PopRefused(t) \/ PopStopped(t)
  <2>1. Return(t, 0) /\ UNCHANGED <<mem, idx, arg, item, hist>>
    BY <1>10 DEF PopRefused, PopStopped
  <2>2. /\ pc' \in [Threads -> Labels]
        /\ left' \in [Threads -> Seq(Calls)]
        /\ \A u \in Threads : pc'[u] # "idle" => left'[u] # << >>
        /\ ret' \in [Threads -> Int]
    <3>1. 0 \in Int
      OBVIOUS
    <3> QED
      BY <1>0, <2>1, <3>1, ReturnType
  <2> QED
    BY <2>1, <2>2 DEF TypeOK, mem, hist
<1>11. CASE PopClaim(t) \/ PopSkip(t)
  <2>1. /\ pc' \in [Threads -> Labels] /\ \A u \in Threads : u # t => pc'[u] = pc[u]
        /\ out' \in Int /\ out' >= -1
        /\ UNCHANGED <<buffer, isfree, in, running, idx, arg, item, left, ret, hist>>
    <3>1. /\ \/ pc' = [pc EXCEPT ![t] = "o_take"] /\ out' = out + 1
             \/ pc' = [pc EXCEPT ![t] = "o_try"] /\ out' = 1
          /\ UNCHANGED <<buffer, isfree, in, running, idx, arg, item, left, ret, hist>>
      BY <1>11 DEF PopClaim, PopSkip, Goto
    <3>2. pc' \in [Threads -> Labels] /\ \A u \in Threads : u # t => pc'[u] = pc[u]
      BY <3>1 DEF TypeOK, Labels
    <3>3. out' \in Int /\ out' >= -1
      BY <3>1 DEF TypeOK
    <3> QED
      BY <3>1, <3>2, <3>3
  <2> QED
    BY <1>0, <2>1 DEF TypeOK, hist
<1>12. CASE PopTake(t)
  <2>1. item' \in [Threads -> Int]
    BY <1>12, SlotType DEF PopTake, TypeOK
  <2> QED
    BY <1>0, <1>12, <2>1 DEF PopTake, Goto, mem, hist, TypeOK, Labels
<1>13. CASE PopFree(t)
  <2>1. Return(t, idx[t]) /\ UNCHANGED <<buffer, in, out, running, idx, arg, item, stops, stopped>>
    BY <1>13 DEF PopFree
  <2>2. idx[t] \in Int /\ item[t] \in Int
    BY DEF TypeOK
  <2>3. isfree' \in [Slots -> BOOLEAN]
    BY <1>13, SlotType DEF PopFree, TypeOK
  <2>4. recv' \subseteq [by : Threads, toGo : Nat, ticket : Int, item : Int]
    <3>1. Len(left[t]) \in Nat
      BY DEF TypeOK
    <3> QED
      BY <1>13, <2>2, <3>1 DEF PopFree, Delivery, TypeOK
  <2> QED
    BY <1>0, <2>1, <2>2, <2>3, <2>4, ReturnType DEF TypeOK
<1> QED
  BY <1>2, <1>3, <1>4, <1>5, <1>6, <1>7, <1>8, <1>9, <1>10, <1>11, <1>12, <1>13 DEF PopStep

(* Every step keeps the type invariant. *)
LEMMA NextType == TypeOK /\ [Next]_vars => TypeOK'
<1> SUFFICES ASSUME TypeOK, [Next]_vars PROVE TypeOK'
  OBVIOUS
<1>1. ASSUME NEW t \in Threads, Call(t) PROVE TypeOK'
  <2>1. left[t] # << >>
    BY <1>1 DEF Call
  <2>2. \E to \in Labels : Move(t, "idle", to)
    BY <1>1 DEF Call, Labels
  <2> QED
    BY <2>1, <2>2, MoveType
<1>2. CASE Stop
  <2>1. stops' \in Nat
    BY <1>2 DEF Stop, TypeOK
  <2>2. running' \in BOOLEAN /\ stopped' \in BOOLEAN /\ stopped'
    BY <1>2 DEF Stop
  <2> QED
    BY <1>2, <2>1, <2>2 DEF Stop, TypeOK
<1>3. CASE Start
  BY <1>3 DEF Start, hist, TypeOK
<1>4. CASE UNCHANGED vars
  BY <1>4 DEF vars, mem, hist, TypeOK
<1> QED
  BY <1>1, <1>2, <1>3, <1>4, PushType, PopType DEF Next, Step, Ended

(* The variables keep their types, a call that is under way is the first    *)
(* one of its thread's script, and the queue runs until it is stopped.      *)
THEOREM TypeCorrect == Spec => []TypeOK
<1>1. Init => TypeOK
  BY InitType
<1>2. TypeOK /\ [Next]_vars => TypeOK'
  BY NextType
<1> QED
  BY <1>1, <1>2, PTL DEF Spec

-----------------------------------------------------------------------------
(* The ticket discipline, for queues of more than two cells *)

(* The constructor establishes the discipline. *)
LEMMA InitDiscipline == Init => Discipline
<1> SUFFICES ASSUME Init PROVE Discipline
  OBVIOUS
<1>1. /\ in = -1 /\ out = -1 /\ recv = {}
      /\ \A t \in Threads : pc[t] = "idle"
      /\ \A s \in Slots : isfree[s]
  BY DEF Init
<1>2. Counters /\ Delivered
  BY <1>1, SizeType DEF Counters, Delivered
<1>3. Loaded /\ Writers /\ Readers /\ Distinct
  BY <1>1 DEF Loaded, PushLoaded, PopLoaded, Pushing, Popping, Writers, Readers, Distinct,
              Writing, Reading
<1>4. Stored /\ Accounted
  BY <1>1 DEF Stored, Accounted
<1> QED
  BY <1>2, <1>3, <1>4 DEF Discipline

(* A step of t that changes the local variables of t only. *)
OnlyBy(t) == /\ UNCHANGED <<buffer, isfree, in, out, recv>>
             /\ \A u \in Threads \ {t} :
                  /\ pc'[u] = pc[u] /\ idx'[u] = idx[u]
                  /\ arg'[u] = arg[u] /\ item'[u] = item[u]

(* A step of a call that owns nothing keeps the discipline if what it knows *)
(* of its ticket is true.                                                   *)
LEMMA QuietStep ==
    ASSUME Discipline, NEW t \in Threads, OnlyBy(t),
           ~Writing(t), ~Reading(t), ~Writing(t)', ~Reading(t)',
           PushLoaded(t)', PopLoaded(t)'
    PROVE  Discipline'
<1> USE DEF Discipline, OnlyBy
<1>1. Counters' /\ Delivered'
  BY DEF Counters, Ahead, Delivered, Reading
<1>2. Loaded'
  BY DEF Loaded, PushLoaded, PopLoaded, Pushing, Popping
<1>3. Writers'
  BY DEF Writers, Writing
<1>4. Readers'
  BY DEF Readers, Reading
<1>5. Distinct'
  BY DEF Distinct, Writing, Reading
<1>6. Stored'
  BY DEF Stored, Writing
<1>7. Accounted'
  BY DEF Accounted, Reading
<1> QED
  BY <1>1, <1>2, <1>3, <1>4, <1>5, <1>6, <1>7

(* When ticket 1 is the next to be popped and has not been pushed, its cell *)
(* is free: the only pop that may still be busy has ticket -1, whose cell   *)
(* is another one.                                                          *)
LEMMA FirstCellFree ==
    ASSUME TypeOK, Discipline, ReqSize >= 3, out = 1, in <= 1
    PROVE  isfree[Slot(1)]
<1> SUFFICES ASSUME ~isfree[Slot(1)] PROVE FALSE
  OBVIOUS
<1>1. Slot(1) \in Slots
  BY SlotType
<1>2. ~\E k \in out..(in - 1) : k # 0 /\ Slot(k) = Slot(1)
  BY DEF TypeOK
<1>3. PICK u \in Threads : Reading(u) /\ Slot(idx[u]) = Slot(1)
  BY <1>1, <1>2 DEF Discipline, Accounted
<1>4. idx[u] # 0 /\ idx[u] < 1 /\ idx[u] \in Int /\ idx[u] >= -1
  BY <1>3 DEF Discipline, Readers, TypeOK
<1>5. Slot(-1) # Slot(1)
  BY SlotDistinct, SizeType, ReqSizeAssumption
<1> QED
  BY <1>3, <1>4, <1>5

(* The steps of a push that owns nothing. *)
LEMMA PushQuiet ==
    ASSUME TypeOK, Discipline, running, NEW t \in Threads,
           \/ PushLoad(t)
           \/ FullArg(t, "p_tryin", "p_try") \/ FullArg(t, "p_waitin", "p_wait")
           \/ PushRefused(t) \/ PushTry(t) \/ PushStopped(t) \/ PushRunning(t)
           \/ PushWait(t) \/ PushWaitRun(t) \/ PushSlot(t) \/ PushRetry(t)
    PROVE  Discipline'
<1> USE DEF Goto, Return, Move, mem, hist
<1>1. OnlyBy(t)
  BY DEF OnlyBy, PushLoad, FullArg, PushRefused, PushTry, PushStopped, PushRunning, PushWait,
         PushWaitRun, PushSlot, PushRetry, TypeOK
<1>2. /\ ~Writing(t) /\ ~Reading(t) /\ ~Writing(t)' /\ ~Reading(t)' /\ ~Popping(t)'
  BY DEF Writing, Reading, Popping, PushLoad, FullArg, PushRefused, PushTry, PushStopped,
         PushRunning, PushWait, PushWaitRun, PushSlot, PushRetry, ArgOf, TypeOK
<1>3. PopLoaded(t)'
  BY <1>2 DEF PopLoaded
<1>4. /\ in \in Int /\ out \in Int /\ idx[t] \in Int /\ arg[t] \in Int
      /\ PushLoaded(t)
  BY DEF TypeOK, Discipline, Loaded
<1>5. PushLoaded(t)'
  <2>1. CASE PushLoad(t)
    BY <2>1 DEF PushLoad, ArgOf, PushLoaded, Pushing, TypeOK
  <2>2. CASE FullArg(t, "p_tryin", "p_try") \/ FullArg(t, "p_waitin", "p_wait")
    <3>1. /\ pc[t] \in {"p_tryin", "p_waitin"} /\ pc'[t] \in {"p_try", "p_wait"}
          /\ arg'[t] = in /\ UNCHANGED <<idx, in>>
      BY <2>2 DEF FullArg, TypeOK
    <3> QED
      BY <1>4, <3>1 DEF PushLoaded, Pushing
  <2>3. CASE PushRefused(t) \/ PushStopped(t) \/ PushRetry(t)
    BY <2>3 DEF PushRefused, PushStopped, PushRetry, PushLoaded, Pushing, TypeOK
  <2>4. CASE PushTry(t) \/ PushRunning(t) \/ PushWaitRun(t)
    BY <1>4, <2>4 DEF PushTry, PushRunning, PushWaitRun, ArgOf, PushLoaded, Pushing, TypeOK
  <2>5. CASE PushWait(t)
    BY <1>4, <2>5, SizeType DEF PushWait, IsFull, mask, PushLoaded, Pushing, TypeOK
  <2>6. CASE PushSlot(t)
    BY <1>4, <2>6 DEF PushSlot, PushLoaded, Pushing, TypeOK
  <2> QED
    BY <2>1, <2>2, <2>3, <2>4, <2>5, <2>6
<1> QED
  BY <1>1, <1>2, <1>3, <1>5, QuietStep

(* The steps of a pop that owns nothing.  After the test of a cell, the     *)
(* ticket is the one of an item in the queue if it is not stale.            *)
LEMMA PopQuiet ==
    ASSUME TypeOK, Discipline, running, ReqSize >= 3, NEW t \in Threads,
           \/ PopLoad(t) \/ PopSkipRetry(t)
           \/ EmptyArg(t, "o_tryout", "o_try") \/ EmptyArg(t, "o_waitout", "o_wait")
           \/ PopRefused(t) \/ PopTry(t) \/ PopStopped(t) \/ PopRunning(t)
           \/ PopWait(t) \/ PopWaitRun(t) \/ PopSlot(t) \/ PopRetry(t)
    PROVE  Discipline'
<1> USE DEF Goto, Return, Move, mem, hist
<1>1. OnlyBy(t)
  BY DEF OnlyBy, PopLoad, PopSkipRetry, EmptyArg, PopRefused, PopTry, PopStopped, PopRunning,
         PopWait, PopWaitRun, PopSlot, PopRetry, TypeOK
<1>2. /\ ~Writing(t) /\ ~Reading(t) /\ ~Writing(t)' /\ ~Reading(t)' /\ ~Pushing(t)'
  BY DEF Writing, Reading, Pushing, PopLoad, PopSkipRetry, EmptyArg, PopRefused, PopTry,
         PopStopped, PopRunning, PopWait, PopWaitRun, PopSlot, PopRetry, ArgOf, TypeOK
<1>3. PushLoaded(t)'
  BY <1>2 DEF PushLoaded
<1>4. /\ in \in Int /\ out \in Int /\ idx[t] \in Int /\ arg[t] \in Int
      /\ PopLoaded(t) /\ (out <= in \/ Ahead)
  BY DEF TypeOK, Discipline, Loaded, Counters
<1>5. PopLoaded(t)'
  <2>1. CASE PopLoad(t)
    BY <2>1 DEF PopLoad, ArgOf, PopLoaded, Popping, TypeOK
  <2>2. CASE EmptyArg(t, "o_tryout", "o_try") \/ EmptyArg(t, "o_waitout", "o_wait")
    <3>1. /\ pc[t] \in {"o_tryout", "o_waitout"} /\ pc'[t] \in {"o_try", "o_wait"}
          /\ arg'[t] = out /\ UNCHANGED <<idx, out>>
      BY <2>2 DEF EmptyArg, TypeOK
    <3> QED
      BY <1>4, <3>1 DEF PopLoaded, Popping
  <2>3. CASE PopRefused(t) \/ PopStopped(t) \/ PopRetry(t) \/ PopSkipRetry(t)
    BY <2>3 DEF PopRefused, PopStopped, PopRetry, PopSkipRetry, PopLoaded, Popping, TypeOK
  <2>4. CASE PopTry(t) \/ PopRunning(t) \/ PopWaitRun(t)
    BY <1>4, <2>4 DEF PopTry, PopRunning, PopWaitRun, ArgOf, PopLoaded, Popping, TypeOK
  <2>5. CASE PopWait(t)
    BY <1>4, <2>5 DEF PopWait, IsEmpty, Ahead, PopLoaded, Popping, TypeOK
  <2>6. CASE PopSlot(t)
    <3>1. out = 1 /\ in <= 1 => isfree[Slot(1)]
      BY FirstCellFree
    <3> QED
      BY <1>4, <2>6, <3>1 DEF PopSlot, PopLoaded, Popping, TypeOK
  <2> QED
    BY <2>1, <2>2, <2>3, <2>4, <2>5, <2>6
<1> QED
  BY <1>1, <1>2, <1>3, <1>5, QuietStep

(* Types that the arithmetic below needs. *)
Numbers == /\ in \in Int /\ out \in Int /\ Size \in Int /\ Size >= 3
           /\ \A u \in Threads : idx[u] \in Int /\ idx[u] >= -1 /\ arg[u] \in Int

(* They are part of the type invariant and of what is known of the size. *)
LEMMA NumbersType == TypeOK /\ ReqSize >= 3 => Numbers
BY SizeType, ReqSizeAssumption DEF TypeOK, Numbers

(* A push claims a ticket: the cell is free, so no pop of the lap before    *)
(* still holds it.  A claim of ticket 0 is given up.                        *)
LEMMA PushClaimStep ==
    ASSUME TypeOK, Discipline, ReqSize >= 3, NEW t \in Threads, PushClaim(t)
    PROVE  Discipline'
<1> USE DEF Discipline
<1>0. /\ pc[t] = "p_cas" /\ pc'[t] = (IF idx[t] = 0 THEN "p_load" ELSE "p_store")
      /\ \A u \in Threads \ {t} : pc'[u] = pc[u]
      /\ idx[t] = in /\ in' = in + 1
      /\ UNCHANGED <<buffer, isfree, out, idx, arg, item, recv>>
  BY DEF PushClaim, Goto, hist, TypeOK
<1>1. Numbers
  BY NumbersType
<1>2. in < out + Size /\ isfree[Slot(in)]
  BY <1>0 DEF Loaded, PushLoaded, Pushing
<1>3. Counters'
  BY <1>0, <1>1, <1>2 DEF Counters, Ahead, Numbers
<1>4. Loaded'
  <2> SUFFICES ASSUME NEW u \in Threads PROVE PushLoaded(u)' /\ PopLoaded(u)'
    BY DEF Loaded
  <2>1. CASE u = t
    BY <1>0, <2>1 DEF PushLoaded, PopLoaded, Pushing, Popping
  <2>2. CASE u # t
    <3>1. PushLoaded(u) /\ PopLoaded(u)
      BY DEF Loaded
    <3>2. PushLoaded(u)'
      BY <1>0, <1>1, <2>2, <3>1 DEF PushLoaded, Pushing, Numbers
    <3>3. PopLoaded(u)'
      BY <1>0, <1>1, <2>2, <3>1 DEF PopLoaded, Popping, Numbers
    <3> QED
      BY <3>2, <3>3
  <2> QED
    BY <2>1, <2>2
<1>5. Writers'
  BY <1>0, <1>1, <1>2 DEF Writers, Writing, Counters, Ahead, Numbers
<1>6. Readers'
  <2> SUFFICES ASSUME NEW u \in Threads, Reading(u)' PROVE in' <= idx[u] + Size /\ Reading(u) /\ u # t
    BY <1>0 DEF Readers, Reading
  <2>1. u # t /\ Reading(u)
    BY <1>0 DEF Reading
  <2>2. in <= idx[u] + Size /\ ~isfree[Slot(idx[u])]
    BY <2>1 DEF Readers
  <2>3. in # idx[u] + Size
    BY <1>1, <1>2, <2>2, SlotWrap DEF Numbers
  <2> QED
    BY <1>0, <1>1, <2>1, <2>2, <2>3 DEF Numbers
<1>7. Distinct'
  <2>1. \A u \in Threads : Writing(u) => idx[u] # idx[t]
    BY <1>0, <1>1 DEF Writers, Numbers
  <2> QED
    BY <1>0, <2>1 DEF Distinct, Writing, Reading
<1>8. Stored'
  <2> SUFFICES ASSUME NEW k \in out..in, k # 0
               PROVE  \/ ~isfree[Slot(k)] /\ buffer[Slot(k)] = k
                      \/ \E u \in Threads : Writing(u)' /\ idx[u] = k
    BY <1>0, <1>1 DEF Stored, Numbers
  <2>1. CASE k = in
    BY <1>0, <2>1 DEF Writing
  <2>2. CASE k # in
    <3>1. k \in out..(in - 1)
      BY <1>1, <2>2 DEF Numbers
    <3> QED
      BY <1>0, <2>2, <3>1 DEF Stored, Writing
  <2> QED
    BY <2>1, <2>2
<1>9. Accounted'
  <2>1. out..(in - 1) \subseteq out..(in' - 1)
    BY <1>0, <1>1 DEF Numbers
  <2>2. \A u \in Threads : Reading(u) => Reading(u)'
    BY <1>0 DEF Reading
  <2> QED
    BY <1>0, <2>1, <2>2 DEF Accounted
<1>10. Delivered'
  BY <1>0 DEF Delivered, Reading
<1> QED
  BY <1>3, <1>4, <1>5, <1>6, <1>7, <1>8, <1>9, <1>10

(* The cells of two tickets that are not yet popped and already claimed. *)
LEMMA QueuedDistinct ==
    ASSUME TypeOK, Discipline, NEW i \in Int, NEW j \in Int, i # j,
           out <= i, i < in, out <= j, j < in
    PROVE  Slot(i) # Slot(j)
<1>1. i < j + Size /\ j < i + Size
  BY SizeType DEF Discipline, Counters, TypeOK
<1> QED
  BY <1>1, SlotDistinct

(* A push writes its item: its cell is free, and no other call uses it. *)
LEMMA PushStoreStep ==
    ASSUME TypeOK, Discipline, ReqSize >= 3, NEW t \in Threads, PushStore(t)
    PROVE  Discipline'
<1> USE DEF Discipline
<1>0. /\ pc[t] = "p_store" /\ pc'[t] = "p_mark"
      /\ \A u \in Threads \ {t} : pc'[u] = pc[u]
      /\ buffer' = [buffer EXCEPT ![Slot(idx[t])] = idx[t]]
      /\ UNCHANGED <<isfree, in, out, idx, arg, item, recv>>
  BY DEF PushStore, Goto, hist, TypeOK
<1>1. Numbers
  BY NumbersType
<1>2. Writing(t) /\ out <= idx[t] /\ idx[t] < in /\ isfree[Slot(idx[t])]
  BY <1>0 DEF Writers, Writing
<1>3. /\ buffer'[Slot(idx[t])] = idx[t]
      /\ \A s \in Slots : s # Slot(idx[t]) => buffer'[s] = buffer[s]
  <2>1. Slot(idx[t]) \in Slots /\ buffer \in [Slots -> Int]
    BY <1>1, SlotType DEF Numbers, TypeOK
  <2> QED
    BY <1>0, <2>1
<1>4. \A k \in Int : ~isfree[Slot(k)] => buffer'[Slot(k)] = buffer[Slot(k)]
  BY <1>2, <1>3, SlotType
<1>5. Counters' /\ Delivered'
  BY <1>0 DEF Counters, Ahead, Delivered, Reading
<1>6. Loaded'
  BY <1>0 DEF Loaded, PushLoaded, PopLoaded, Pushing, Popping
<1>7. Writers'
  <2> SUFFICES ASSUME NEW u \in Threads, Writing(u)', u # t, pc'[u] = "p_mark"
               PROVE  buffer'[Slot(idx[u])] = idx[u]
    BY <1>0, <1>2, <1>3 DEF Writers, Writing
  <2>1. Writing(u) /\ pc[u] = "p_mark"
    BY <1>0 DEF Writing
  <2>2. out <= idx[u] /\ idx[u] < in /\ buffer[Slot(idx[u])] = idx[u] /\ idx[u] # idx[t]
    BY <1>2, <2>1 DEF Writers, Distinct
  <2>3. Slot(idx[u]) # Slot(idx[t])
    BY <1>1, <1>2, <2>2, QueuedDistinct DEF Numbers
  <2> QED
    BY <1>1, <1>3, <2>2, <2>3, SlotType DEF Numbers
<1>8. Readers'
  BY <1>0, <1>1, <1>4 DEF Readers, Reading, Numbers
<1>9. Distinct'
  BY <1>0 DEF Distinct, Writing, Reading
<1>10. Stored'
  BY <1>0, <1>1, <1>4 DEF Stored, Writing, Numbers
<1>11. Accounted'
  BY <1>0 DEF Accounted, Reading
<1> QED
  BY <1>5, <1>6, <1>7, <1>8, <1>9, <1>10, <1>11

(* A push marks its cell as taken: from now on a pop may claim its ticket. *)
LEMMA PushMarkStep ==
    ASSUME TypeOK, Discipline, ReqSize >= 3, NEW t \in Threads, PushMark(t)
    PROVE  Discipline'
<1> USE DEF Discipline
<1>0. /\ pc[t] = "p_mark" /\ pc'[t] = "idle"
      /\ \A u \in Threads \ {t} : pc'[u] = pc[u]
      /\ isfree' = [isfree EXCEPT ![Slot(idx[t])] = FALSE]
      /\ UNCHANGED <<buffer, in, out, idx, arg, item, recv>>
  BY DEF PushMark, Return, Goto, hist, TypeOK
<1>1. Numbers
  BY NumbersType
<1>2. /\ Writing(t) /\ idx[t] # 0 /\ out <= idx[t] /\ idx[t] < in /\ isfree[Slot(idx[t])]
      /\ buffer[Slot(idx[t])] = idx[t]
  BY <1>0 DEF Writers, Writing
<1>3. /\ ~isfree'[Slot(idx[t])]
      /\ \A s \in Slots : s # Slot(idx[t]) => isfree'[s] = isfree[s]
  <2>1. Slot(idx[t]) \in Slots /\ isfree \in [Slots -> BOOLEAN]
    BY <1>1, SlotType DEF Numbers, TypeOK
  <2> QED
    BY <1>0, <2>1
<1>4. \A k \in Int : ~isfree[Slot(k)] => ~isfree'[Slot(k)]
  BY <1>3, SlotType
<1>5. Counters' /\ Delivered'
  BY <1>0 DEF Counters, Ahead, Delivered, Reading
<1>6. Loaded'
  <2> SUFFICES ASSUME NEW u \in Threads PROVE PushLoaded(u)' /\ PopLoaded(u)'
    BY DEF Loaded
  <2>1. PushLoaded(u) /\ PopLoaded(u)
    BY DEF Loaded
  <2>2. in < out + Size => Slot(in) # Slot(idx[t])
    BY <1>1, <1>2, SlotDistinct DEF Numbers
  <2>3. in < out + Size => isfree'[Slot(in)] = isfree[Slot(in)]
    BY <1>1, <1>3, <2>2, SlotType DEF Numbers
  <2>4. PushLoaded(u)'
    BY <1>0, <2>1, <2>3 DEF PushLoaded, Pushing
  <2>5. PopLoaded(u)'
    BY <1>0, <1>1, <1>4, <2>1 DEF PopLoaded, Popping, Numbers
  <2> QED
    BY <2>4, <2>5
<1>7. Writers'
  <2> SUFFICES ASSUME NEW u \in Threads, Writing(u)'
               PROVE  Writing(u) /\ pc'[u] = pc[u] /\ isfree'[Slot(idx[u])]
    BY <1>0 DEF Writers, Writing
  <2>1. u # t /\ Writing(u) /\ pc'[u] = pc[u]
    BY <1>0 DEF Writing
  <2>2. out <= idx[u] /\ idx[u] < in /\ isfree[Slot(idx[u])] /\ idx[u] # idx[t]
    BY <1>2, <2>1 DEF Writers, Distinct
  <2>3. Slot(idx[u]) # Slot(idx[t])
    BY <1>1, <1>2, <2>2, QueuedDistinct DEF Numbers
  <2> QED
    BY <1>1, <1>3, <2>1, <2>2, <2>3, SlotType DEF Numbers
<1>8. Readers'
  BY <1>0, <1>1, <1>4 DEF Readers, Reading, Numbers
<1>9. Distinct'
  BY <1>0 DEF Distinct, Writing, Reading
<1>10. Stored'
  <2> SUFFICES ASSUME NEW k \in out..(in - 1), k # 0
               PROVE  \/ ~isfree'[Slot(k)] /\ buffer[Slot(k)] = k
                      \/ \E u \in Threads : Writing(u)' /\ idx[u] = k
    BY <1>0 DEF Stored
  <2>1. CASE k = idx[t]
    BY <1>2, <1>3, <2>1
  <2>2. CASE k # idx[t]
    BY <1>0, <1>1, <1>4, <2>2 DEF Stored, Writing, Numbers
  <2> QED
    BY <2>1, <2>2
<1>11. Accounted'
  <2>1. idx[t] \in out..(in - 1)
    BY <1>1, <1>2 DEF Numbers
  <2> QED
    BY <1>0, <1>2, <1>3, <2>1 DEF Accounted, Reading
<1> QED
  BY <1>5, <1>6, <1>7, <1>8, <1>9, <1>10, <1>11

(* A pop skips ticket 0, which no push owns: `out' may overtake `in'. *)
LEMMA PopSkipStep ==
    ASSUME TypeOK, Discipline, ReqSize >= 3, NEW t \in Threads, PopSkip(t)
    PROVE  Discipline'
<1> USE DEF Discipline
<1>0. /\ pc[t] = "o_skip" /\ pc'[t] = "o_try"
      /\ \A u \in Threads \ {t} : pc'[u] = pc[u]
      /\ out = 0 /\ out' = 1
      /\ UNCHANGED <<buffer, isfree, in, idx, arg, item, recv>>
  BY DEF PopSkip, Goto, hist, TypeOK
<1>1. Numbers
  BY NumbersType
<1>2. Counters' /\ Delivered'
  <2>1. \A r \in recv : r.ticket < out => r.ticket < out'
    BY <1>0, <1>1 DEF Numbers, TypeOK
  <2>2. Delivered'
    BY <1>0, <2>1 DEF Delivered, Reading
  <2> QED
    BY <1>0, <1>1, <2>2 DEF Counters, Ahead, Numbers
<1>3. Loaded'
  <2> SUFFICES ASSUME NEW u \in Threads PROVE PushLoaded(u)' /\ PopLoaded(u)'
    BY DEF Loaded
  <2>1. PushLoaded(u) /\ PopLoaded(u)
    BY DEF Loaded
  <2>2. PushLoaded(u)'
    BY <1>0, <1>1, <2>1 DEF PushLoaded, Pushing, Numbers
  <2>3. PopLoaded(u)'
    BY <1>0, <1>1, <2>1 DEF PopLoaded, Popping, Numbers
  <2> QED
    BY <2>2, <2>3
<1>4. Writers'
  BY <1>0, <1>1 DEF Writers, Writing, Numbers
<1>5. Readers'
  BY <1>0, <1>1 DEF Readers, Reading, Numbers
<1>6. Distinct'
  BY <1>0 DEF Distinct, Writing, Reading
<1>7. Stored'
  BY <1>0, <1>1 DEF Stored, Writing, Numbers
<1>8. Accounted'
  <2>1. \A k \in out..(in - 1) : k # 0 => k \in out'..(in' - 1)
    BY <1>0, <1>1 DEF Numbers
  <2> QED
    BY <1>0, <2>1 DEF Accounted, Reading
<1> QED
  BY <1>2, <1>3, <1>4, <1>5, <1>6, <1>7, <1>8

(* A pop claims a ticket: its cell is taken, so its push is finished. *)
LEMMA PopClaimStep ==
    ASSUME TypeOK, Discipline, ReqSize >= 3, NEW t \in Threads, PopClaim(t)
    PROVE  Discipline'
<1> USE DEF Discipline
<1>0. /\ pc[t] = "o_cas" /\ pc'[t] = "o_take"
      /\ \A u \in Threads \ {t} : pc'[u] = pc[u]
      /\ out = idx[t] /\ out' = out + 1
      /\ UNCHANGED <<buffer, isfree, in, idx, arg, item, recv>>
  BY DEF PopClaim, Goto, hist, TypeOK
<1>1. Numbers
  BY NumbersType
<1>2. out # 0 /\ out < in /\ ~isfree[Slot(out)]
  BY <1>0, <1>1 DEF Loaded, PopLoaded, Popping, Numbers
<1>3. \A u \in Threads : Writing(u) => idx[u] # out
  BY <1>2 DEF Writers
<1>4. buffer[Slot(out)] = out
  <2>1. out \in out..(in - 1)
    BY <1>1, <1>2 DEF Numbers
  <2> QED
    BY <1>2, <1>3, <2>1 DEF Stored
<1>5. Counters'
  BY <1>0, <1>1, <1>2 DEF Counters, Ahead, Numbers
<1>12. Delivered'
  <2>1. \A r \in recv : r.ticket < out => r.ticket < out' /\ r.ticket # out
    BY <1>0, <1>1 DEF Numbers, TypeOK
  <2>2. \A u \in Threads : Reading(u)' => Reading(u) \/ idx[u] = out
    BY <1>0 DEF Reading
  <2> SUFFICES ASSUME NEW r \in recv
               PROVE  /\ r.item = r.ticket /\ r.ticket # 0 /\ r.ticket < out'
                      /\ \A u \in Threads : Reading(u)' => idx[u] # r.ticket
                      /\ \A s \in recv : r.ticket = s.ticket => r = s
    BY <1>0 DEF Delivered
  <2>3. /\ r.item = r.ticket /\ r.ticket # 0 /\ r.ticket < out
        /\ \A u \in Threads : Reading(u) => idx[u] # r.ticket
        /\ \A s \in recv : r.ticket = s.ticket => r = s
    BY DEF Delivered
  <2> QED
    BY <2>1, <2>2, <2>3
<1>6. Loaded'
  <2> SUFFICES ASSUME NEW u \in Threads PROVE PushLoaded(u)' /\ PopLoaded(u)'
    BY DEF Loaded
  <2>1. PushLoaded(u) /\ PopLoaded(u)
    BY DEF Loaded
  <2>2. PushLoaded(u)'
    BY <1>0, <1>1, <2>1 DEF PushLoaded, Pushing, Numbers
  <2>3. PopLoaded(u)'
    BY <1>0, <1>1, <1>2, <2>1 DEF PopLoaded, Popping, Numbers
  <2> QED
    BY <2>2, <2>3
<1>7. Writers'
  BY <1>0, <1>1, <1>3 DEF Writers, Writing, Numbers
<1>8. Readers'
  BY <1>0, <1>1, <1>2, <1>4 DEF Readers, Reading, Counters, Numbers
<1>9. Distinct'
  <2>1. \A u \in Threads : Reading(u) => idx[u] # idx[t]
    BY <1>0, <1>1 DEF Readers, Numbers
  <2> QED
    BY <1>0, <2>1 DEF Distinct, Writing, Reading
<1>10. Stored'
  BY <1>0, <1>1 DEF Stored, Writing, Numbers
<1>11. Accounted'
  <2>1. \A k \in out..(in - 1) : k = idx[t] \/ k \in out'..(in' - 1)
    BY <1>0, <1>1 DEF Numbers
  <2>2. Reading(t)' /\ \A u \in Threads : Reading(u) => Reading(u)'
    BY <1>0 DEF Reading
  <2> QED
    BY <1>0, <2>1, <2>2 DEF Accounted
<1> QED
  BY <1>5, <1>6, <1>7, <1>8, <1>9, <1>10, <1>11, <1>12

(* A pop copies the item of its ticket. *)
LEMMA PopTakeStep ==
    ASSUME TypeOK, Discipline, NEW t \in Threads, PopTake(t)
    PROVE  Discipline'
<1> USE DEF Discipline
<1>0. /\ pc[t] = "o_take" /\ pc'[t] = "o_free" /\ item'[t] = buffer[Slot(idx[t])]
      /\ \A u \in Threads \ {t} : pc'[u] = pc[u] /\ item'[u] = item[u]
      /\ UNCHANGED <<buffer, isfree, in, out, idx, arg, recv>>
  BY DEF PopTake, Goto, mem, hist, TypeOK
<1>1. Counters' /\ Delivered'
  BY <1>0 DEF Counters, Ahead, Delivered, Reading
<1>2. Loaded'
  BY <1>0 DEF Loaded, PushLoaded, PopLoaded, Pushing, Popping
<1>3. Writers'
  BY <1>0 DEF Writers, Writing
<1>4. Readers'
  BY <1>0 DEF Readers, Reading
<1>5. Distinct'
  BY <1>0 DEF Distinct, Writing, Reading
<1>6. Stored'
  BY <1>0 DEF Stored, Writing
<1>7. Accounted'
  BY <1>0 DEF Accounted, Reading
<1> QED
  BY <1>1, <1>2, <1>3, <1>4, <1>5, <1>6, <1>7

(* A pop frees its cell: no other pop reads it, and it is not the cell of a *)
(* ticket in the queue.                                                     *)
LEMMA PopFreeStep ==
    ASSUME TypeOK, Discipline, ReqSize >= 3, NEW t \in Threads, PopFree(t)
    PROVE  Discipline'
<1> USE DEF Discipline
<1>0. /\ pc[t] = "o_free" /\ pc'[t] = "idle"
      /\ \A u \in Threads \ {t} : pc'[u] = pc[u]
      /\ isfree' = [isfree EXCEPT ![Slot(idx[t])] = TRUE]
      /\ recv' = recv \cup {Delivery(t)}
      /\ UNCHANGED <<buffer, in, out, idx, arg, item>>
  BY DEF PopFree, Return, Goto, TypeOK
<1>1. Numbers
  BY NumbersType
<1>2. /\ Reading(t) /\ idx[t] # 0 /\ idx[t] < out /\ in <= idx[t] + Size
      /\ item[t] = idx[t]
  BY <1>0 DEF Readers, Reading
<1>3. /\ isfree'[Slot(idx[t])]
      /\ \A s \in Slots : s # Slot(idx[t]) => isfree'[s] = isfree[s]
  <2>1. Slot(idx[t]) \in Slots /\ isfree \in [Slots -> BOOLEAN]
    BY <1>1, SlotType DEF Numbers, TypeOK
  <2> QED
    BY <1>0, <2>1
<1>4. \A k \in out..(in - 1) : isfree'[Slot(k)] = isfree[Slot(k)]
  <2> SUFFICES ASSUME NEW k \in out..(in - 1) PROVE isfree'[Slot(k)] = isfree[Slot(k)]
    OBVIOUS
  <2>1. k \in Int /\ idx[t] < k /\ k < idx[t] + Size
    BY <1>1, <1>2 DEF Numbers
  <2> QED
    BY <1>1, <1>3, <2>1, SlotType, SlotDistinct DEF Numbers
<1>5. Counters'
  BY <1>0 DEF Counters, Ahead
<1>6. Delivered'
  <2>1. Delivery(t).ticket = idx[t] /\ Delivery(t).item = idx[t]
    BY <1>2 DEF Delivery
  <2>2. \A r \in recv : r.ticket # idx[t]
    BY <1>2 DEF Delivered
  <2>3. \A u \in Threads : Reading(u)' => Reading(u) /\ idx[u] # idx[t]
    BY <1>0, <1>2 DEF Distinct, Reading
  <2> QED
    BY <1>0, <1>2, <2>1, <2>2, <2>3 DEF Delivered
<1>7. Loaded'
  <2> SUFFICES ASSUME NEW u \in Threads PROVE PushLoaded(u)' /\ PopLoaded(u)'
    BY DEF Loaded
  <2>1. PushLoaded(u) /\ PopLoaded(u)
    BY DEF Loaded
  <2>2. isfree[Slot(in)] => isfree'[Slot(in)]
    BY <1>1, <1>3, SlotType DEF Numbers
  <2>3. out < in => isfree'[Slot(out)] = isfree[Slot(out)]
    BY <1>1, <1>4 DEF Numbers
  <2>4. PushLoaded(u)'
    BY <1>0, <2>1, <2>2 DEF PushLoaded, Pushing
  <2>5. PopLoaded(u)'
    BY <1>0, <2>1, <2>3 DEF PopLoaded, Popping
  <2> QED
    BY <2>4, <2>5
<1>8. Writers'
  <2>1. \A k \in Int : isfree[Slot(k)] => isfree'[Slot(k)]
    BY <1>3, SlotType
  <2> QED
    BY <1>0, <1>1, <2>1 DEF Writers, Writing, Numbers
<1>9. Readers'
  <2> SUFFICES ASSUME NEW u \in Threads, Reading(u)'
               PROVE  Reading(u) /\ pc'[u] = pc[u] /\ ~isfree'[Slot(idx[u])]
    BY <1>0 DEF Readers, Reading
  <2>1. u # t /\ Reading(u) /\ pc'[u] = pc[u]
    BY <1>0 DEF Reading
  <2>2. /\ idx[u] # 0 /\ idx[u] < out /\ in <= idx[u] + Size /\ ~isfree[Slot(idx[u])]
        /\ idx[u] # idx[t]
    BY <1>2, <2>1 DEF Readers, Distinct
  <2>3. Slot(idx[u]) # Slot(idx[t])
    <3>1. idx[u] < idx[t] + Size /\ idx[t] < idx[u] + Size
      BY <1>1, <1>2, <2>2 DEF Counters, Ahead, Numbers
    <3> QED
      BY <1>1, <2>2, <3>1, SlotDistinct DEF Numbers
  <2> QED
    BY <1>1, <1>3, <2>1, <2>2, <2>3, SlotType DEF Numbers
<1>10. Distinct'
  BY <1>0 DEF Distinct, Writing, Reading
<1>11. Stored'
  BY <1>0, <1>4 DEF Stored, Writing
<1>12. Accounted'
  <2> SUFFICES ASSUME NEW s \in Slots, ~isfree'[s]
               PROVE  \/ \E k \in out..(in - 1) : k # 0 /\ Slot(k) = s
                      \/ \E u \in Threads : Reading(u)' /\ Slot(idx[u]) = s
    BY <1>0 DEF Accounted
  <2>1. s # Slot(idx[t]) /\ ~isfree[s]
    BY <1>3
  <2>2. \A u \in Threads : Reading(u) /\ Slot(idx[u]) = s => Reading(u)'
    BY <1>0, <2>1 DEF Reading
  <2> QED
    BY <2>1, <2>2 DEF Accounted
<1> QED
  BY <1>5, <1>6, <1>7, <1>8, <1>9, <1>10, <1>11, <1>12

(* Every step of a queue that is not stopped keeps the discipline. *)
LEMMA NextInv == ASSUME ReqSize >= 3, Inv, [Next]_vars PROVE Inv'
<1>1. TypeOK'
  BY NextType DEF Inv
<1> SUFFICES ASSUME ~stopped' PROVE Discipline'
  BY <1>1 DEF Inv
<1>2. TypeOK /\ running /\ Discipline
  <2>1. stopped => stopped'
    BY DEF Next, Step, Call, PushStep, PushLoad, FullArg, PushRefused, PushTry, PushStopped,
           PushRunning, PushWait, PushWaitRun, PushSlot, PushClaim, PushRetry, PushStore, PushMark,
           PopStep, PopLoad, PopSkip, PopSkipRetry, EmptyArg, PopRefused, PopTry, PopStopped,
           PopRunning, PopWait, PopWaitRun, PopSlot, PopClaim, PopRetry, PopTake, PopFree,
           Stop, Start, Ended, Move, vars, hist
  <2> QED
    BY <2>1 DEF Inv, TypeOK
<1>3. ASSUME NEW t \in Threads, Call(t) PROVE Discipline'
  <2>1. OnlyBy(t) /\ pc[t] = "idle" /\ pc'[t] \in {"p_load", "o_load"}
    BY <1>2, <1>3 DEF Call, Move, Goto, mem, hist, OnlyBy, TypeOK
  <2>2. /\ ~Writing(t) /\ ~Reading(t) /\ ~Writing(t)' /\ ~Reading(t)'
        /\ ~Pushing(t)' /\ ~Popping(t)'
    BY <2>1 DEF Writing, Reading, Pushing, Popping
  <2> QED
    BY <1>2, <2>1, <2>2, QuietStep DEF PushLoaded, PopLoaded
<1>4. ASSUME NEW t \in Threads, PushStep(t) PROVE Discipline'
  BY <1>2, <1>4, PushQuiet, PushClaimStep, PushStoreStep, PushMarkStep DEF PushStep
<1>5. ASSUME NEW t \in Threads, PopStep(t) PROVE Discipline'
  BY <1>2, <1>5, PopQuiet, PopSkipStep, PopClaimStep, PopTakeStep, PopFreeStep DEF PopStep
<1>6. CASE Stop \/ Start
  BY <1>2, <1>6 DEF Stop, Start, hist
<1>7. CASE UNCHANGED vars
  BY <1>2, <1>7
  DEF vars, mem, hist, Discipline, Counters, Ahead, Loaded, PushLoaded, PopLoaded, Pushing,
      Popping, Writers, Readers, Distinct, Writing, Reading, Stored, Accounted, Delivered
<1> QED
  BY <1>3, <1>4, <1>5, <1>6, <1>7 DEF Next, Step, Ended

(* The ticket discipline holds in every state before stop() is called. *)
THEOREM InvCorrect == ASSUME ReqSize >= 3 PROVE Spec => []Inv
<1>1. Init => Inv
  BY InitType, InitDiscipline DEF Inv
<1>2. Inv /\ [Next]_vars => Inv'
  BY NextInv
<1> QED
  BY <1>1, <1>2, PTL DEF Spec

(* Until the queue is stopped, every pop returns the item that was pushed   *)
(* with its own ticket, none returns ticket 0, and no ticket is served to   *)
(* two pops, in every queue of more than two cells, whatever calls the      *)
(* threads make.                                                            *)
THEOREM TicketFifoHolds == ASSUME ReqSize >= 3 PROVE Spec => []TicketFifo
<1>1. Inv => TicketFifo
  BY DEF Inv, Discipline, Delivered, TicketFifo
<1> QED
  BY <1>1, InvCorrect, PTL

(* Until the queue is stopped, buffer and isfree, although plain memory,    *)
(* are never accessed at one cell by two owners of tickets.                 *)
THEOREM CellsExclusiveHolds == ASSUME ReqSize >= 3 PROVE Spec => []CellsExclusive
<1>1. Inv => CellsExclusive
  <2> SUFFICES ASSUME TypeOK, Discipline, NEW t \in Owners, NEW u \in Owners, t # u
               PROVE  Slot(idx[t]) # Slot(idx[u])
    BY DEF Inv, CellsExclusive
  <2> USE DEF Discipline
  <2>1. t \in Threads /\ u \in Threads /\ (Writing(t) \/ Reading(t)) /\ (Writing(u) \/ Reading(u))
    BY DEF Owners, Writing, Reading
  <2>2. Numbers
    BY NumbersType
  <2>3. CASE Writing(t) /\ Writing(u)
    BY <2>1, <2>2, <2>3, QueuedDistinct DEF Writers, Distinct, Numbers
  <2>4. CASE Reading(t) /\ Reading(u)
    <3>1. idx[u] # idx[t] /\ idx[u] < idx[t] + Size /\ idx[t] < idx[u] + Size
      BY <2>1, <2>2, <2>4 DEF Readers, Distinct, Counters, Ahead, Numbers
    <3> QED
      BY <2>1, <2>2, <3>1, SlotDistinct DEF Numbers
  <2>5. CASE (Writing(t) /\ Reading(u)) \/ (Reading(t) /\ Writing(u))
    BY <2>1, <2>5 DEF Writers, Readers
  <2> QED
    BY <2>1, <2>3, <2>4, <2>5
<1> QED
  BY <1>1, InvCorrect, PTL

(* Until the queue is stopped, `in' is at most a lap ahead of `out', and    *)
(* `out' overtakes `in' only by skipping ticket 0 before a push does.       *)
THEOREM LapBoundHolds == ASSUME ReqSize >= 3 PROVE Spec => []LapBound
<1>1. Inv => LapBound
  <2> SUFFICES ASSUME TypeOK, Counters
               PROVE  in - out \in (-1)..Size /\ (out > in => out = 1 /\ in = 0)
    BY DEF Inv, Discipline, LapBound
  <2> QED
    BY NumbersType DEF Numbers, Counters, Ahead
<1> QED
  BY <1>1, InvCorrect, PTL

(* A queue at rest holds exactly the items of the tickets in the queue.     *)
THEOREM AtRestHolds == ASSUME ReqSize >= 3 PROVE Spec => []AtRest
<1>1. Inv => AtRest
  <2> SUFFICES ASSUME Discipline, \A t \in Threads : pc[t] = "idle",
                      TypeOK
               PROVE  LET queued == {k \in out..(in - 1) : k # 0}
                      IN  /\ \A s \in Slots : isfree[s] <=> ~\E k \in queued : Slot(k) = s
                          /\ \A k \in queued : buffer[Slot(k)] = k
    BY DEF Inv, AtRest
  <2>1. \A t \in Threads : ~Writing(t) /\ ~Reading(t)
    BY DEF Writing, Reading
  <2>2. \A k \in out..(in - 1) : k # 0 => ~isfree[Slot(k)] /\ buffer[Slot(k)] = k
    BY <2>1 DEF Discipline, Stored
  <2>3. \A s \in Slots : ~isfree[s] => \E k \in out..(in - 1) : k # 0 /\ Slot(k) = s
    BY <2>1 DEF Discipline, Accounted
  <2> QED
    BY <2>2, <2>3
<1> QED
  BY <1>1, InvCorrect, PTL
=============================================================================
