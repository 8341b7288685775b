------------------------ MODULE NutshellQueueProofs ------------------------
(***************************************************************************)
(* Proofs about NutshellQueue for every set of threads, every set of items, *)
(* every size and every number of calls: the ticket discipline is an        *)
(* inductive invariant, and the queue implements the bounded FIFO.          *)
(***************************************************************************)
EXTENDS NutshellQueue, SequenceTheorems, TLAPS

(* What the local ticket of a call that owns nothing yet is worth: it may   *)
(* be stale, but if it is not, then the tests already made still hold.      *)
Loaded == \A t \in Threads :
    /\ Trying(t) => reg[t] \in Items
    /\ pc[t] \in {"p_full", "p_slot", "p_cas"} => idx[t] <= in
    /\ pc[t] \in {"p_slot", "p_cas"} /\ idx[t] = in => in < out + Size
    /\ pc[t] = "p_cas" /\ idx[t] = in => buffer[Slot(in)] = Free
    /\ pc[t] \in {"o_empty", "o_slot", "o_cas"} => idx[t] <= out
    /\ pc[t] \in {"o_slot", "o_cas"} => idx[t] < in
    /\ pc[t] = "o_cas" /\ idx[t] = out => buffer[Slot(out)] # Free

(* A push between its claim and its store. *)
Writing(t) == pc[t] = "p_store"

(* A pop between its claim and the release of its cell. *)
Reading(t) == pc[t] \in {"o_take", "o_clear"}

(* The ticket of a writing push has not been popped and its cell is free. *)
Writers == \A t \in Threads : Writing(t) =>
    /\ out <= idx[t]
    /\ idx[t] < in
    /\ reg[t] = hist[idx[t] + 1]
    /\ buffer[Slot(idx[t])] = Free

(* The cell of a reading pop still holds the item of its ticket, and the    *)
(* pushes of the next lap have not reached that cell.                       *)
Readers == \A t \in Threads : Reading(t) =>
    /\ idx[t] < out
    /\ in <= idx[t] + Size
    /\ buffer[Slot(idx[t])] = hist[idx[t] + 1]
    /\ pc[t] = "o_clear" => reg[t] = hist[idx[t] + 1]

(* A ticket has one owner. *)
Distinct == \A t, u \in Threads :
    t # u /\ ((Writing(t) /\ Writing(u)) \/ (Reading(t) /\ Reading(u))) => idx[t] # idx[u]

(* The cell of a ticket in the queue holds its item once it is stored. *)
Stored == \A k \in out..(in - 1) :
    \/ buffer[Slot(k)] = hist[k + 1]
    \/ \E t \in Threads : Writing(t) /\ idx[t] = k

(* An item in the buffer is in the queue, or a pop is about to clear it. *)
Accounted == \A s \in 0..(Size - 1) : buffer[s] # Free =>
    \/ \E k \in out..(in - 1) : Slot(k) = s
    \/ \E t \in Threads : Reading(t) /\ Slot(idx[t]) = s

Inv == /\ TypeOK
       /\ CountersInOrder
       /\ Loaded
       /\ Writers
       /\ Readers
       /\ Distinct
       /\ Stored
       /\ Accounted

-----------------------------------------------------------------------------
(* Arithmetic of the circular buffer *)

(* A multiple of Size is at least Size more than every smaller multiple. *)
LEMMA NextMultiple ==
    ASSUME NEW a \in Int, NEW b \in Int, a < b
    PROVE  Size * a + Size <= Size * b
BY SizeAssumption

(* Every ticket has a cell. *)
LEMMA SlotType == \A i \in Nat : Slot(i) \in 0..(Size - 1)
BY SizeAssumption DEF Slot

(* Two different tickets less than a lap apart have different cells. *)
LEMMA SlotDistinct ==
    \A i, j \in Nat : i < j /\ j < i + Size => Slot(i) # Slot(j)
<1> SUFFICES ASSUME NEW i \in Nat, NEW j \in Nat, i < j, j < i + Size,
                    i % Size = j % Size
             PROVE  FALSE
  BY DEF Slot
<1> DEFINE a == i \div Size
           b == j \div Size
           m == i % Size
<1>1. i = Size * a + m /\ j = Size * b + m
  BY SizeAssumption
<1>2. a \in Int /\ b \in Int /\ m \in Int
  BY SizeAssumption
<1>3. a < b => Size * a + Size <= Size * b
  BY <1>2, NextMultiple
<1>4. b < a => Size * b + Size <= Size * a
  BY <1>2, NextMultiple
<1> HIDE DEF a, b, m
<1>5. a = b
  BY <1>1, <1>2, <1>3, <1>4, SizeAssumption
<1> QED
  BY <1>1, <1>5

(* A ticket and the one a lap later have the same cell. *)
LEMMA SlotWrap == \A i \in Nat : Slot(i + Size) = Slot(i)
<1> SUFFICES ASSUME NEW i \in Nat
             PROVE  (i + Size) % Size = i % Size
  BY DEF Slot
<1> DEFINE a == i \div Size
           b == (i + Size) \div Size
           m == i % Size
           n == (i + Size) % Size
<1>1. i = Size * a + m /\ i + Size = Size * b + n
  BY SizeAssumption, SMTT(20)
<1>2. a \in Int /\ b \in Int /\ m \in 0..(Size - 1) /\ n \in 0..(Size - 1)
  BY SizeAssumption
<1>3. a + 1 < b => Size * (a + 1) + Size <= Size * b
  BY <1>2, NextMultiple
<1>4. b < a + 1 => Size * b + Size <= Size * (a + 1)
  BY <1>2, NextMultiple
<1>5. Size * (a + 1) = Size * a + Size
  BY <1>2, SizeAssumption
<1> HIDE DEF a, b, m, n
<1>6. m = n
  BY <1>1, <1>2, <1>3, <1>4, <1>5, SizeAssumption
<1> QED
  BY <1>6 DEF m, n

-----------------------------------------------------------------------------
(* The inductive invariant *)

(* The constructor establishes the invariant. *)
LEMMA InitInv == Init => Inv
<1> SUFFICES ASSUME Init PROVE Inv
  OBVIOUS
<1>1. TypeOK
  BY SizeAssumption, MaxCallsAssumption DEF Init, TypeOK, Labels
<1>2. CountersInOrder /\ Loaded /\ Writers /\ Readers /\ Distinct
  BY SizeAssumption
  DEF Init, CountersInOrder, Loaded, Trying, Writers, Readers, Distinct, Writing, Reading
<1>3. Stored /\ Accounted
  BY SizeAssumption DEF Init, Stored, Accounted
<1> QED
  BY <1>1, <1>2, <1>3 DEF Inv

(* A step of a call that owns nothing, or that only reads: it changes no    *)
(* shared memory and no history.                                            *)
LEMMA QuietStep ==
    ASSUME Inv, NEW t \in Threads,
           \/ \E v \in Items : CallPush(t, v)
           \/ CallPop(t)
           \/ PushLoad(t) \/ PushNotFull(t) \/ PushSlot(t) \/ PushRetry(t)
           \/ PopLoad(t) \/ PopNotEmpty(t) \/ PopSlot(t) \/ PopRetry(t)
           \/ PopTake(t)
    PROVE  Inv'
<1> USE DEF Inv, mem, Goto
<1>0. /\ UNCHANGED <<buffer, in, out, hist>>
      /\ ~Writing(t) /\ ~Writing(t)'
      /\ \A u \in Threads \ {t} : pc'[u] = pc[u] /\ idx'[u] = idx[u] /\ reg'[u] = reg[u]
  BY DEF CallPush, CallPop, PushLoad, PushNotFull, PushSlot, PushRetry,
         PopLoad, PopNotEmpty, PopSlot, PopRetry, PopTake, Writing, TypeOK
<1>1. TypeOK'
  <2>1. pc' \in [Threads -> Labels]
    BY DEF TypeOK, Labels, CallPush, CallPop, PushLoad, PushNotFull, PushSlot, PushRetry,
           PopLoad, PopNotEmpty, PopSlot, PopRetry, PopTake
  <2>2. idx' \in [Threads -> Nat]
    BY DEF TypeOK, CallPush, CallPop, PushLoad, PushNotFull, PushSlot, PushRetry,
           PopLoad, PopNotEmpty, PopSlot, PopRetry, PopTake
  <2>3. reg' \in [Threads -> Items \cup {Free}]
    <3>1. buffer[Slot(idx[t])] \in Items \cup {Free}
      BY SlotType DEF TypeOK
    <3> QED
      BY <3>1 DEF TypeOK, CallPush, CallPop, PushLoad, PushNotFull, PushSlot, PushRetry,
                  PopLoad, PopNotEmpty, PopSlot, PopRetry, PopTake
  <2>4. calls' \in [Threads -> 0..MaxCalls]
    <3>1. \/ UNCHANGED calls
          \/ /\ calls[t] < MaxCalls
             /\ calls' = [calls EXCEPT ![t] = calls[t] + 1]
      BY DEF CallPush, CallPop, PushLoad, PushNotFull, PushSlot, PushRetry,
             PopLoad, PopNotEmpty, PopSlot, PopRetry, PopTake
    <3>2. calls[t] \in 0..MaxCalls /\ calls \in [Threads -> 0..MaxCalls]
      BY DEF TypeOK
    <3>3. calls[t] < MaxCalls => calls[t] + 1 \in 0..MaxCalls
      BY <3>2, MaxCallsAssumption
    <3> QED
      BY <3>1, <3>2, <3>3
  <2> QED
    BY <1>0, <2>1, <2>2, <2>3, <2>4 DEF TypeOK
<1>2. CountersInOrder'
  BY <1>0 DEF CountersInOrder
<1>3. Loaded'
  BY <1>0, SizeAssumption
  DEF TypeOK, CountersInOrder, Loaded, Trying, CallPush, CallPop, PushLoad, PushNotFull,
      PushSlot, PushRetry, PopLoad, PopNotEmpty, PopSlot, PopRetry, PopTake
<1>4. Writers'
  BY <1>0 DEF Writers, Writing
<1>5. /\ Reading(t) <=> Reading(t)'
      /\ Reading(t) => idx'[t] = idx[t]
      /\ pc'[t] = "o_clear" => pc[t] = "o_take" /\ reg'[t] = buffer[Slot(idx[t])]
  BY DEF TypeOK, Reading, CallPush, CallPop, PushLoad, PushNotFull, PushSlot, PushRetry,
         PopLoad, PopNotEmpty, PopSlot, PopRetry, PopTake
<1>6. Readers'
  BY <1>0, <1>5 DEF Readers, Reading
<1>7. Distinct'
  BY <1>0, <1>5 DEF Distinct, Reading, Writing
<1>8. Stored'
  BY <1>0 DEF Stored, Writing
<1>9. Accounted'
  BY <1>0, <1>5 DEF Accounted, Reading
<1> QED
  BY <1>1, <1>2, <1>3, <1>4, <1>6, <1>7, <1>8, <1>9

(* A push claims a ticket: the cell is free, so no pop of the lap before    *)
(* still holds it.                                                          *)
LEMMA PushClaimStep ==
    ASSUME Inv, NEW t \in Threads, PushClaim(t)
    PROVE  Inv'
<1> USE DEF Inv
<1>0. /\ pc[t] = "p_cas" /\ pc' = [pc EXCEPT ![t] = "p_store"] /\ pc \in [Threads -> Labels]
      /\ idx[t] = in /\ in' = in + 1 /\ hist' = Append(hist, reg[t])
      /\ UNCHANGED <<buffer, out, idx, reg, calls>>
  BY DEF PushClaim, Goto, TypeOK
<1>1. /\ in < out + Size
      /\ buffer[Slot(in)] = Free
      /\ in \in Nat /\ out \in Nat /\ Size \in Nat /\ out <= in
      /\ idx \in [Threads -> Nat] /\ hist \in Seq(Items) /\ Len(hist) = in
  BY <1>0, SizeAssumption DEF Loaded, TypeOK, CountersInOrder
<1>2. reg[t] \in Items
  BY <1>0 DEF Loaded, Trying
<1>3. /\ hist' \in Seq(Items)
      /\ Len(hist') = in + 1
      /\ \A k \in 0..(in - 1) : hist'[k + 1] = hist[k + 1]
      /\ hist'[in + 1] = reg[t]
  BY <1>0, <1>1, <1>2, AppendProperties
<1>4. TypeOK'
  BY <1>0, <1>1, <1>3 DEF TypeOK, Labels
<1>5. CountersInOrder'
  BY <1>0, <1>1 DEF CountersInOrder
<1>6. Loaded'
  <2> SUFFICES ASSUME NEW u \in Threads
               PROVE  Loaded!(u)'
    BY DEF Loaded
  <2>1. CASE u = t
    BY <2>1, <1>0 DEF Trying
  <2>2. CASE u # t
    <3>1. pc'[u] = pc[u] /\ idx[u] \in Nat
      BY <2>2, <1>0, <1>1
    <3>2. Loaded!(u)
      BY DEF Loaded
    <3> QED
      BY <3>1, <3>2, <1>0, <1>1 DEF Trying
  <2> QED
    BY <2>1, <2>2
<1>7. Writers'
  <2> SUFFICES ASSUME NEW u \in Threads, Writing(u)'
               PROVE  Writers!(u)!2'
    BY DEF Writers
  <2>1. CASE u = t
    BY <2>1, <1>0, <1>1, <1>3
  <2>2. CASE u # t
    <3>1. Writing(u) /\ idx[u] \in Nat
      BY <2>2, <1>0, <1>1 DEF Writing
    <3>2. Writers!(u)!2
      BY <3>1 DEF Writers
    <3>3. hist'[idx[u] + 1] = hist[idx[u] + 1]
      BY <3>1, <3>2, <1>1, <1>3
    <3> QED
      BY <3>1, <3>2, <3>3, <1>0, <1>1
  <2> QED
    BY <2>1, <2>2
<1>8. ASSUME NEW u \in Threads, Reading(u)
      PROVE  in # idx[u] + Size
  <2>1. buffer[Slot(idx[u])] \in Items
    BY <1>8, <1>1 DEF Readers, CountersInOrder
  <2>2. Slot(idx[u] + Size) = Slot(idx[u])
    BY <1>1, SlotWrap
  <2> QED
    BY <2>1, <2>2, <1>1, ItemsAssumption
<1>9. Readers'
  <2> SUFFICES ASSUME NEW u \in Threads, Reading(u)'
               PROVE  /\ idx[u] < out
                      /\ in + 1 <= idx[u] + Size
                      /\ buffer[Slot(idx[u])] = hist'[idx[u] + 1]
                      /\ pc'[u] = "o_clear" => reg[u] = hist'[idx[u] + 1]
    BY <1>0 DEF Readers, Reading
  <2>1. Reading(u) /\ u # t /\ pc'[u] = pc[u]
    BY <1>0 DEF Reading
  <2>2. idx[u] < out /\ in <= idx[u] + Size /\ idx[u] \in Nat
    BY <2>1, <1>1 DEF Readers
  <2>3. hist'[idx[u] + 1] = hist[idx[u] + 1]
    BY <2>2, <1>1, <1>3
  <2>4. in # idx[u] + Size
    BY <2>1, <1>8
  <2>5. Readers!(u)!2
    BY <2>1 DEF Readers
  <2> QED
    BY <2>1, <2>2, <2>3, <2>4, <2>5, <1>1
<1>10. Distinct'
  BY <1>0, <1>1 DEF Distinct, Writers, Writing, Reading
<1>11. Stored'
  <2> SUFFICES ASSUME NEW k \in out..in
               PROVE  \/ buffer[Slot(k)] = hist'[k + 1]
                      \/ \E u \in Threads : Writing(u)' /\ idx[u] = k
    BY <1>0, <1>1 DEF Stored
  <2>1. CASE k = in
    BY <2>1, <1>0 DEF Writing
  <2>2. CASE k \in out..(in - 1)
    BY <2>2, <1>0, <1>1, <1>3, SMTT(20) DEF Stored, Writing
  <2> QED
    BY <2>1, <2>2, <1>1
<1>12. Accounted'
  BY <1>0, <1>1 DEF Accounted, Reading
<1> QED
  BY <1>4, <1>5, <1>6, <1>7, <1>9, <1>10, <1>11, <1>12

(* Two owners of tickets have different cells. *)
LEMMA OwnersApart ==
    ASSUME Inv, NEW t \in Threads, NEW u \in Threads, t # u,
           Writing(t) \/ Reading(t), Writing(u) \/ Reading(u)
    PROVE  Slot(idx[t]) # Slot(idx[u])
<1> USE DEF Inv
<1>1. /\ idx[t] \in Nat /\ idx[u] \in Nat /\ Size \in Nat
      /\ in \in Nat /\ out \in Nat /\ out <= in /\ in <= out + Size
  BY SizeAssumption DEF TypeOK, CountersInOrder
<1>2. Writing(t) => out <= idx[t] /\ idx[t] < in
  BY DEF Writers
<1>3. Writing(u) => out <= idx[u] /\ idx[u] < in
  BY DEF Writers
<1>4. Reading(t) => idx[t] < out /\ in <= idx[t] + Size
  BY DEF Readers
<1>5. Reading(u) => idx[u] < out /\ in <= idx[u] + Size
  BY DEF Readers
<1>6. (Writing(t) /\ Writing(u)) \/ (Reading(t) /\ Reading(u)) => idx[t] # idx[u]
  BY DEF Distinct
<1>7. \/ idx[t] < idx[u] /\ idx[u] < idx[t] + Size
      \/ idx[u] < idx[t] /\ idx[t] < idx[u] + Size
  BY <1>1, <1>2, <1>3, <1>4, <1>5, <1>6
<1> QED
  BY <1>1, <1>7, SlotDistinct

(* A push stores its item: it fills its own cell and no other. *)
LEMMA PushStoreStep ==
    ASSUME Inv, NEW t \in Threads, PushStore(t)
    PROVE  Inv'
<1> USE DEF Inv
<1>0. /\ pc[t] = "p_store" /\ pc' = [pc EXCEPT ![t] = "idle"] /\ pc \in [Threads -> Labels]
      /\ buffer' = [buffer EXCEPT ![Slot(idx[t])] = reg[t]]
      /\ UNCHANGED <<in, out, idx, reg, calls, hist>>
  BY DEF PushStore, Goto, TypeOK
<1>1. /\ out <= idx[t] /\ idx[t] < in
      /\ reg[t] = hist[idx[t] + 1]
      /\ in \in Nat /\ out \in Nat /\ Size \in Nat /\ out <= in /\ in <= out + Size
      /\ idx \in [Threads -> Nat] /\ hist \in Seq(Items) /\ Len(hist) = in
      /\ buffer \in [0..(Size - 1) -> Items \cup {Free}]
  BY <1>0, SizeAssumption DEF Writers, Writing, TypeOK, CountersInOrder
<1>2. reg[t] \in Items /\ Slot(idx[t]) \in 0..(Size - 1)
  <2>1. idx[t] \in Nat /\ idx[t] + 1 \in 1..Len(hist)
    BY <1>1
  <2>2. hist[idx[t] + 1] \in Items
    BY <2>1, <1>1
  <2> QED
    BY <2>1, <2>2, <1>1, SlotType
<1>3. \A s \in 0..(Size - 1) :
         buffer'[s] = IF s = Slot(idx[t]) THEN reg[t] ELSE buffer[s]
  BY <1>0, <1>1
<1>4. TypeOK'
  <2>1. buffer' \in [0..(Size - 1) -> Items \cup {Free}]
    BY <1>0, <1>1, <1>2
  <2>2. pc' \in [Threads -> Labels]
    BY <1>0 DEF Labels
  <2> QED
    BY <2>1, <2>2, <1>0 DEF TypeOK
<1>5. CountersInOrder'
  BY <1>0 DEF CountersInOrder
<1>6. Loaded'
  <2> SUFFICES ASSUME NEW u \in Threads
               PROVE  Loaded!(u)'
    BY DEF Loaded
  <2>1. CASE u = t
    BY <2>1, <1>0 DEF Trying
  <2>2. CASE u # t
    <3>1. pc'[u] = pc[u] /\ idx[u] \in Nat
      BY <2>2, <1>0, <1>1
    <3>2. Loaded!(u)
      BY DEF Loaded
    <3>3. in < out + Size => Slot(in) # Slot(idx[t])
      BY <1>1, SlotDistinct
    <3>4. buffer'[Slot(in)] = IF Slot(in) = Slot(idx[t]) THEN reg[t] ELSE buffer[Slot(in)]
      BY <1>1, <1>3, SlotType
    <3>5. buffer'[Slot(out)] = IF Slot(out) = Slot(idx[t]) THEN reg[t] ELSE buffer[Slot(out)]
      BY <1>1, <1>3, SlotType
    <3> QED
      BY <3>1, <3>2, <3>3, <3>4, <3>5, <1>0, <1>1, <1>2, ItemsAssumption DEF Trying
  <2> QED
    BY <2>1, <2>2
<1>7. ASSUME NEW u \in Threads, u # t, Writing(u) \/ Reading(u)
      PROVE  buffer'[Slot(idx[u])] = buffer[Slot(idx[u])]
  <2>1. Slot(idx[u]) # Slot(idx[t])
    BY <1>7, <1>0, OwnersApart DEF Writing
  <2> QED
    BY <2>1, <1>1, <1>3, SlotType
<1>8. Writers'
  <2> SUFFICES ASSUME NEW u \in Threads, Writing(u)'
               PROVE  Writers!(u)!2'
    BY DEF Writers
  <2>1. Writing(u) /\ u # t
    BY <1>0 DEF Writing
  <2>2. Writers!(u)!2
    BY <2>1 DEF Writers
  <2> QED
    BY <2>1, <2>2, <1>0, <1>7
<1>9. Readers'
  <2> SUFFICES ASSUME NEW u \in Threads, Reading(u)'
               PROVE  Readers!(u)!2'
    BY DEF Readers
  <2>1. Reading(u) /\ u # t /\ pc'[u] = pc[u]
    BY <1>0 DEF Reading
  <2>2. Readers!(u)!2
    BY <2>1 DEF Readers
  <2> QED
    BY <2>1, <2>2, <1>0, <1>7
<1>10. Distinct'
  BY <1>0 DEF Distinct, Writing, Reading
<1>11. Stored'
  <2> SUFFICES ASSUME NEW k \in out..(in - 1)
               PROVE  \/ buffer'[Slot(k)] = hist[k + 1]
                      \/ \E u \in Threads : Writing(u)' /\ idx[u] = k
    BY <1>0 DEF Stored
  <2>a. k \in Nat
    BY <1>1
  <2>0. k \in Nat /\ Slot(k) \in 0..(Size - 1)
    BY <2>a, SlotType
  <2>1. CASE k = idx[t]
    BY <2>0, <2>1, <1>1, <1>3
  <2>2. CASE k # idx[t]
    <3>1. Slot(k) # Slot(idx[t])
      BY <2>0, <2>2, <1>1, SlotDistinct
    <3>2. buffer'[Slot(k)] = buffer[Slot(k)]
      BY <3>1, <2>0, <1>3
    <3>3. \A u \in Threads : Writing(u) /\ idx[u] = k => Writing(u)'
      BY <2>2, <1>0 DEF Writing
    <3> QED
      BY <3>2, <3>3 DEF Stored
  <2> QED
    BY <2>1, <2>2
<1>12. Accounted'
  <2> SUFFICES ASSUME NEW s \in 0..(Size - 1), buffer'[s] # Free
               PROVE  \/ \E k \in out..(in - 1) : Slot(k) = s
                      \/ \E u \in Threads : Reading(u)' /\ Slot(idx[u]) = s
    BY <1>0 DEF Accounted
  <2>1. CASE s = Slot(idx[t])
    <3>1. idx[t] \in out..(in - 1)
      BY <1>1
    <3> QED
      BY <2>1, <3>1
  <2>2. CASE s # Slot(idx[t])
    <3>1. \A u \in Threads : Reading(u) => Reading(u)'
      BY <1>0 DEF Reading
    <3> QED
      BY <2>2, <3>1, <1>3 DEF Accounted
  <2> QED
    BY <2>1, <2>2
<1> QED
  BY <1>4, <1>5, <1>6, <1>8, <1>9, <1>10, <1>11, <1>12

(* A pop claims a ticket: the cell is not free, so the push of that ticket  *)
(* has stored its item.                                                     *)
LEMMA PopClaimStep ==
    ASSUME Inv, NEW t \in Threads, PopClaim(t)
    PROVE  Inv'
<1> USE DEF Inv
<1>0. /\ pc[t] = "o_cas" /\ pc' = [pc EXCEPT ![t] = "o_take"] /\ pc \in [Threads -> Labels]
      /\ idx[t] = out /\ out' = out + 1
      /\ UNCHANGED <<buffer, in, idx, reg, calls, hist>>
  BY DEF PopClaim, Goto, TypeOK
<1>1. /\ out < in
      /\ buffer[Slot(out)] # Free
      /\ in \in Nat /\ out \in Nat /\ Size \in Nat /\ in <= out + Size
      /\ idx \in [Threads -> Nat]
  BY <1>0, SizeAssumption DEF Loaded, TypeOK, CountersInOrder
<1>2. \A u \in Threads : Writing(u) => idx[u] # out
  BY <1>1 DEF Writers
<1>3. buffer[Slot(out)] = hist[out + 1]
  BY <1>1, <1>2 DEF Stored
<1>4. TypeOK'
  BY <1>0, <1>1 DEF TypeOK, Labels
<1>5. CountersInOrder'
  BY <1>0, <1>1 DEF CountersInOrder
<1>6. Loaded'
  <2> SUFFICES ASSUME NEW u \in Threads
               PROVE  Loaded!(u)'
    BY DEF Loaded
  <2>1. CASE u = t
    BY <2>1, <1>0 DEF Trying
  <2>2. CASE u # t
    <3>1. pc'[u] = pc[u] /\ idx[u] \in Nat
      BY <2>2, <1>0, <1>1
    <3>2. Loaded!(u)
      BY DEF Loaded
    <3> QED
      BY <3>1, <3>2, <1>0, <1>1 DEF Trying
  <2> QED
    BY <2>1, <2>2
<1>7. Writers'
  <2> SUFFICES ASSUME NEW u \in Threads, Writing(u)'
               PROVE  Writers!(u)!2'
    BY DEF Writers
  <2>1. Writing(u) /\ idx[u] \in Nat
    BY <1>0, <1>1 DEF Writing
  <2>2. Writers!(u)!2 /\ idx[u] # out
    BY <2>1, <1>2 DEF Writers
  <2> QED
    BY <2>1, <2>2, <1>0, <1>1
<1>8. Readers'
  <2> SUFFICES ASSUME NEW u \in Threads, Reading(u)'
               PROVE  Readers!(u)!2'
    BY DEF Readers
  <2>1. CASE u = t
    BY <2>1, <1>0, <1>1, <1>3
  <2>2. CASE u # t
    <3>1. Reading(u) /\ pc'[u] = pc[u] /\ idx[u] \in Nat
      BY <2>2, <1>0, <1>1 DEF Reading
    <3>2. Readers!(u)!2
      BY <3>1 DEF Readers
    <3> QED
      BY <3>1, <3>2, <1>0, <1>1
  <2> QED
    BY <2>1, <2>2
<1>9. Distinct'
  <2>1. \A u \in Threads : Reading(u) => idx[u] < out
    BY DEF Readers
  <2>2. \A u \in Threads : Writing(u)' => Writing(u)
    BY <1>0 DEF Writing
  <2>3. \A u \in Threads : u # t /\ Reading(u)' => Reading(u)
    BY <1>0 DEF Reading
  <2>4. ~Writing(t)'
    BY <1>0 DEF Writing
  <2> QED
    BY <2>1, <2>2, <2>3, <2>4, <1>0, <1>1 DEF Distinct
<1>10. Stored'
  <2>1. \A u \in Threads : Writing(u) => Writing(u)'
    BY <1>0 DEF Writing
  <2> QED
    BY <2>1, <1>0, <1>1 DEF Stored
<1>11. Accounted'
  <2> SUFFICES ASSUME NEW s \in 0..(Size - 1), buffer[s] # Free
               PROVE  \/ \E k \in (out + 1)..(in - 1) : Slot(k) = s
                      \/ \E u \in Threads : Reading(u)' /\ Slot(idx[u]) = s
    BY <1>0 DEF Accounted
  <2>1. \A u \in Threads : Reading(u) => Reading(u)'
    BY <1>0 DEF Reading
  <2>2. Reading(t)' /\ Slot(idx[t]) = Slot(out)
    BY <1>0 DEF Reading
  <2>3. CASE \E u \in Threads : Reading(u) /\ Slot(idx[u]) = s
    BY <2>1, <2>3
  <2>4. CASE \E k \in out..(in - 1) : Slot(k) = s
    BY <2>2, <2>4, <1>1
  <2> QED
    BY <2>3, <2>4 DEF Accounted
<1> QED
  BY <1>4, <1>5, <1>6, <1>7, <1>8, <1>9, <1>10, <1>11

(* A pop clears its cell and no other. *)
LEMMA PopClearStep ==
    ASSUME Inv, NEW t \in Threads, PopClear(t)
    PROVE  Inv'
<1> USE DEF Inv
<1>0. /\ pc[t] = "o_clear" /\ pc' = [pc EXCEPT ![t] = "idle"] /\ pc \in [Threads -> Labels]
      /\ buffer' = [buffer EXCEPT ![Slot(idx[t])] = Free]
      /\ UNCHANGED <<in, out, idx, reg, calls, hist>>
  BY DEF PopClear, Goto, TypeOK
<1>1. /\ idx[t] < out /\ in <= idx[t] + Size
      /\ in \in Nat /\ out \in Nat /\ Size \in Nat /\ out <= in
      /\ idx \in [Threads -> Nat]
      /\ buffer \in [0..(Size - 1) -> Items \cup {Free}]
  BY <1>0, SizeAssumption DEF Readers, Reading, TypeOK, CountersInOrder
<1>2. \A s \in 0..(Size - 1) :
         buffer'[s] = IF s = Slot(idx[t]) THEN Free ELSE buffer[s]
  BY <1>0, <1>1
<1>3. ASSUME NEW k \in out..(in - 1)
      PROVE  /\ Slot(k) \in 0..(Size - 1)
             /\ buffer'[Slot(k)] = buffer[Slot(k)]
             /\ Slot(k) # Slot(idx[t])
  <2>1. k \in Nat /\ idx[t] \in Nat /\ idx[t] < k /\ k < idx[t] + Size
    BY <1>1
  <2>2. Slot(k) \in 0..(Size - 1) /\ Slot(k) # Slot(idx[t])
    BY <2>1, SlotType, SlotDistinct
  <2> QED
    BY <2>2, <1>2
<1>4. TypeOK'
  <2>1. buffer' \in [0..(Size - 1) -> Items \cup {Free}]
    BY <1>0, <1>1
  <2>2. pc' \in [Threads -> Labels]
    BY <1>0 DEF Labels
  <2> QED
    BY <2>1, <2>2, <1>0 DEF TypeOK
<1>5. CountersInOrder'
  BY <1>0 DEF CountersInOrder
<1>6. Loaded'
  <2> SUFFICES ASSUME NEW u \in Threads
               PROVE  Loaded!(u)'
    BY DEF Loaded
  <2>1. CASE u = t
    BY <2>1, <1>0 DEF Trying
  <2>2. CASE u # t
    <3>1. pc'[u] = pc[u] /\ idx[u] \in Nat
      BY <2>2, <1>0, <1>1
    <3>2. Loaded!(u)
      BY DEF Loaded
    <3>3. buffer'[Slot(in)] = IF Slot(in) = Slot(idx[t]) THEN Free ELSE buffer[Slot(in)]
      BY <1>1, <1>2, SlotType
    <3>4. out < in => buffer'[Slot(out)] = buffer[Slot(out)]
      BY <1>1, <1>3
    <3> QED
      BY <3>1, <3>2, <3>3, <3>4, <1>0, <1>1 DEF Trying
  <2> QED
    BY <2>1, <2>2
<1>7. ASSUME NEW u \in Threads, u # t, Writing(u) \/ Reading(u)
      PROVE  buffer'[Slot(idx[u])] = buffer[Slot(idx[u])]
  <2>1. Slot(idx[u]) # Slot(idx[t])
    BY <1>7, <1>0, OwnersApart DEF Reading
  <2> QED
    BY <2>1, <1>1, <1>2, SlotType
<1>8. Writers'
  <2> SUFFICES ASSUME NEW u \in Threads, Writing(u)'
               PROVE  Writers!(u)!2'
    BY DEF Writers
  <2>1. Writing(u) /\ u # t
    BY <1>0 DEF Writing
  <2>2. Writers!(u)!2
    BY <2>1 DEF Writers
  <2> QED
    BY <2>1, <2>2, <1>0, <1>7
<1>9. Readers'
  <2> SUFFICES ASSUME NEW u \in Threads, Reading(u)'
               PROVE  Readers!(u)!2'
    BY DEF Readers
  <2>1. Reading(u) /\ u # t /\ pc'[u] = pc[u]
    BY <1>0 DEF Reading
  <2>2. Readers!(u)!2
    BY <2>1 DEF Readers
  <2> QED
    BY <2>1, <2>2, <1>0, <1>7
<1>10. Distinct'
  BY <1>0 DEF Distinct, Writing, Reading
<1>11. Stored'
  <2>1. \A u \in Threads : Writing(u) => Writing(u)'
    BY <1>0 DEF Writing
  <2> QED
    BY <2>1, <1>0, <1>3 DEF Stored
<1>12. Accounted'
  <2> SUFFICES ASSUME NEW s \in 0..(Size - 1), buffer'[s] # Free
               PROVE  \/ \E k \in out..(in - 1) : Slot(k) = s
                      \/ \E u \in Threads : Reading(u)' /\ Slot(idx[u]) = s
    BY <1>0 DEF Accounted
  <2>1. s # Slot(idx[t]) /\ buffer[s] # Free
    BY <1>2
  <2>2. \A u \in Threads : u # t /\ Reading(u) => Reading(u)'
    BY <1>0 DEF Reading
  <2> QED
    BY <2>1, <2>2 DEF Accounted
<1> QED
  BY <1>4, <1>5, <1>6, <1>8, <1>9, <1>10, <1>11, <1>12

(* A step that changes nothing preserves the invariant. *)
LEMMA StutterStep == Inv /\ UNCHANGED vars => Inv'
BY DEF Inv, TypeOK, CountersInOrder, Loaded, Trying, Writers, Readers, Distinct,
       Stored, Accounted, Writing, Reading, vars

(* Every step preserves the invariant. *)
LEMMA NextInv == Inv /\ [Next]_vars => Inv'
<1> SUFFICES ASSUME Inv, [Next]_vars
             PROVE  Inv'
  OBVIOUS
<1>1. CASE UNCHANGED vars
  BY <1>1, StutterStep
<1>2. CASE Next
  <2> PICK t \in Threads : \/ \E v \in Items : CallPush(t, v)
                           \/ CallPop(t)
                           \/ Push(t)
                           \/ Pop(t)
    BY <1>2 DEF Next
  <2>1. CASE PushClaim(t)
    BY <2>1, PushClaimStep
  <2>2. CASE PushStore(t)
    BY <2>2, PushStoreStep
  <2>3. CASE PopClaim(t)
    BY <2>3, PopClaimStep
  <2>4. CASE PopClear(t)
    BY <2>4, PopClearStep
  <2>5. CASE \/ \E v \in Items : CallPush(t, v)
             \/ CallPop(t)
             \/ PushLoad(t) \/ PushNotFull(t) \/ PushSlot(t) \/ PushRetry(t)
             \/ PopLoad(t) \/ PopNotEmpty(t) \/ PopSlot(t) \/ PopRetry(t)
             \/ PopTake(t)
    BY <2>5, QuietStep
  <2> QED
    BY <2>1, <2>2, <2>3, <2>4, <2>5 DEF Push, Pop
<1> QED
  BY <1>1, <1>2

-----------------------------------------------------------------------------
(* The theorems *)

(* The ticket discipline of push and pop holds in every reachable state. *)
THEOREM Invariance == Spec => []Inv
BY InitInv, NextInv, PTL DEF Spec

(* The counters, cells and local variables keep their types, and there is   *)
(* one item of history for every claimed push.                              *)
THEOREM TypeCorrect == Spec => []TypeOK
<1>1. Inv => TypeOK
  BY DEF Inv
<1> QED
  BY <1>1, Invariance, PTL

(* `out' never overtakes `in', and `in' is never more than Size ahead. *)
THEOREM CountersCorrect == Spec => []CountersInOrder
<1>1. Inv => CountersInOrder
  BY DEF Inv
<1> QED
  BY <1>1, Invariance, PTL

(* No two threads that own tickets share a cell of the buffer. *)
THEOREM CellsCorrect == Spec => []CellsExclusive
<1>1. Inv => CellsExclusive
  <2> SUFFICES ASSUME Inv, NEW t \in Owners, NEW u \in Owners, t # u
               PROVE  Slot(idx[t]) # Slot(idx[u])
    BY DEF CellsExclusive
  <2>1. /\ t \in Threads /\ (Writing(t) \/ Reading(t))
        /\ u \in Threads /\ (Writing(u) \/ Reading(u))
    BY DEF Owners, Writing, Reading
  <2> QED
    BY <2>1, OwnersApart
<1> QED
  BY <1>1, Invariance, PTL

(* A pop returns the item that was pushed with the pop's ticket. *)
THEOREM DeliveryCorrect == Spec => []DeliveredInOrder
<1>1. Inv => DeliveredInOrder
  BY DEF Inv, DeliveredInOrder, Readers, Reading
<1> QED
  BY <1>1, Invariance, PTL

(* When no call is under way, the buffer holds the queued items and no more. *)
THEOREM LeakFree == Spec => []NoLeak
<1>1. Inv => NoLeak
  <2> SUFFICES ASSUME Inv, \A t \in Threads : pc[t] = "idle", NEW s \in 0..(Size - 1)
               PROVE  NoLeak!2!(s)
    BY DEF NoLeak
  <2>1. \A t \in Threads : ~Writing(t) /\ ~Reading(t)
    BY DEF Writing, Reading
  <2>2. CASE \E k \in out..(in - 1) : Slot(k) = s
    <3> DEFINE k == CHOOSE j \in out..(in - 1) : Slot(j) = s
    <3>1. k \in out..(in - 1) /\ Slot(k) = s
      BY <2>2
    <3> HIDE DEF k
    <3>2. buffer[s] = hist[k + 1]
      BY <3>1, <2>1 DEF Inv, Stored
    <3> QED
      BY <2>2, <3>2 DEF k
  <2>3. CASE ~\E k \in out..(in - 1) : Slot(k) = s
    BY <2>1, <2>3 DEF Inv, Accounted
  <2> QED
    BY <2>2, <2>3
<1> QED
  BY <1>1, Invariance, PTL

(* No step overwrites an item, and only the pop that owns a cell frees it. *)
THEOREM NeverOverwrites == Spec => NoOverwrite
<1> DEFINE Kept == \A s \in 0..(Size - 1) :
                      buffer[s] # Free /\ buffer'[s] # buffer[s] =>
                         /\ buffer'[s] = Free
                         /\ \E t \in Threads : pc[t] = "o_clear" /\ Slot(idx[t]) = s
<1>1. Inv /\ [Next]_vars => [Kept]_vars
  <2> SUFFICES ASSUME Inv, Next
               PROVE  Kept
    BY DEF vars
  <2>1. PICK t \in Threads : \/ \E v \in Items : CallPush(t, v)
                             \/ CallPop(t)
                             \/ Push(t)
                             \/ Pop(t)
    BY DEF Next
  <2>2. buffer \in [0..(Size - 1) -> Items \cup {Free}]
    BY DEF Inv, TypeOK
  <2>3. CASE PushStore(t)
    <3>1. buffer[Slot(idx[t])] = Free
      BY <2>3 DEF PushStore, Inv, Writers, Writing
    <3> QED
      BY <2>2, <2>3, <3>1 DEF PushStore
  <2>4. CASE PopClear(t)
    BY <2>2, <2>4 DEF PopClear
  <2>5. CASE UNCHANGED buffer
    BY <2>5
  <2> QED
    BY <2>1, <2>3, <2>4, <2>5
    DEF mem, CallPush, CallPop, Push, PushLoad, PushNotFull, PushSlot, PushClaim, PushRetry,
        Pop, PopLoad, PopNotEmpty, PopSlot, PopClaim, PopRetry, PopTake
<1> QED
  BY <1>1, Invariance, PTL DEF Spec, NoOverwrite

-----------------------------------------------------------------------------
(* Refinement of the bounded FIFO *)

opBar == [t \in Threads |-> OpBar(t)]

(* A step of t leaves the abstract calls of the other threads alone. *)
LEMMA OpBarStep ==
    ASSUME Inv, NEW t \in Threads, Next,
           \A u \in Threads \ {t} : /\ pc'[u] = pc[u]
                                    /\ idx'[u] = idx[u]
                                    /\ reg'[u] = reg[u],
           \A k \in 0..(in - 1) : hist'[k + 1] = hist[k + 1]
    PROVE  opBar' = [opBar EXCEPT ![t] = OpBar(t)']
<1>1. ASSUME NEW u \in Threads, u # t
      PROVE  OpBar(u)' = OpBar(u)
  <2>1. pc[u] = "o_take" => hist'[idx[u] + 1] = hist[idx[u] + 1]
    <3>1. /\ pc[u] = "o_take" => idx[u] < out
          /\ idx[u] \in Nat /\ in \in Nat /\ out \in Nat /\ out <= in
      BY DEF Inv, Readers, Reading, TypeOK, CountersInOrder
    <3> QED
      BY <3>1
  <2> QED
    BY <1>1, <2>1 DEF OpBar, Trying
<1> QED
  BY <1>1 DEF opBar

(* The queue after a push: one more item at the back. *)
LEMMA QueuePush ==
    ASSUME Inv, NEW t \in Threads, PushClaim(t)
    PROVE  qBar' = Append(qBar, reg[t]) /\ Len(qBar) < Size
<1>1. /\ in \in Nat /\ out \in Nat /\ out <= in /\ Size \in Nat
      /\ in' = in + 1 /\ out' = out /\ in < out + Size
      /\ hist \in Seq(Items) /\ Len(hist) = in /\ hist' = Append(hist, reg[t])
      /\ reg[t] \in Items
  BY SizeAssumption DEF Inv, TypeOK, CountersInOrder, Loaded, Trying, PushClaim
<1>2. \A k \in 1..(in - out) : hist[out + k] \in Items
  BY <1>1
<1>3. qBar \in Seq(Items) /\ Len(qBar) = in - out
  <2>1. in - out \in Nat
    BY <1>1
  <2> QED
    BY <2>1, <1>2 DEF qBar
<1>4. /\ \A k \in 1..(in - out) : hist'[out + k] = hist[out + k]
      /\ hist'[out + (in - out + 1)] = reg[t]
  <2>1. \A k \in 1..(in - out) : out + k \in 1..Len(hist)
    BY <1>1
  <2>2. out + (in - out + 1) = Len(hist) + 1
    BY <1>1
  <2> QED
    BY <2>1, <2>2, <1>1, AppendProperties
<1>5. qBar' = [k \in 1..(in - out + 1) |-> hist'[out + k]]
  <2>1. in' - out' = in - out + 1
    BY <1>1
  <2> QED
    BY <2>1, <1>1 DEF qBar
<1>6. Append(qBar, reg[t]) = [k \in 1..(in - out + 1) |-> IF k = in - out + 1 THEN reg[t] ELSE qBar[k]]
  BY <1>1, <1>3
<1>7. \A k \in 1..(in - out) : qBar[k] = hist[out + k]
  BY DEF qBar
<1>8. \A k \in 1..(in - out + 1) : k = in - out + 1 \/ k \in 1..(in - out)
  BY <1>1
<1> QED
  BY <1>1, <1>3, <1>4, <1>5, <1>6, <1>7, <1>8, SMTT(20)

(* The queue after a pop: the item at the front is gone. *)
LEMMA QueuePop ==
    ASSUME Inv, NEW t \in Threads, PopClaim(t)
    PROVE  qBar # << >> /\ Head(qBar) = hist[idx[t] + 1] /\ qBar' = Tail(qBar)
<1>1. /\ in \in Nat /\ out \in Nat /\ out < in
      /\ in' = in /\ out' = out + 1 /\ idx[t] = out /\ hist' = hist
      /\ hist \in Seq(Items) /\ Len(hist) = in
  BY DEF Inv, TypeOK, CountersInOrder, Loaded, PopClaim
<1>2. \A k \in 1..(in - out) : hist[out + k] \in Items
  BY <1>1
<1>3. qBar \in Seq(Items) /\ Len(qBar) = in - out
  <2>1. in - out \in Nat
    BY <1>1
  <2> QED
    BY <2>1, <1>2 DEF qBar
<1>4. qBar # << >> /\ Head(qBar) = hist[idx[t] + 1]
  <2>1. Len(qBar) # 0 /\ 1 \in 1..(in - out)
    BY <1>1, <1>3
  <2>2. qBar[1] = hist[out + 1]
    BY <2>1 DEF qBar
  <2> QED
    BY <2>1, <2>2, <1>1, <1>3
<1>5. qBar' = [k \in 1..(in - out - 1) |-> hist[out + 1 + k]]
  <2>1. in' - out' = in - out - 1
    BY <1>1
  <2> QED
    BY <2>1, <1>1 DEF qBar
<1>6. Tail(qBar) = [k \in 1..(in - out - 1) |-> qBar[k + 1]]
  <2>1. /\ Tail(qBar) \in Seq(Items)
        /\ Len(Tail(qBar)) = in - out - 1
        /\ \A k \in 1..Len(Tail(qBar)) : Tail(qBar)[k] = qBar[k + 1]
    BY <1>3, <1>4, HeadTailProperties
  <2>2. /\ DOMAIN Tail(qBar) = 1..(in - out - 1)
        /\ Tail(qBar) = [k \in DOMAIN Tail(qBar) |-> Tail(qBar)[k]]
    <3>1. Tail(qBar) \in [1..(in - out - 1) -> Items]
      BY <2>1, LenProperties
    <3> QED
      BY <3>1
  <2> QED
    BY <2>1, <2>2
<1>7. \A k \in 1..(in - out - 1) : qBar[k + 1] = hist[out + 1 + k]
  <2>1. \A k \in 1..(in - out - 1) : k + 1 \in 1..(in - out) /\ out + (k + 1) = out + 1 + k
    BY <1>1
  <2> QED
    BY <2>1 DEF qBar
<1> QED
  BY <1>4, <1>5, <1>6, <1>7

(* Every step of the queue is a step of the bounded FIFO or changes nothing *)
(* that the FIFO shows.                                                     *)
LEMMA NextRefines ==
    ASSUME Inv, Next
    PROVE  Fifo!Next \/ (qBar' = qBar /\ opBar' = opBar)
<1>0. PICK t \in Threads : \/ \E v \in Items : CallPush(t, v)
                           \/ CallPop(t)
                           \/ Push(t)
                           \/ Pop(t)
  BY DEF Next
<1>1. /\ in \in Nat /\ out \in Nat /\ pc \in [Threads -> Labels]
      /\ idx \in [Threads -> Nat] /\ reg \in [Threads -> Items \cup {Free}]
      /\ hist \in Seq(Items) /\ Len(hist) = in
  BY DEF Inv, TypeOK
<1>2. /\ opBar[t] = OpBar(t)
      /\ opBar = [opBar EXCEPT ![t] = OpBar(t)]
      /\ UNCHANGED <<in, out, hist>> => UNCHANGED qBar
  BY DEF opBar, qBar
<1>3. (\A k \in 0..(in - 1) : hist'[k + 1] = hist[k + 1]) =>
         opBar' = [opBar EXCEPT ![t] = OpBar(t)']
  <2>1. \A u \in Threads \ {t} : pc'[u] = pc[u] /\ idx'[u] = idx[u] /\ reg'[u] = reg[u]
    BY <1>0, <1>1
    DEF mem, Goto, CallPush, CallPop, Push, PushLoad, PushNotFull, PushSlot, PushClaim,
        PushRetry, PushStore, Pop, PopLoad, PopNotEmpty, PopSlot, PopClaim, PopRetry,
        PopTake, PopClear
  <2> QED
    BY <2>1, OpBarStep
<1>4. UNCHANGED hist => opBar' = [opBar EXCEPT ![t] = OpBar(t)']
  BY <1>3
<1> DEFINE FifoStep == \/ \E v \in Items : Fifo!CallPush(t, v)
                       \/ Fifo!DoPush(t)
                       \/ Fifo!CallPop(t)
                       \/ Fifo!DoPop(t)
                       \/ Fifo!Return(t)
<1>5. FifoStep => Fifo!Next
  BY DEF Fifo!Next
<1>6. CASE \E v \in Items : CallPush(t, v)
  <2>1. PICK v \in Items : CallPush(t, v)
    BY <1>6
  <2>2. /\ UNCHANGED <<in, out, hist>>
        /\ OpBar(t) = [st |-> "idle", val |-> Free]
        /\ OpBar(t)' = [st |-> "push", val |-> v]
    BY <2>1, <1>1 DEF CallPush, Goto, mem, OpBar, Trying
  <2>3. Fifo!CallPush(t, v)
    BY <2>2, <1>2, <1>4 DEF Fifo!CallPush, opBar
  <2> QED
    BY <2>3, <1>5
<1>7. CASE CallPop(t)
  <2>2. /\ UNCHANGED <<in, out, hist>>
        /\ OpBar(t) = [st |-> "idle", val |-> Free]
        /\ OpBar(t)' = [st |-> "pop", val |-> Free]
    BY <1>7, <1>1 DEF CallPop, Goto, mem, OpBar, Trying
  <2>3. Fifo!CallPop(t)
    BY <2>2, <1>2, <1>4 DEF Fifo!CallPop, opBar
  <2> QED
    BY <2>3, <1>5
<1>8. CASE PushClaim(t)
  <2>1. /\ OpBar(t) = [st |-> "push", val |-> reg[t]]
        /\ OpBar(t)' = [st |-> "pushed", val |-> reg[t]]
    BY <1>8, <1>1 DEF PushClaim, Goto, OpBar, Trying
  <2>2. reg[t] \in Items /\ hist' = Append(hist, reg[t])
    BY <1>8 DEF PushClaim, Inv, Loaded, Trying
  <2>3. \A k \in 0..(in - 1) : hist'[k + 1] = hist[k + 1]
    BY <2>2, <1>1, AppendProperties
  <2>4. qBar' = Append(qBar, reg[t]) /\ Len(qBar) < Size
    BY <1>8, QueuePush
  <2>5. Fifo!DoPush(t)
    BY <2>1, <2>3, <2>4, <1>2, <1>3 DEF Fifo!DoPush, opBar
  <2> QED
    BY <2>5, <1>5
<1>9. CASE PopClaim(t)
  <2>1. /\ UNCHANGED hist
        /\ OpBar(t) = [st |-> "pop", val |-> Free]
        /\ OpBar(t)' = [st |-> "popped", val |-> hist[idx[t] + 1]]
    BY <1>9, <1>1 DEF PopClaim, Goto, OpBar, Trying
  <2>2. qBar # << >> /\ Head(qBar) = hist[idx[t] + 1] /\ qBar' = Tail(qBar)
    BY <1>9, QueuePop
  <2>3. Fifo!DoPop(t)
    <3>1. opBar[t].st = "pop" /\ opBar' = [opBar EXCEPT ![t] = [st |-> "popped", val |-> Head(qBar)]]
      <4>1. opBar[t].st = "pop"
        BY <2>1, <1>2
      <4>2. OpBar(t)' = [st |-> "popped", val |-> Head(qBar)]
        BY <2>1, <2>2, Zenon
      <4> QED
        BY <4>1, <4>2, <2>1, <1>4, Zenon
    <3> QED
      BY <3>1, <2>2, Zenon DEF Fifo!DoPop, opBar
  <2> QED
    BY <2>3, <1>5
<1>10. CASE PushStore(t)
  <2>1. /\ UNCHANGED <<in, out, hist>>
        /\ OpBar(t) = [st |-> "pushed", val |-> reg[t]]
        /\ OpBar(t)' = [st |-> "idle", val |-> Free]
    BY <1>10, <1>1 DEF PushStore, Goto, OpBar, Trying
  <2>2. Fifo!Return(t)
    BY <2>1, <1>2, <1>4 DEF Fifo!Return, Fifo!Idle, opBar
  <2> QED
    BY <2>2, <1>5
<1>11. CASE PopClear(t)
  <2>1. /\ UNCHANGED <<in, out, hist>>
        /\ OpBar(t) = [st |-> "popped", val |-> reg[t]]
        /\ OpBar(t)' = [st |-> "idle", val |-> Free]
    BY <1>11, <1>1 DEF PopClear, Goto, OpBar, Trying
  <2>2. Fifo!Return(t)
    BY <2>1, <1>2, <1>4 DEF Fifo!Return, Fifo!Idle, opBar
  <2> QED
    BY <2>2, <1>5
<1>12. CASE PopTake(t)
  <2>1. reg'[t] = hist[idx[t] + 1]
    BY <1>12, <1>1 DEF PopTake, Inv, Readers, Reading
  <2>2. UNCHANGED <<in, out, hist>> /\ OpBar(t)' = OpBar(t)
    BY <2>1, <1>12, <1>1 DEF PopTake, Goto, mem, OpBar, Trying
  <2> QED
    BY <2>2, <1>2, <1>4
<1>13. CASE \/ PushLoad(t) \/ PushNotFull(t) \/ PushSlot(t) \/ PushRetry(t)
            \/ PopLoad(t) \/ PopNotEmpty(t) \/ PopSlot(t) \/ PopRetry(t)
  <2>1. UNCHANGED <<in, out, hist>> /\ OpBar(t)' = OpBar(t)
    BY <1>13, <1>1
    DEF PushLoad, PushNotFull, PushSlot, PushRetry, PopLoad, PopNotEmpty, PopSlot, PopRetry,
        Goto, mem, OpBar, Trying
  <2> QED
    BY <2>1, <1>2, <1>4
<1> QED
  BY <1>0, <1>6, <1>7, <1>8, <1>9, <1>10, <1>11, <1>12, <1>13 DEF Push, Pop

(* Every behaviour of the lock-free queue is a behaviour of a linearizable  *)
(* FIFO with Size seats.                                                    *)
THEOREM Refinement == Spec => ImplementsFifo
<1>1. Init => Fifo!Init
  <2> SUFFICES ASSUME Init PROVE Fifo!Init
    OBVIOUS
  <2>1. qBar = << >>
    BY DEF Init, qBar
  <2>2. \A t \in Threads : OpBar(t) = Fifo!Idle
    BY DEF Init, OpBar, Trying, Fifo!Idle
  <2> QED
    BY <2>1, <2>2 DEF Fifo!Init
<1>2. Inv /\ [Next]_vars => [Fifo!Next]_(Fifo!vars)
  <2>1. ASSUME UNCHANGED vars PROVE UNCHANGED <<qBar, opBar>>
    BY <2>1 DEF vars, qBar, opBar, OpBar, Trying
  <2> QED
    BY <2>1, NextRefines DEF Fifo!vars, opBar
<1> QED
  BY <1>1, <1>2, Invariance, PTL DEF Spec, ImplementsFifo, Fifo!Spec
=============================================================================
