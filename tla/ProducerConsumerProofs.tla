----------------------- MODULE ProducerConsumerProofs -----------------------
(***************************************************************************)
(* Proofs about ProducerConsumer for every number of pairs of threads,      *)
(* every number of items and every size of the queue: the checksum is zero. *)
(* The proof builds on the invariant of the queue.                          *)
(***************************************************************************)
EXTENDS ProducerConsumer, FiniteSetTheorems, WellFoundedInduction, TLAPS

-----------------------------------------------------------------------------
(* Sums over finite sets.  SumFunctionOnSet is the value for S of a         *)
(* recursive function over the subsets of S, which is shown to exist.       *)

(* A nonempty set of subsets of a finite set has a minimal one. *)
LEMMA MinimalSet ==
  ASSUME NEW T, IsFiniteSet(T), NEW P \in SUBSET SUBSET T, P # {}
  PROVE  \E m \in P : \A S \in P : S \subseteq m => S = m
<1> DEFINE R == StrictSubsetOrdering(T)
<1>1. P \subseteq FiniteSubsetsOf(T) /\ IsWellFoundedOn(R, FiniteSubsetsOf(T))
  BY FS_Subset, FS_StrictSubsetOrderingWellFounded DEF FiniteSubsetsOf
<1>2. \E m \in P : \A S \in P : ~(<<S, m>> \in R)
  <2> HIDE DEF R
  <2> QED
    BY <1>1, WFMin
<1> QED
  BY <1>2 DEF StrictSubsetOrdering

(* The element that is added next, and the equation of a partial sum. *)
Pick(s) == CHOOSE x \in s : TRUE
Adds(g, f, D) == g = [s \in D |-> IF s = {} THEN 0 ELSE f[Pick(s)] + g[s \ {Pick(s)}]]
Downward(D) == \A s \in D : s # {} => s \ {Pick(s)} \in D

LEMMA PickIn == ASSUME NEW s, s # {} PROVE Pick(s) \in s
BY DEF Pick

LEMMA SumIs ==
  ASSUME NEW f, NEW S
  PROVE  SumFunctionOnSet(f, S) = (CHOOSE g : Adds(g, f, SUBSET S))[S]
BY DEF SumFunctionOnSet, FoldFunctionOnSet, MapThenFoldSet, Adds, Pick

LEMMA SumExists ==
  ASSUME NEW f, NEW S, IsFiniteSet(S)
  PROVE  \E g : Adds(g, f, SUBSET S)
<1> DEFINE Can(D) == Downward(D) /\ \E g : Adds(g, f, D)
           P == {(SUBSET S) \ D : D \in {E \in SUBSET SUBSET S : Can(E)}}
<1>1. Can({})
  BY DEF Downward, Adds
<1>2. ASSUME NEW D \in SUBSET SUBSET S, Can(D), NEW M \in SUBSET S, M \notin D,
             M # {} => M \ {Pick(M)} \in D
      PROVE  Can(D \cup {M})
  <2>1. PICK g : Adds(g, f, D)
    BY <1>2
  <2> DEFINE next == IF M = {} THEN 0 ELSE f[Pick(M)] + g[M \ {Pick(M)}]
             h == [s \in D \cup {M} |-> IF s = M THEN next ELSE g[s]]
  <2>2. Downward(D \cup {M})
    BY <1>2 DEF Downward
  <2>3. \A s \in D \cup {M} : s # {} => h[s \ {Pick(s)}] = g[s \ {Pick(s)}]
    <3>1. \A s \in D \cup {M} : s # {} => s \ {Pick(s)} \in D /\ s \ {Pick(s)} # M
      <4>1. TAKE s \in D \cup {M}
      <4>2. HAVE s # {}
      <4>3. s \ {Pick(s)} \in D
        BY <1>2, <4>2 DEF Downward
      <4> QED
        BY <1>2, <4>3
    <3> QED
      BY <3>1
  <2>4. \A s \in D : g[s] = IF s = {} THEN 0 ELSE f[Pick(s)] + g[s \ {Pick(s)}]
    BY <2>1 DEF Adds
  <2>5. \A s \in D \cup {M} : h[s] = IF s = {} THEN 0 ELSE f[Pick(s)] + h[s \ {Pick(s)}]
    <3>1. \A s \in D : h[s] = g[s]
      BY <1>2
    <3>2. h[M] = next
      OBVIOUS
    <3> HIDE DEF h
    <3>3. TAKE s \in D \cup {M}
    <3>4. CASE s = {}
      <4>1. s \in D => g[s] = 0
        BY <2>4, <3>4
      <4>2. s = M => next = 0
        BY <3>4
      <4> QED
        BY <3>1, <3>2, <3>4, <4>1, <4>2
    <3>5. CASE s # {}
      <4>1. s \in D => g[s] = f[Pick(s)] + g[s \ {Pick(s)}]
        BY <2>4, <3>5
      <4>2. s = M => next = f[Pick(s)] + g[s \ {Pick(s)}]
        BY <3>5
      <4>3. h[s \ {Pick(s)}] = g[s \ {Pick(s)}]
        BY <2>3, <3>5
      <4> QED
        BY <3>1, <3>2, <3>5, <4>1, <4>2, <4>3
    <3> QED
      BY <3>4, <3>5
  <2>6. h = [s \in D \cup {M} |-> h[s]]
    OBVIOUS
  <2> HIDE DEF h
  <2>7. Adds(h, f, D \cup {M})
    BY <2>5, <2>6 DEF Adds
  <2> QED
    BY <2>2, <2>7
<1> HIDE DEF Can
<1>3. IsFiniteSet(SUBSET S)
  BY FS_SUBSET
<1>4. P \in SUBSET SUBSET SUBSET S /\ P # {}
  BY <1>1
<1>5. PICK m \in P : \A X \in P : X \subseteq m => X = m
  <2> HIDE DEF P
  <2> QED
    BY <1>3, <1>4, MinimalSet
<1>6. PICK D \in SUBSET SUBSET S : Can(D) /\ m = (SUBSET S) \ D
  BY <1>5
<1>7. m = {}
  <2> SUFFICES ASSUME m # {} PROVE FALSE
    OBVIOUS
  <2>1. m \in SUBSET SUBSET S
    BY <1>6
  <2>2. PICK M \in m : \A s \in m : s \subseteq M => s = M
    BY <2>1, MinimalSet
  <2>3. M \in SUBSET S /\ M \notin D /\ (M # {} => M \ {Pick(M)} \in D)
    BY <1>6, <2>2, PickIn
  <2>4. Can(D \cup {M})
    BY <1>2, <1>6, <2>3
  <2>5. (SUBSET S) \ (D \cup {M}) \in P
    BY <2>3, <2>4
  <2>6. /\ (SUBSET S) \ (D \cup {M}) \subseteq m
        /\ (SUBSET S) \ (D \cup {M}) # m
    BY <1>6, <2>2
  <2> QED
    BY <1>5, <2>5, <2>6
<1>8. D = SUBSET S
  BY <1>6, <1>7
<1> QED
  BY <1>6, <1>8 DEF Can

(* The partial sums of a function to the integers. *)
Sums(g, f, S) ==
    /\ SumFunctionOnSet(f, S) = g[S]
    /\ g[{}] = 0
    /\ \A s \in SUBSET S : g[s] \in Int
    /\ \A s \in SUBSET S : s # {} => g[s] = f[Pick(s)] + g[s \ {Pick(s)}]

LEMMA PartialSums ==
  ASSUME NEW S, IsFiniteSet(S), NEW f, \A x \in S : f[x] \in Int
  PROVE  \E g : Sums(g, f, S)
<1> DEFINE g == CHOOSE h : Adds(h, f, SUBSET S)
<1>1. Adds(g, f, SUBSET S)
  BY SumExists
<1>2. SumFunctionOnSet(f, S) = g[S]
  BY SumIs
<1> HIDE DEF g
<1>3. /\ g[{}] = 0
      /\ \A s \in SUBSET S : s # {} => g[s] = f[Pick(s)] + g[s \ {Pick(s)}]
  BY <1>1 DEF Adds
<1>4. \A s \in SUBSET S : g[s] \in Int
  <2> DEFINE B == {s \in SUBSET S : g[s] \notin Int}
  <2> SUFFICES ASSUME B # {} PROVE FALSE
    OBVIOUS
  <2>1. PICK m \in B : \A s \in B : s \subseteq m => s = m
    <3>1. B \in SUBSET SUBSET S
      OBVIOUS
    <3> HIDE DEF B
    <3> QED
      BY <3>1, MinimalSet
  <2>2. m # {}
    <3>1. g[{}] \in Int
      BY <1>3
    <3> QED
      BY <2>1, <3>1
  <2>3. Pick(m) \in S /\ m \ {Pick(m)} \notin B
    BY <2>1, <2>2, PickIn
  <2>4. f[Pick(m)] \in Int /\ g[m \ {Pick(m)}] \in Int /\ g[m] \notin Int
    BY <2>1, <2>3
  <2>5. g[m] = f[Pick(m)] + g[m \ {Pick(m)}]
    BY <1>3, <2>1, <2>2
  <2> QED
    BY <2>4, <2>5
<1> QED
  BY <1>2, <1>3, <1>4 DEF Sums

(* Two functions that differ at most at x have sums that differ by as much. *)
LEMMA SumStep ==
  ASSUME NEW S, IsFiniteSet(S), NEW f, NEW h, NEW x \in S,
         \A y \in S : f[y] \in Int /\ h[y] \in Int,
         \A y \in S : y # x => h[y] = f[y]
  PROVE  /\ SumFunctionOnSet(f, S) \in Int
         /\ SumFunctionOnSet(h, S) = SumFunctionOnSet(f, S) + (h[x] - f[x])
<1>1. PICK F : Sums(F, f, S)
  BY PartialSums
<1>2. PICK H : Sums(H, h, S)
  BY PartialSums
<1> DEFINE Off(s) == IF x \in s THEN h[x] - f[x] ELSE 0
           B == {s \in SUBSET S : H[s] # F[s] + Off(s)}
<1>3. B = {}
  <2> SUFFICES ASSUME B # {} PROVE FALSE
    OBVIOUS
  <2>1. PICK m \in B : \A s \in B : s \subseteq m => s = m
    <3>1. B \in SUBSET SUBSET S
      OBVIOUS
    <3> HIDE DEF B
    <3> QED
      BY <3>1, MinimalSet
  <2>2. m # {}
    <3>1. H[{}] = F[{}] + Off({})
      BY <1>1, <1>2 DEF Sums
    <3> QED
      BY <2>1, <3>1
  <2> DEFINE y == Pick(m)
             n == m \ {y}
  <2>3. y \in m /\ y \in S /\ n \in SUBSET S /\ n \notin B
    BY <2>1, <2>2, PickIn
  <2>4. H[n] = F[n] + Off(n) /\ H[m] # F[m] + Off(m)
    BY <2>1, <2>3
  <2>5. H[m] = h[y] + H[n] /\ F[m] = f[y] + F[n]
    BY <1>1, <1>2, <2>1, <2>2 DEF Sums
  <2>6. F[n] \in Int /\ H[n] \in Int
    BY <1>1, <1>2, <2>3 DEF Sums
  <2>7. y = x => x \notin n /\ x \in m
    BY <2>3
  <2>8. y # x => (x \in n <=> x \in m) /\ h[y] = f[y]
    BY <2>3
  <2> HIDE DEF y, n
  <2> QED
    BY <2>3, <2>4, <2>5, <2>6, <2>7, <2>8
<1>4. H[S] = F[S] + Off(S)
  BY <1>3
<1> QED
  BY <1>1, <1>2, <1>4 DEF Sums

(* Functions that agree on S have the same sum, an integer. *)
LEMMA SumSame ==
  ASSUME NEW S, IsFiniteSet(S), NEW f, NEW h,
         \A y \in S : f[y] \in Int /\ h[y] = f[y]
  PROVE  /\ SumFunctionOnSet(f, S) \in Int
         /\ SumFunctionOnSet(h, S) = SumFunctionOnSet(f, S)
<1>1. CASE S = {}
  <2>1. \A g : (\A y \in S : g[y] \in Int) => SumFunctionOnSet(g, S) = 0
    BY <1>1, PartialSums DEF Sums
  <2> QED
    BY <1>1, <2>1
<1>2. CASE S # {}
  <2>1. PICK x \in S : TRUE
    BY <1>2
  <2>2. \A y \in S : f[y] \in Int /\ h[y] \in Int
    OBVIOUS
  <2>3. /\ SumFunctionOnSet(f, S) \in Int
        /\ SumFunctionOnSet(h, S) = SumFunctionOnSet(f, S) + (h[x] - f[x])
    BY <2>2, SumStep
  <2> QED
    BY <2>3
<1> QED
  BY <1>1, <1>2

(* The sum of zeros. *)
LEMMA SumZero ==
  ASSUME NEW S, IsFiniteSet(S), NEW f, \A y \in S : f[y] = 0
  PROVE  SumFunctionOnSet(f, S) = 0
<1>1. PICK F : Sums(F, f, S)
  BY PartialSums
<1> DEFINE B == {s \in SUBSET S : F[s] # 0}
<1>2. B = {}
  <2> SUFFICES ASSUME B # {} PROVE FALSE
    OBVIOUS
  <2>1. PICK m \in B : \A s \in B : s \subseteq m => s = m
    <3>1. B \in SUBSET SUBSET S
      OBVIOUS
    <3> HIDE DEF B
    <3> QED
      BY <3>1, MinimalSet
  <2>2. m # {}
    BY <1>1, <2>1, Zenon DEF Sums
  <2>3. f[Pick(m)] = 0 /\ m \ {Pick(m)} \notin B
    BY <2>1, <2>2, PickIn
  <2>4. F[m] # 0 /\ F[m \ {Pick(m)}] = 0
    BY <2>1, <2>3
  <2>5. F[m] = f[Pick(m)] + F[m \ {Pick(m)}]
    BY <1>1, <2>1, <2>2 DEF Sums
  <2> QED
    BY <2>3, <2>4, <2>5
<1> QED
  BY <1>1, <1>2 DEF Sums

-----------------------------------------------------------------------------
(* The invariant *)

(* The queue, with what is proved about it. *)
QP == INSTANCE NutshellQueueProofs
        WITH Items <- (1..N) \cup {Poison},
             MaxCalls <- Cardinality(Producers) * (N + 1)

(* The values of the program's own variables. *)
ProgramType == /\ i \in [Producers -> Int]
               /\ sum \in [Threads -> Int]
               /\ stage \in [Threads -> {"loop", "signalled", "popping", "done"}]
               /\ total \in Int
               /\ joined \in BOOLEAN

(* Where a producer is, and what it is pushing. *)
Pushes == {"idle", "p_load", "p_full", "p_slot", "p_cas", "p_store"}
Pops   == {"idle", "o_load", "o_empty", "o_slot", "o_cas", "o_take", "o_clear"}
Trying(t) == pc[t] \in {"p_load", "p_full", "p_slot", "p_cas"}

ProducerAt(p) == /\ stage[p] \in {"loop", "signalled", "done"}
                 /\ i[p] >= 1
                 /\ pc[p] \in Pushes
                 /\ stage[p] = "done" => pc[p] = "idle"
                 /\ Trying(p) => IF stage[p] = "loop" THEN reg[p] > 0 ELSE reg[p] = Poison

(* Where a consumer is: an idle one that is not at the start has an item or *)
(* the termination signal, and stops at the signal.                         *)
ConsumerAt(c) == /\ stage[c] \in {"loop", "popping", "done"}
                 /\ pc[c] \in Pops
                 /\ stage[c] # "popping" => pc[c] = "idle"
                 /\ stage[c] = "popping" /\ pc[c] = "idle" => reg[c] # 0

Control == /\ \A p \in Producers : ProducerAt(p)
           /\ \A c \in Consumers : ConsumerAt(c)

(* The tickets below n that are items, and those that are signals. *)
ItemsTo(n) == {k \in 1..n : hist[k] > 0}
EndsTo(n)  == {k \in 1..n : hist[k] < 0}

(* Producers that have counted an item and not claimed its ticket, and      *)
(* those whose signal has its ticket.                                       *)
Sending   == {p \in Producers : stage[p] = "loop" /\ Trying(p)}
Signalled == {p \in Producers : stage[p] # "loop" /\ ~ Trying(p)}

(* Consumers with an item in hand, and those that have met a signal. *)
Holding    == {c \in Consumers : InHand(c)}
EndMet(c)  == \/ stage[c] = "done"
              \/ /\ stage[c] = "popping"
                 /\ \/ pc[c] = "o_take" /\ hist[idx[c] + 1] < 0
                    \/ pc[c] \in {"o_clear", "idle"} /\ reg[c] < 0
Stopping   == {c \in Consumers : EndMet(c)}

ItemsPushed == Cardinality(ItemsTo(in)) + Cardinality(Sending)
                 = SumFunctionOnSet(sum, Producers)
EndsPushed  == Cardinality(EndsTo(in)) = Cardinality(Signalled)
EndsPopped  == Cardinality(EndsTo(out)) = Cardinality(Stopping)

(* The last ticket is a signal once every producer has signalled. *)
LastIsEnd == Signalled = Producers /\ in > 0 => hist[in] < 0

(* What the threads that are done have settled in total. *)
Settled == [t \in Threads |-> IF stage[t] = "done" THEN sum[t] ELSE 0]
TotalSettled == total = SumFunctionOnSet(Settled, Producers)
                          - SumFunctionOnSet(Settled, Consumers)

AllDone == joined => \A t \in Threads : stage[t] = "done"

ProgramInv == /\ ProgramType
              /\ Control
              /\ ItemsPushed /\ ItemsAccounted
              /\ EndsPushed /\ EndsPopped /\ LastIsEnd
              /\ TotalSettled
              /\ AllDone

Inv == QP!Inv /\ ProgramInv

-----------------------------------------------------------------------------
(* The queue *)

(* The assumptions of the queue hold for its instance. *)
LEMMA QueueAssumptions == /\ Size \in Nat \ {0} /\ \E k \in 0..Size : Size = 2^k
                          /\ QP!Free \notin (1..N) \cup {Poison}
                          /\ Cardinality(Producers) * (N + 1) \in Nat
<1>1. Cardinality(Producers) \in Nat /\ N \in Nat
  BY PairsAssumption, NAssumption, FS_CardinalityType
<1>2. \A a, b \in Nat : a * b \in Nat
  OBVIOUS
<1> QED
  BY <1>1, <1>2, SizeAssumption DEF Poison, QP!Free

(* The instance that the program uses is the one the theorems are about. *)
LEMMA SameQueue ==
  /\ Q!Init => QP!Init
  /\ \A t : Q!Push(t) => QP!Push(t)
  /\ \A t : Q!Pop(t) => QP!Pop(t)
  /\ \A t, v : Q!CallPush(t, v) => QP!CallPush(t, v)
  /\ \A t : Q!CallPop(t) => QP!CallPop(t)
<1> USE DEF Q!Free, QP!Free, Q!Goto, QP!Goto, Q!mem, QP!mem, Q!Slot, QP!Slot
<1>1. Q!Init => QP!Init
  BY DEF Q!Init, QP!Init
<1>2. ASSUME NEW t PROVE Q!Push(t) => QP!Push(t)
  BY DEF Q!Push, QP!Push, Q!PushLoad, QP!PushLoad, Q!PushNotFull, QP!PushNotFull,
         Q!PushSlot, QP!PushSlot, Q!PushClaim, QP!PushClaim, Q!PushRetry, QP!PushRetry,
         Q!PushStore, QP!PushStore
<1>3. ASSUME NEW t PROVE Q!Pop(t) => QP!Pop(t)
  BY DEF Q!Pop, QP!Pop, Q!PopLoad, QP!PopLoad, Q!PopNotEmpty, QP!PopNotEmpty,
         Q!PopSlot, QP!PopSlot, Q!PopClaim, QP!PopClaim, Q!PopRetry, QP!PopRetry,
         Q!PopTake, QP!PopTake, Q!PopClear, QP!PopClear
<1>4. ASSUME NEW t, NEW v PROVE Q!CallPush(t, v) => QP!CallPush(t, v)
  BY DEF Q!CallPush, QP!CallPush
<1>5. ASSUME NEW t PROVE Q!CallPop(t) => QP!CallPop(t)
  BY DEF Q!CallPop, QP!CallPop
<1> QED
  BY <1>1, <1>2, <1>3, <1>4, <1>5

LEMMA QueueInv == Inv /\ [Next]_vars => QP!Inv'
<1>0. QP!Inv /\ [QP!Next]_(QP!vars) => QP!Inv'
  BY QP!NextInv, QueueAssumptions
<1> SUFFICES ASSUME Inv, [Next]_vars PROVE [QP!Next]_(QP!vars)
  BY <1>0 DEF Inv
<1>1. ASSUME NEW p \in Producers, Producer(p) PROVE [QP!Next]_(QP!vars)
  <2>0. p \in Threads
    BY DEF Threads
  <2>1. CASE Produce(p)
    <3>1. i[p] \in (1..N) \cup {Poison}
      BY <2>1, NAssumption DEF Produce, Inv, ProgramInv, ProgramType, Control, ProducerAt
    <3> QED
      BY <2>0, <2>1, <3>1, SameQueue DEF Produce, QP!Next
  <2>2. CASE SignalEnd(p)
    <3>1. Poison \in (1..N) \cup {Poison}
      OBVIOUS
    <3> QED
      BY <2>0, <2>2, <3>1, SameQueue DEF SignalEnd, QP!Next
  <2>3. CASE SettleProduced(p)
    BY <2>3 DEF SettleProduced, qvars, QP!vars
  <2>4. CASE QueueStep(p)
    BY <2>0, <2>4, SameQueue DEF QueueStep, QP!Next
  <2> QED
    BY <1>1, <2>1, <2>2, <2>3, <2>4 DEF Producer
<1>2. ASSUME NEW c \in Consumers, Consumer(c) PROVE [QP!Next]_(QP!vars)
  <2>0. c \in Threads
    BY DEF Threads
  <2>1. CASE StartConsuming(c) \/ Consume(c)
    BY <2>0, <2>1, SameQueue DEF StartConsuming, Consume, QP!Next
  <2>2. CASE SettleConsumed(c)
    BY <2>2 DEF SettleConsumed, qvars, QP!vars
  <2>3. CASE QueueStep(c)
    BY <2>0, <2>3, SameQueue DEF QueueStep, QP!Next
  <2> QED
    BY <1>2, <2>1, <2>2, <2>3 DEF Consumer
<1>3. CASE Join \/ UNCHANGED vars
  BY <1>3 DEF Join, vars, qvars, QP!vars
<1> QED
  BY <1>1, <1>2, <1>3 DEF Next, Ended

(* What the program needs to know of the queue. *)
QueueFacts ==
    /\ in \in Nat /\ out \in Nat /\ out <= in
    /\ \A k \in 1..in : hist[k] \in Int /\ hist[k] # 0
    /\ hist \in Seq((1..N) \cup {Poison}) /\ Len(hist) = in
    /\ pc \in [Threads -> Pushes \cup Pops]
    /\ idx \in [Threads -> Nat]
    /\ reg \in [Threads -> Int]
    /\ \A t \in Threads :
          /\ pc[t] = "o_cas" => idx[t] < in
          /\ pc[t] \in {"o_take", "o_clear"} => idx[t] < out
          /\ pc[t] = "o_take" => buffer[Q!Slot(idx[t])] = hist[idx[t] + 1]
          /\ pc[t] = "o_clear" => reg[t] = hist[idx[t] + 1]

LEMMA QueueGives == QP!Inv => QueueFacts
<1> SUFFICES ASSUME QP!Inv PROVE QueueFacts
  OBVIOUS
<1>1. /\ in \in Nat /\ out \in Nat /\ out <= in
      /\ hist \in Seq((1..N) \cup {Poison}) /\ Len(hist) = in
      /\ idx \in [Threads -> Nat]
  BY DEF QP!Inv, QP!TypeOK, QP!CountersInOrder
<1>2. pc \in [Threads -> Pushes \cup Pops]
  BY DEF QP!Inv, QP!TypeOK, QP!Labels, Pushes, Pops
<1>3. reg \in [Threads -> Int]
  BY NAssumption DEF QP!Inv, QP!TypeOK, QP!Free, Poison
<1>4. \A k \in 1..in : hist[k] \in Int /\ hist[k] # 0
  <2>1. \A k \in 1..in : hist[k] \in (1..N) \cup {Poison}
    BY <1>1
  <2> QED
    BY <2>1, NAssumption DEF Poison
<1>5. \A t \in Threads :
        /\ pc[t] = "o_cas" => idx[t] < in
        /\ pc[t] \in {"o_take", "o_clear"} => idx[t] < out
        /\ pc[t] = "o_take" => buffer[Q!Slot(idx[t])] = hist[idx[t] + 1]
        /\ pc[t] = "o_clear" => reg[t] = hist[idx[t] + 1]
  BY DEF QP!Inv, QP!Loaded, QP!Readers, QP!Reading, QP!Slot, Q!Slot
<1> QED
  BY <1>1, <1>2, <1>3, <1>4, <1>5 DEF QueueFacts

-----------------------------------------------------------------------------
(* The steps of the program *)

(* The sets of threads and tickets that are counted are finite. *)
LEMMA FiniteParts ==
  /\ IsFiniteSet(Producers) /\ IsFiniteSet(Consumers)
  /\ \A S : S \subseteq Producers \/ S \subseteq Consumers
              => IsFiniteSet(S) /\ Cardinality(S) \in Nat
  /\ \A n \in Nat : \A S \in SUBSET (1..n) : IsFiniteSet(S) /\ Cardinality(S) \in Nat
<1>1. \A n \in Nat : IsFiniteSet(1..n)
  BY FS_Interval
<1> QED
  BY <1>1, PairsAssumption, FS_Subset, FS_CardinalityType

(* sum += 1 of one thread *)
LEMMA SumUp ==
  ASSUME NEW S, IsFiniteSet(S), S \subseteq Threads, sum \in [Threads -> Int],
         NEW x \in Threads, sum' = [sum EXCEPT ![x] = @ + 1]
  PROVE  /\ SumFunctionOnSet(sum, S) \in Int
         /\ x \in S => SumFunctionOnSet(sum', S) = SumFunctionOnSet(sum, S) + 1
         /\ x \notin S => SumFunctionOnSet(sum', S) = SumFunctionOnSet(sum, S)
<1> DEFINE f == sum
           h == sum'
<1>1. /\ \A y \in S : f[y] \in Int /\ h[y] \in Int
      /\ \A y \in S : y # x => h[y] = f[y]
  OBVIOUS
<1>0. h[x] - f[x] = 1
  OBVIOUS
<1> HIDE DEF f, h
<1>2. CASE x \in S
  <2>1. /\ SumFunctionOnSet(f, S) \in Int
        /\ SumFunctionOnSet(h, S) = SumFunctionOnSet(f, S) + (h[x] - f[x])
    BY ONLY IsFiniteSet(S), <1>1, <1>2, SumStep
  <2> QED
    BY <1>0, <1>2, <2>1 DEF f, h
<1>3. CASE x \notin S
  <2>1. \A y \in S : f[y] \in Int /\ h[y] = f[y]
    BY <1>1, <1>3
  <2>2. /\ SumFunctionOnSet(f, S) \in Int
        /\ SumFunctionOnSet(h, S) = SumFunctionOnSet(f, S)
    BY <2>1, SumSame
  <2> QED
    BY <1>3, <2>2 DEF f, h
<1> QED
  BY <1>2, <1>3

(* A thread settles its count. *)
LEMMA SettleUp ==
  ASSUME NEW S, IsFiniteSet(S), S \subseteq Threads, sum \in [Threads -> Int],
         stage \in [Threads -> {"loop", "signalled", "popping", "done"}],
         NEW x \in Threads, stage[x] # "done", sum' = sum,
         stage' = [stage EXCEPT ![x] = "done"]
  PROVE  /\ SumFunctionOnSet(Settled, S) \in Int
         /\ x \in S => SumFunctionOnSet(Settled', S) = SumFunctionOnSet(Settled, S) + sum[x]
         /\ x \notin S => SumFunctionOnSet(Settled', S) = SumFunctionOnSet(Settled, S)
<1>1. /\ \A y \in S : Settled[y] \in Int /\ Settled'[y] \in Int
      /\ \A y \in S : y # x => Settled'[y] = Settled[y]
  BY DEF Settled
<1>2. Settled'[x] - Settled[x] = sum[x]
  BY DEF Settled
<1>3. CASE x \in S
  <2>1. /\ SumFunctionOnSet(Settled, S) \in Int
        /\ SumFunctionOnSet(Settled', S)
             = SumFunctionOnSet(Settled, S) + (Settled'[x] - Settled[x])
    BY <1>1, <1>3, SumStep
  <2> QED
    BY <1>2, <1>3, <2>1
<1>4. CASE x \notin S
  <2>1. \A y \in S : Settled[y] \in Int /\ Settled'[y] = Settled[y]
    BY <1>1, <1>4
  <2>2. /\ SumFunctionOnSet(Settled, S) \in Int
        /\ SumFunctionOnSet(Settled', S) = SumFunctionOnSet(Settled, S)
    BY <2>1, SumSame
  <2> QED
    BY <1>4, <2>2
<1> QED
  BY <1>3, <1>4

(* A step that moves no ticket leaves the counts of tickets alone. *)
LEMMA TicketsSame ==
  ASSUME UNCHANGED <<in, out, hist>>
  PROVE  /\ ItemsTo(in)' = ItemsTo(in) /\ ItemsTo(out)' = ItemsTo(out)
         /\ EndsTo(in)' = EndsTo(in) /\ EndsTo(out)' = EndsTo(out)
BY DEF ItemsTo, EndsTo

(* The invariant counts the tickets that ItemsAccounted speaks of. *)
LEMMA AccountedIs ==
  ItemsAccounted <=> Cardinality(ItemsTo(out))
                       = SumFunctionOnSet(sum, Consumers) + Cardinality(Holding)
BY DEF ItemsAccounted, ItemsTo, Holding

(* The invariant from its parts. *)
LEMMA Together ==
  ASSUME ProgramType', Control', ItemsPushed', EndsPushed', EndsPopped', LastIsEnd',
         TotalSettled', AllDone',
         (Cardinality(ItemsTo(out))
            = SumFunctionOnSet(sum, Consumers) + Cardinality(Holding))'
  PROVE  ProgramInv'
<1>1. ItemsAccounted'
  BY DEF ItemsAccounted, ItemsTo, Holding
<1> QED
  BY <1>1 DEF ProgramInv

(* push of an item: it is counted before its ticket is claimed *)
LEMMA ProduceStep ==
  ASSUME QueueFacts, ProgramInv, NEW p \in Producers, Produce(p)
  PROVE  ProgramInv'
<1> USE PairsAssumption
<1>0. p \in Threads /\ p \notin Consumers
  BY DEF Threads
<1>1. /\ pc[p] = "idle" /\ stage[p] = "loop" /\ pc' = [pc EXCEPT ![p] = "p_load"]
      /\ reg' = [reg EXCEPT ![p] = i[p]]
      /\ UNCHANGED <<buffer, in, out, idx, hist, stage, total, joined>>
      /\ i' = [i EXCEPT ![p] = @ + 1] /\ sum' = [sum EXCEPT ![p] = @ + 1]
  BY DEF Produce, Q!CallPush, Q!Goto, Q!mem
<1>2. ProgramType'
  BY <1>0, <1>1 DEF ProgramInv, ProgramType
<1>3. Control'
  BY <1>0, <1>1 DEF ProgramInv, ProgramType, Control, ProducerAt, ConsumerAt, QueueFacts,
                    Trying, Pushes, Threads
<1>4. /\ Sending' = Sending \cup {p} /\ p \notin Sending
      /\ Signalled' = Signalled /\ Holding' = Holding /\ Stopping' = Stopping
  BY <1>0, <1>1 DEF QueueFacts, Sending, Signalled, Holding, Stopping, Trying, InHand, EndMet,
                    Threads
<1>5. Settled' = Settled
  BY <1>0, <1>1 DEF Settled, ProgramInv, ProgramType
<1>6. /\ SumFunctionOnSet(sum', Producers) = SumFunctionOnSet(sum, Producers) + 1
      /\ SumFunctionOnSet(sum', Consumers) = SumFunctionOnSet(sum, Consumers)
      /\ SumFunctionOnSet(sum, Producers) \in Int
  BY <1>0, <1>1, SumUp, FiniteParts DEF ProgramInv, ProgramType, Threads
<1>7. Sending \subseteq Producers /\ ItemsTo(in) \in SUBSET (1..in)
  BY DEF Sending, ItemsTo
<1>8. Cardinality(Sending') = Cardinality(Sending) + 1
  BY <1>4, <1>7, FiniteParts, FS_AddElement
<1>9. Cardinality(Sending) \in Nat /\ Cardinality(ItemsTo(in)) \in Nat
  BY <1>7, FiniteParts DEF QueueFacts
<1>10. ItemsPushed'
  BY <1>1, <1>6, <1>8, <1>9, TicketsSame DEF ProgramInv, ItemsPushed
<1>11. (Cardinality(ItemsTo(out)) = SumFunctionOnSet(sum, Consumers) + Cardinality(Holding))'
  BY <1>1, <1>4, <1>6, TicketsSame, AccountedIs DEF ProgramInv
<1>12. EndsPushed' /\ EndsPopped'
  BY <1>1, <1>4, TicketsSame DEF ProgramInv, EndsPushed, EndsPopped
<1>13. LastIsEnd' /\ TotalSettled' /\ AllDone'
  BY <1>1, <1>4, <1>5 DEF ProgramInv, LastIsEnd, TotalSettled, AllDone
<1> QED
  BY <1>2, <1>3, <1>10, <1>11, <1>12, <1>13, Together

(* A step that claims no ticket and counts nothing. *)
LEMMA QuietStep ==
  ASSUME ProgramInv, UNCHANGED <<in, out, hist, sum, total>>,
         Sending' = Sending, Signalled' = Signalled, Holding' = Holding,
         Stopping' = Stopping, Settled' = Settled,
         ProgramType', Control', AllDone'
  PROVE  ProgramInv'
<1>1. ItemsPushed' /\ EndsPushed' /\ EndsPopped'
  BY TicketsSame DEF ProgramInv, ItemsPushed, EndsPushed, EndsPopped
<1>2. (Cardinality(ItemsTo(out)) = SumFunctionOnSet(sum, Consumers) + Cardinality(Holding))'
  BY TicketsSame, AccountedIs DEF ProgramInv
<1>3. LastIsEnd' /\ TotalSettled'
  BY DEF ProgramInv, LastIsEnd, TotalSettled
<1> QED
  BY <1>1, <1>2, <1>3, Together

(* push of the termination signal *)
LEMMA SignalEndStep ==
  ASSUME QueueFacts, ProgramInv, NEW p \in Producers, SignalEnd(p)
  PROVE  ProgramInv'
<1> USE PairsAssumption
<1>0. p \in Threads /\ p \notin Consumers
  BY DEF Threads
<1>1. /\ pc[p] = "idle" /\ stage[p] = "loop" /\ pc' = [pc EXCEPT ![p] = "p_load"]
      /\ reg' = [reg EXCEPT ![p] = Poison]
      /\ stage' = [stage EXCEPT ![p] = "signalled"]
      /\ UNCHANGED <<buffer, in, out, idx, hist, i, sum, total, joined>>
  BY DEF SignalEnd, Q!CallPush, Q!Goto, Q!mem
<1>2. ProgramType'
  BY <1>0, <1>1 DEF ProgramInv, ProgramType
<1>3. Control'
  BY <1>0, <1>1 DEF ProgramInv, ProgramType, Control, ProducerAt, ConsumerAt, QueueFacts,
                    Trying, Pushes, Threads
<1>4. /\ Sending' = Sending /\ Signalled' = Signalled
      /\ Holding' = Holding /\ Stopping' = Stopping
  BY <1>0, <1>1 DEF QueueFacts, Sending, Signalled, Holding, Stopping, Trying, InHand, EndMet,
                    Threads, ProgramInv, ProgramType
<1>5. Settled' = Settled /\ AllDone'
  BY <1>0, <1>1 DEF Settled, AllDone, ProgramInv, ProgramType
<1> QED
  BY <1>1, <1>2, <1>3, <1>4, <1>5, QuietStep

(* total += sum, after the signal was pushed *)
LEMMA SettleProducedStep ==
  ASSUME QueueFacts, ProgramInv, NEW p \in Producers, SettleProduced(p)
  PROVE  ProgramInv'
<1> USE PairsAssumption
<1>0. p \in Threads /\ p \notin Consumers
  BY DEF Threads
<1>1. /\ pc[p] = "idle" /\ stage[p] = "signalled" /\ total' = total + sum[p]
      /\ stage' = [stage EXCEPT ![p] = "done"]
      /\ UNCHANGED <<buffer, in, out, pc, idx, reg, hist, i, sum, joined>>
  BY DEF SettleProduced, Settle, qvars
<1>2. ProgramType'
  BY <1>0, <1>1 DEF ProgramInv, ProgramType
<1>3. Control'
  BY <1>0, <1>1 DEF ProgramInv, ProgramType, Control, ProducerAt, ConsumerAt, QueueFacts,
                    Trying, Pushes, Threads
<1>4. /\ Sending' = Sending /\ Signalled' = Signalled
      /\ Holding' = Holding /\ Stopping' = Stopping
  BY <1>0, <1>1 DEF QueueFacts, Sending, Signalled, Holding, Stopping, Trying, InHand, EndMet,
                    Threads, ProgramInv, ProgramType
<1>5. ItemsPushed' /\ EndsPushed' /\ EndsPopped' /\ LastIsEnd'
  BY <1>1, <1>4, TicketsSame DEF ProgramInv, ItemsPushed, EndsPushed, EndsPopped, LastIsEnd
<1>6. (Cardinality(ItemsTo(out)) = SumFunctionOnSet(sum, Consumers) + Cardinality(Holding))'
  BY <1>1, <1>4, TicketsSame, AccountedIs DEF ProgramInv
<1>7. /\ SumFunctionOnSet(Settled', Producers) = SumFunctionOnSet(Settled, Producers) + sum[p]
      /\ SumFunctionOnSet(Settled', Consumers) = SumFunctionOnSet(Settled, Consumers)
      /\ SumFunctionOnSet(Settled, Producers) \in Int
      /\ SumFunctionOnSet(Settled, Consumers) \in Int
  BY <1>0, <1>1, SettleUp, FiniteParts DEF ProgramInv, ProgramType, Threads
<1>8. TotalSettled'
  <2>1. sum[p] \in Int
    BY <1>0 DEF ProgramInv, ProgramType
  <2> QED
    BY <1>1, <1>7, <2>1 DEF ProgramInv, TotalSettled
<1>9. AllDone'
  BY <1>0, <1>1 DEF AllDone, ProgramInv, ProgramType
<1> QED
  BY <1>2, <1>3, <1>5, <1>6, <1>8, <1>9, Together

(* the first pop of a consumer *)
LEMMA StartConsumingStep ==
  ASSUME QueueFacts, ProgramInv, NEW c \in Consumers, StartConsuming(c)
  PROVE  ProgramInv'
<1> USE PairsAssumption
<1>0. c \in Threads /\ c \notin Producers
  BY DEF Threads
<1>1. /\ pc[c] = "idle" /\ stage[c] = "loop" /\ pc' = [pc EXCEPT ![c] = "o_load"]
      /\ stage' = [stage EXCEPT ![c] = "popping"]
      /\ UNCHANGED <<buffer, in, out, idx, reg, hist, i, sum, total, joined>>
  BY DEF StartConsuming, Q!CallPop, Q!Goto, Q!mem
<1>2. ProgramType'
  BY <1>0, <1>1 DEF ProgramInv, ProgramType
<1>3. Control'
  BY <1>0, <1>1 DEF ProgramInv, ProgramType, Control, ProducerAt, ConsumerAt, QueueFacts,
                    Trying, Pops, Threads
<1>4. /\ Sending' = Sending /\ Signalled' = Signalled
      /\ Holding' = Holding /\ Stopping' = Stopping
  BY <1>0, <1>1 DEF QueueFacts, Sending, Signalled, Holding, Stopping, Trying, InHand, EndMet,
                    Threads, ProgramInv, ProgramType
<1>5. Settled' = Settled /\ AllDone'
  BY <1>0, <1>1 DEF Settled, AllDone, ProgramInv, ProgramType
<1> QED
  BY <1>1, <1>2, <1>3, <1>4, <1>5, QuietStep

(* an item goes from the consumer's hand into its count *)
LEMMA ConsumeStep ==
  ASSUME QueueFacts, ProgramInv, NEW c \in Consumers, Consume(c)
  PROVE  ProgramInv'
<1> USE PairsAssumption
<1>0. c \in Threads /\ c \notin Producers /\ reg[c] \in Int
  BY DEF Threads, QueueFacts
<1>1. /\ pc[c] = "idle" /\ stage[c] = "popping" /\ reg[c] > 0
      /\ pc' = [pc EXCEPT ![c] = "o_load"] /\ sum' = [sum EXCEPT ![c] = @ + 1]
      /\ UNCHANGED <<buffer, in, out, idx, reg, hist, i, stage, total, joined>>
  BY DEF Consume, Q!CallPop, Q!Goto, Q!mem
<1>2. ProgramType'
  BY <1>0, <1>1 DEF ProgramInv, ProgramType
<1>3. Control'
  BY <1>0, <1>1 DEF ProgramInv, ProgramType, Control, ProducerAt, ConsumerAt, QueueFacts,
                    Trying, Pops, Threads
<1>4. /\ Sending' = Sending /\ Signalled' = Signalled
      /\ Holding' = Holding \ {c} /\ c \in Holding
  BY <1>0, <1>1 DEF QueueFacts, Sending, Signalled, Holding, Trying, InHand,
                    Threads, ProgramInv, ProgramType
<1>5. Stopping' = Stopping
  BY <1>0, <1>1 DEF QueueFacts, Stopping, EndMet, Threads
<1>6. Settled' = Settled /\ AllDone'
  BY <1>0, <1>1 DEF Settled, AllDone, ProgramInv, ProgramType
<1>7. /\ SumFunctionOnSet(sum', Producers) = SumFunctionOnSet(sum, Producers)
      /\ SumFunctionOnSet(sum', Consumers) = SumFunctionOnSet(sum, Consumers) + 1
      /\ SumFunctionOnSet(sum, Consumers) \in Int
  BY <1>0, <1>1, SumUp, FiniteParts DEF ProgramInv, ProgramType, Threads
<1>8. Holding \subseteq Consumers
  BY DEF Holding
<1>9. Cardinality(Holding') = Cardinality(Holding) - 1 /\ Cardinality(Holding) \in Nat
  BY <1>4, <1>8, FiniteParts, FS_RemoveElement
<1>10. ItemsPushed' /\ EndsPushed' /\ EndsPopped' /\ LastIsEnd' /\ TotalSettled'
  BY <1>1, <1>4, <1>5, <1>6, <1>7, TicketsSame
     DEF ProgramInv, ItemsPushed, EndsPushed, EndsPopped, LastIsEnd, TotalSettled
<1>11. (Cardinality(ItemsTo(out)) = SumFunctionOnSet(sum, Consumers) + Cardinality(Holding))'
  BY <1>1, <1>7, <1>9, TicketsSame, AccountedIs DEF ProgramInv
<1> QED
  BY <1>2, <1>3, <1>6, <1>10, <1>11, Together

(* total -= sum, when a consumer has met a signal *)
LEMMA SettleConsumedStep ==
  ASSUME QueueFacts, ProgramInv, NEW c \in Consumers, SettleConsumed(c)
  PROVE  ProgramInv'
<1> USE PairsAssumption
<1>0. c \in Threads /\ c \notin Producers /\ reg[c] \in Int
  BY DEF Threads, QueueFacts
<1>1. /\ pc[c] = "idle" /\ stage[c] = "popping" /\ reg[c] <= 0 /\ total' = total + -sum[c]
      /\ stage' = [stage EXCEPT ![c] = "done"]
      /\ UNCHANGED <<buffer, in, out, pc, idx, reg, hist, i, sum, joined>>
  BY DEF SettleConsumed, Settle, qvars
<1>2. ProgramType'
  BY <1>0, <1>1 DEF ProgramInv, ProgramType
<1>3. Control'
  BY <1>0, <1>1 DEF ProgramInv, ProgramType, Control, ProducerAt, ConsumerAt, QueueFacts,
                    Trying, Pops, Threads
<1>4. Sending' = Sending /\ Signalled' = Signalled /\ Holding' = Holding
  BY <1>0, <1>1 DEF QueueFacts, Sending, Signalled, Holding, Trying, InHand,
                    Threads, ProgramInv, ProgramType
<1>5. reg[c] < 0
  BY <1>0, <1>1 DEF ProgramInv, Control, ConsumerAt
<1>6. Stopping' = Stopping
  BY <1>0, <1>1, <1>5 DEF QueueFacts, Stopping, EndMet, Threads, ProgramInv, ProgramType
<1>7. ItemsPushed' /\ EndsPushed' /\ EndsPopped' /\ LastIsEnd'
  BY <1>1, <1>4, <1>6, TicketsSame DEF ProgramInv, ItemsPushed, EndsPushed, EndsPopped, LastIsEnd
<1>8. (Cardinality(ItemsTo(out)) = SumFunctionOnSet(sum, Consumers) + Cardinality(Holding))'
  BY <1>1, <1>4, TicketsSame, AccountedIs DEF ProgramInv
<1>9. /\ SumFunctionOnSet(Settled', Producers) = SumFunctionOnSet(Settled, Producers)
      /\ SumFunctionOnSet(Settled', Consumers) = SumFunctionOnSet(Settled, Consumers) + sum[c]
      /\ SumFunctionOnSet(Settled, Producers) \in Int
      /\ SumFunctionOnSet(Settled, Consumers) \in Int
  BY <1>0, <1>1, SettleUp, FiniteParts DEF ProgramInv, ProgramType, Threads
<1>10. TotalSettled'
  <2>1. sum[c] \in Int
    BY <1>0 DEF ProgramInv, ProgramType
  <2> QED
    BY <1>1, <1>9, <2>1 DEF ProgramInv, TotalSettled
<1>11. AllDone'
  BY <1>0, <1>1 DEF AllDone, ProgramInv, ProgramType
<1> QED
  BY <1>2, <1>3, <1>7, <1>8, <1>10, <1>11, Together

(* a step of push that claims no ticket *)
LEMMA PushQuiet ==
  ASSUME QueueFacts, ProgramInv, NEW p \in Producers,
         Q!PushLoad(p) \/ Q!PushNotFull(p) \/ Q!PushSlot(p) \/ Q!PushRetry(p) \/ Q!PushStore(p),
         UNCHANGED <<i, sum, stage, total, joined>>
  PROVE  ProgramInv'
<1> USE PairsAssumption
<1>0. p \in Threads /\ p \notin Consumers
  BY DEF Threads
<1>1. /\ UNCHANGED <<in, out, reg, hist>>
      /\ \A t \in Threads : t # p => idx'[t] = idx[t]
      /\ \/ Trying(p) /\ \E l \in {"p_load", "p_full", "p_slot", "p_cas"} :
                            pc' = [pc EXCEPT ![p] = l]
         \/ pc[p] = "p_store" /\ pc' = [pc EXCEPT ![p] = "idle"]
  BY <1>0 DEF Q!PushLoad, Q!PushNotFull, Q!PushSlot, Q!PushRetry, Q!PushStore, Q!Goto, Q!mem,
              Trying, QueueFacts
<1>2. ProgramType' /\ AllDone' /\ Settled' = Settled
  BY DEF ProgramInv, ProgramType, AllDone, Settled
<1>3. Control'
  <2>1. \A c \in Consumers : ConsumerAt(c)'
    BY <1>0, <1>1 DEF ProgramInv, Control, ConsumerAt, QueueFacts, Threads
  <2>2. \A u \in Producers : u # p => ProducerAt(u)'
    BY <1>0, <1>1 DEF ProgramInv, Control, ProducerAt, Trying, QueueFacts, Threads
  <2>3. ProducerAt(p)'
    BY <1>0, <1>1 DEF ProgramInv, Control, ProducerAt, Trying, QueueFacts, Pushes
  <2> QED
    BY <2>1, <2>2, <2>3 DEF Control
<1>4. Sending' = Sending /\ Signalled' = Signalled
  BY <1>0, <1>1 DEF QueueFacts, Sending, Signalled, Trying, Threads
<1>5. Holding' = Holding /\ Stopping' = Stopping
  <2>1. \A c \in Consumers : /\ pc'[c] = pc[c] /\ idx'[c] = idx[c] /\ reg'[c] = reg[c]
                              /\ stage'[c] = stage[c]
    BY <1>0, <1>1 DEF QueueFacts, Threads
  <2>2. \A c \in Consumers : (InHand(c)' <=> InHand(c)) /\ (EndMet(c)' <=> EndMet(c))
    BY ONLY <1>1, <2>1 DEF InHand, EndMet
  <2> QED
    BY ONLY <2>2 DEF Holding, Stopping
<1> QED
  BY <1>1, <1>2, <1>3, <1>4, <1>5, QuietStep

(* push claims a ticket, for an item or for a signal *)
LEMMA PushClaimStep ==
  ASSUME QueueFacts, ProgramInv, NEW p \in Producers, Q!PushClaim(p),
         UNCHANGED <<i, sum, stage, total, joined>>
  PROVE  ProgramInv'
<1> USE PairsAssumption
<1>0. p \in Threads /\ p \notin Consumers /\ reg[p] \in Int
  BY DEF Threads, QueueFacts
<1>1. /\ pc[p] = "p_cas" /\ pc' = [pc EXCEPT ![p] = "p_store"]
      /\ in' = in + 1 /\ hist' = Append(hist, reg[p])
      /\ UNCHANGED <<out, idx, reg>>
  BY DEF Q!PushClaim, Q!Goto
<1>2. ProgramType' /\ AllDone' /\ Settled' = Settled
  BY DEF ProgramInv, ProgramType, AllDone, Settled
<1>3. Control'
  BY <1>0, <1>1 DEF ProgramInv, Control, ConsumerAt, ProducerAt, Trying, QueueFacts, Threads,
                    Pushes
<1>4. /\ in \in Nat /\ out \in Nat /\ out <= in
      /\ \A k \in 1..in : hist'[k] = hist[k]
      /\ hist'[in + 1] = reg[p]
      /\ in' = in + 1 /\ out' = out
  <2>1. hist \in Seq(Int) /\ Len(hist) = in
    BY DEF QueueFacts, Poison
  <2> QED
    BY <1>0, <1>1, <2>1 DEF QueueFacts
<1>5. ItemsTo(out)' = ItemsTo(out) /\ EndsTo(out)' = EndsTo(out)
  BY <1>4 DEF ItemsTo, EndsTo
<1>6. Holding' = Holding /\ Stopping' = Stopping
  <2>1. \A c \in Consumers : pc[c] = "o_take" => hist'[idx[c] + 1] = hist[idx[c] + 1]
    BY <1>4 DEF QueueFacts, Threads
  <2> QED
    BY <1>0, <1>1, <2>1 DEF QueueFacts, Holding, Stopping, InHand, EndMet, Threads
<1>7. EndsPopped' /\ TotalSettled'
  BY <1>2, <1>5, <1>6 DEF ProgramInv, EndsPopped, TotalSettled
<1>8. (Cardinality(ItemsTo(out)) = SumFunctionOnSet(sum, Consumers) + Cardinality(Holding))'
  BY <1>5, <1>6, AccountedIs DEF ProgramInv
<1>9. /\ ItemsTo(in) \in SUBSET (1..in) /\ EndsTo(in) \in SUBSET (1..in)
      /\ Sending \subseteq Producers /\ Signalled \subseteq Producers
      /\ in + 1 \notin ItemsTo(in) /\ in + 1 \notin EndsTo(in)
  BY <1>4 DEF ItemsTo, EndsTo, Sending, Signalled
<1>10. /\ IsFiniteSet(ItemsTo(in)) /\ IsFiniteSet(EndsTo(in))
       /\ IsFiniteSet(Sending) /\ IsFiniteSet(Signalled)
       /\ Cardinality(ItemsTo(in)) \in Nat /\ Cardinality(EndsTo(in)) \in Nat
       /\ Cardinality(Sending) \in Nat /\ Cardinality(Signalled) \in Nat
  BY <1>4, <1>9, FiniteParts
<1>11. CASE stage[p] = "loop"
  <2>1. reg[p] > 0
    BY <1>1, <1>11 DEF ProgramInv, Control, ProducerAt, Trying
  <2>2. ItemsTo(in)' = ItemsTo(in) \cup {in + 1} /\ EndsTo(in)' = EndsTo(in)
    BY <1>0, <1>4, <2>1 DEF ItemsTo, EndsTo
  <2>3. /\ Sending' = Sending \ {p} /\ p \in Sending
        /\ Signalled' = Signalled /\ p \notin Signalled
    BY <1>0, <1>1, <1>11 DEF QueueFacts, Sending, Signalled, Trying, Threads
  <2>4. /\ Cardinality(ItemsTo(in)') = Cardinality(ItemsTo(in)) + 1
        /\ Cardinality(Sending') = Cardinality(Sending) - 1
    <3>1. Cardinality(ItemsTo(in)') = Cardinality(ItemsTo(in)) + 1
      BY ONLY <1>9, <1>10, <2>2, FS_AddElement
    <3>2. Cardinality(Sending') = Cardinality(Sending) - 1
      BY ONLY <1>10, <2>3, FS_RemoveElement
    <3> QED
      BY ONLY <3>1, <3>2
  <2>5. ItemsPushed'
    BY <1>10, <2>4 DEF ProgramInv, ItemsPushed
  <2>6. EndsPushed' /\ LastIsEnd'
    BY <2>2, <2>3 DEF ProgramInv, EndsPushed, LastIsEnd
  <2> QED
    BY <1>2, <1>3, <1>7, <1>8, <2>5, <2>6, Together
<1>12. CASE stage[p] # "loop"
  <2>1. reg[p] < 0
    BY <1>1, <1>12 DEF ProgramInv, Control, ProducerAt, Trying, Poison
  <2>2. ItemsTo(in)' = ItemsTo(in) /\ EndsTo(in)' = EndsTo(in) \cup {in + 1}
    BY <1>0, <1>4, <2>1 DEF ItemsTo, EndsTo
  <2>3. /\ Sending' = Sending
        /\ Signalled' = Signalled \cup {p} /\ p \notin Signalled
    BY <1>0, <1>1, <1>12 DEF QueueFacts, Sending, Signalled, Trying, Threads
  <2>4. /\ Cardinality(EndsTo(in)') = Cardinality(EndsTo(in)) + 1
        /\ Cardinality(Signalled') = Cardinality(Signalled) + 1
    BY <1>9, <1>10, <2>2, <2>3, FS_AddElement
  <2>5. ItemsPushed'
    BY <2>2, <2>3 DEF ProgramInv, ItemsPushed
  <2>6. EndsPushed'
    BY <2>4 DEF ProgramInv, EndsPushed
  <2>7. LastIsEnd'
    BY <1>1, <1>4, <2>1 DEF LastIsEnd
  <2> QED
    BY <1>2, <1>3, <1>7, <1>8, <2>5, <2>6, <2>7, Together
<1> QED
  BY <1>11, <1>12

(* a step of pop that claims no ticket: an item in hand stays in hand *)
LEMMA PopQuiet ==
  ASSUME QueueFacts, ProgramInv, NEW c \in Consumers,
         \/ Q!PopLoad(c) \/ Q!PopNotEmpty(c) \/ Q!PopSlot(c) \/ Q!PopRetry(c)
         \/ Q!PopTake(c) \/ Q!PopClear(c),
         UNCHANGED <<i, sum, stage, total, joined>>
  PROVE  ProgramInv'
<1> USE PairsAssumption
<1>0. c \in Threads /\ c \notin Producers
  BY DEF Threads
<1>1. /\ UNCHANGED <<in, out, hist>>
      /\ \A t \in Threads : t # c => idx'[t] = idx[t] /\ reg'[t] = reg[t] /\ pc'[t] = pc[t]
      /\ \/ /\ pc[c] \in {"o_load", "o_empty", "o_slot", "o_cas"}
            /\ pc'[c] \in {"o_load", "o_empty", "o_slot", "o_cas"}
         \/ /\ pc[c] = "o_take" /\ pc'[c] = "o_clear" /\ idx'[c] = idx[c]
            /\ reg'[c] = hist[idx[c] + 1]
         \/ /\ pc[c] = "o_clear" /\ pc'[c] = "idle" /\ idx'[c] = idx[c]
            /\ reg'[c] = reg[c] /\ reg[c] = hist[idx[c] + 1] /\ reg[c] # 0
  <2>1. CASE Q!PopLoad(c) \/ Q!PopNotEmpty(c) \/ Q!PopSlot(c) \/ Q!PopRetry(c)
    BY <1>0, <2>1 DEF Q!PopLoad, Q!PopNotEmpty, Q!PopSlot, Q!PopRetry, Q!Goto, Q!mem, QueueFacts
  <2>2. CASE Q!PopTake(c)
    BY <1>0, <2>2 DEF Q!PopTake, Q!Goto, Q!mem, QueueFacts
  <2>3. CASE Q!PopClear(c)
    <3>1. idx[c] + 1 \in 1..in /\ reg[c] = hist[idx[c] + 1]
      BY <1>0, <2>3 DEF Q!PopClear, QueueFacts
    <3> QED
      BY <1>0, <2>3, <3>1 DEF Q!PopClear, Q!Goto, Q!mem, QueueFacts
  <2> QED
    BY <2>1, <2>2, <2>3
<1>2. ProgramType' /\ AllDone' /\ Settled' = Settled
  BY DEF ProgramInv, ProgramType, AllDone, Settled
<1>3. Control'
  <2>1. \A u \in Producers : ProducerAt(u)'
    BY <1>0, <1>1 DEF ProgramInv, Control, ProducerAt, Trying, Threads
  <2>2. \A d \in Consumers : d # c => ConsumerAt(d)'
    BY <1>0, <1>1 DEF ProgramInv, Control, ConsumerAt, Threads
  <2>3. ConsumerAt(c)'
    BY <1>0, <1>1 DEF ProgramInv, Control, ConsumerAt, Pops
  <2> QED
    BY <2>1, <2>2, <2>3 DEF Control
<1>4. Sending' = Sending /\ Signalled' = Signalled
  BY <1>0, <1>1 DEF Sending, Signalled, Trying, Threads
<1>5. stage[c] = "popping"
  BY <1>1 DEF ProgramInv, Control, ConsumerAt
<1>6. /\ InHand(c)' <=> InHand(c)
      /\ EndMet(c)' <=> EndMet(c)
  BY <1>1, <1>5 DEF InHand, EndMet
<1>7. \A d \in Consumers : d # c => (InHand(d)' <=> InHand(d)) /\ (EndMet(d)' <=> EndMet(d))
  BY <1>1 DEF InHand, EndMet, Threads
<1>8. Holding' = Holding /\ Stopping' = Stopping
  BY <1>6, <1>7 DEF Holding, Stopping
<1> QED
  BY <1>1, <1>2, <1>3, <1>4, <1>8, QuietStep

(* pop claims a ticket: an item is in hand, or a signal is met *)
LEMMA PopClaimStep ==
  ASSUME QueueFacts, ProgramInv, NEW c \in Consumers, Q!PopClaim(c),
         UNCHANGED <<i, sum, stage, total, joined>>
  PROVE  ProgramInv'
<1> USE PairsAssumption
<1>0. c \in Threads /\ c \notin Producers
  BY DEF Threads
<1>1. /\ pc[c] = "o_cas" /\ pc' = [pc EXCEPT ![c] = "o_take"]
      /\ out = idx[c] /\ out' = out + 1
      /\ UNCHANGED <<in, hist, idx, reg>>
  BY DEF Q!PopClaim, Q!Goto
<1>2. ProgramType' /\ AllDone' /\ Settled' = Settled
  BY DEF ProgramInv, ProgramType, AllDone, Settled
<1>3. Control'
  BY <1>0, <1>1 DEF ProgramInv, Control, ConsumerAt, ProducerAt, Trying, QueueFacts, Threads,
                    Pops
<1>4. stage[c] = "popping"
  BY <1>1 DEF ProgramInv, Control, ConsumerAt
<1>5. out \in Nat /\ out + 1 \in 1..in /\ hist[out + 1] \in Int /\ hist[out + 1] # 0
  BY <1>0, <1>1 DEF QueueFacts
<1>6. /\ ItemsTo(in)' = ItemsTo(in) /\ EndsTo(in)' = EndsTo(in)
      /\ Sending' = Sending /\ Signalled' = Signalled
  BY <1>0, <1>1 DEF ItemsTo, EndsTo, Sending, Signalled, Trying, QueueFacts, Threads
<1>7. ItemsPushed' /\ EndsPushed' /\ LastIsEnd' /\ TotalSettled'
  BY <1>1, <1>2, <1>6 DEF ProgramInv, ItemsPushed, EndsPushed, LastIsEnd, TotalSettled
<1>8. /\ ItemsTo(out) \in SUBSET (1..out) /\ EndsTo(out) \in SUBSET (1..out)
      /\ Holding \subseteq Consumers /\ Stopping \subseteq Consumers
      /\ out + 1 \notin ItemsTo(out) /\ out + 1 \notin EndsTo(out)
      /\ c \notin Holding /\ c \notin Stopping
  BY <1>1, <1>4, <1>5 DEF ItemsTo, EndsTo, Holding, Stopping, InHand, EndMet
<1>9. /\ IsFiniteSet(ItemsTo(out)) /\ IsFiniteSet(EndsTo(out))
      /\ IsFiniteSet(Holding) /\ IsFiniteSet(Stopping)
      /\ Cardinality(ItemsTo(out)) \in Nat /\ Cardinality(Holding) \in Nat
  BY <1>5, <1>8, FiniteParts
<1>10. \A d \in Consumers : d # c => (InHand(d)' <=> InHand(d)) /\ (EndMet(d)' <=> EndMet(d))
  BY <1>0, <1>1 DEF InHand, EndMet, Threads, QueueFacts
<1>11. /\ InHand(c)' <=> hist[out + 1] > 0
       /\ EndMet(c)' <=> hist[out + 1] < 0
  BY <1>0, <1>1, <1>4 DEF InHand, EndMet, QueueFacts
<1>12. SumFunctionOnSet(sum, Consumers) \in Int
  <2>1. \A y \in Consumers : sum[y] \in Int /\ sum[y] = sum[y]
    BY DEF ProgramInv, ProgramType, Threads
  <2> QED
    BY <2>1, SumSame, FiniteParts
<1>13. CASE hist[out + 1] > 0
  <2>1. ItemsTo(out)' = ItemsTo(out) \cup {out + 1} /\ EndsTo(out)' = EndsTo(out)
    BY <1>1, <1>5, <1>13 DEF ItemsTo, EndsTo
  <2>2. Holding' = Holding \cup {c} /\ Stopping' = Stopping
    BY <1>5, <1>8, <1>10, <1>11, <1>13 DEF Holding, Stopping
  <2>3. /\ Cardinality(ItemsTo(out)') = Cardinality(ItemsTo(out)) + 1
        /\ Cardinality(Holding') = Cardinality(Holding) + 1
    BY <1>8, <1>9, <2>1, <2>2, FS_AddElement
  <2>4. (Cardinality(ItemsTo(out)) = SumFunctionOnSet(sum, Consumers) + Cardinality(Holding))'
    BY <1>9, <1>12, <2>3, AccountedIs DEF ProgramInv
  <2>5. EndsPopped'
    BY <2>1, <2>2 DEF ProgramInv, EndsPopped
  <2> QED
    BY <1>2, <1>3, <1>7, <2>4, <2>5, Together
<1>14. CASE hist[out + 1] < 0
  <2>1. ItemsTo(out)' = ItemsTo(out) /\ EndsTo(out)' = EndsTo(out) \cup {out + 1}
    BY <1>1, <1>5, <1>14 DEF ItemsTo, EndsTo
  <2>2. Holding' = Holding /\ Stopping' = Stopping \cup {c}
    BY <1>5, <1>8, <1>10, <1>11, <1>14 DEF Holding, Stopping
  <2>3. /\ Cardinality(EndsTo(out)') = Cardinality(EndsTo(out)) + 1
        /\ Cardinality(Stopping') = Cardinality(Stopping) + 1
    BY <1>8, <1>9, <2>1, <2>2, FS_AddElement
  <2>4. (Cardinality(ItemsTo(out)) = SumFunctionOnSet(sum, Consumers) + Cardinality(Holding))'
    BY <2>1, <2>2, AccountedIs DEF ProgramInv
  <2>5. EndsPopped'
    BY <2>3 DEF ProgramInv, EndsPopped
  <2> QED
    BY <1>2, <1>3, <1>7, <2>4, <2>5, Together
<1> QED
  BY <1>5, <1>13, <1>14

LEMMA JoinStep ==
  ASSUME QueueFacts, ProgramInv, Join \/ UNCHANGED vars
  PROVE  ProgramInv'
<1>1. UNCHANGED <<buffer, in, out, pc, idx, reg, hist, i, sum, stage, total>>
  BY DEF Join, vars, qvars
<1>a. joined' \in BOOLEAN
  <2>1. CASE Join
    BY <2>1 DEF Join
  <2>2. CASE UNCHANGED vars
    BY <2>2, Zenon DEF vars, ProgramInv, ProgramType
  <2> QED
    BY <2>1, <2>2
<1>b. AllDone'
  <2>1. CASE Join
    BY <1>1, <2>1, Zenon DEF Join, AllDone
  <2>2. CASE UNCHANGED vars
    BY <1>1, <2>2, Zenon DEF vars, ProgramInv, AllDone
  <2> QED
    BY <2>1, <2>2
<1>c. ProgramType'
  BY <1>1, <1>a, Zenon DEF ProgramInv, ProgramType
<1>2. ProgramType' /\ AllDone'
  BY <1>b, <1>c
<1>3. Control'
  BY <1>1 DEF ProgramInv, Control, ProducerAt, ConsumerAt, Trying
<1>4. /\ Sending' = Sending /\ Signalled' = Signalled
      /\ Holding' = Holding /\ Stopping' = Stopping /\ Settled' = Settled
  BY <1>1 DEF Sending, Signalled, Holding, Stopping, InHand, EndMet, Trying, Settled
<1> QED
  BY <1>1, <1>2, <1>3, <1>4, QuietStep

LEMMA InitInv == Init => Inv
<1> SUFFICES ASSUME Init PROVE Inv
  OBVIOUS
<1> USE PairsAssumption
<1>1. QP!Inv
  <2>1. QP!Init => QP!Inv
    BY QP!InitInv, QueueAssumptions
  <2> QED
    BY <2>1, SameQueue DEF Init
<1>2. /\ in = 0 /\ out = 0 /\ pc = [t \in Threads |-> "idle"]
      /\ i = [p \in Producers |-> 1] /\ sum = [t \in Threads |-> 0]
      /\ stage = [t \in Threads |-> "loop"] /\ total = 0 /\ joined = FALSE
  BY DEF Init, Q!Init
<1>3. ProgramType /\ AllDone
  <2>1. /\ i \in [Producers -> Int] /\ sum \in [Threads -> Int] /\ total \in Int
        /\ stage \in [Threads -> {"loop", "signalled", "popping", "done"}]
    BY <1>2
  <2>2. joined \in BOOLEAN /\ ~joined
    BY <1>2, Zenon
  <2> QED
    BY <2>1, <2>2, Zenon DEF ProgramType, AllDone
<1>4. Control
  BY <1>2 DEF Control, ProducerAt, ConsumerAt, Trying, Pushes, Pops, Threads
<1>5. /\ Sending = {} /\ Signalled = {} /\ Holding = {} /\ Stopping = {}
      /\ ItemsTo(in) = {} /\ ItemsTo(out) = {} /\ EndsTo(in) = {} /\ EndsTo(out) = {}
  BY <1>2 DEF Sending, Signalled, Holding, Stopping, InHand, EndMet, Trying, ItemsTo, EndsTo,
              Threads
<1>6. /\ \A t \in Producers : sum[t] = 0 /\ Settled[t] = 0
      /\ \A t \in Consumers : sum[t] = 0 /\ Settled[t] = 0
  BY <1>2 DEF Settled, Threads
<1>7. /\ SumFunctionOnSet(sum, Producers) = 0 /\ SumFunctionOnSet(sum, Consumers) = 0
      /\ SumFunctionOnSet(Settled, Producers) = 0 /\ SumFunctionOnSet(Settled, Consumers) = 0
  BY <1>6, SumZero, FiniteParts
<1>8. Cardinality({}) = 0
  BY FS_EmptySet
<1>9. ItemsPushed /\ EndsPushed /\ EndsPopped /\ LastIsEnd /\ TotalSettled
  BY <1>2, <1>5, <1>7, <1>8 DEF ItemsPushed, EndsPushed, EndsPopped, LastIsEnd, TotalSettled
<1>10. ItemsAccounted
  BY <1>5, <1>7, <1>8, AccountedIs
<1> QED
  BY <1>1, <1>3, <1>4, <1>9, <1>10 DEF Inv, ProgramInv

LEMMA NextInv == Inv /\ [Next]_vars => Inv'
<1> SUFFICES ASSUME Inv, [Next]_vars PROVE ProgramInv'
  BY QueueInv DEF Inv
<1>0. QueueFacts /\ ProgramInv
  BY QueueGives DEF Inv
<1>1. ASSUME NEW p \in Producers, Producer(p) PROVE ProgramInv'
  <2>1. CASE QueueStep(p)
    <3>1. ~ Q!Pop(p)
      BY <1>0 DEF ProgramInv, Control, ProducerAt, Pushes, Q!Pop, Q!PopLoad, Q!PopNotEmpty,
                  Q!PopSlot, Q!PopClaim, Q!PopRetry, Q!PopTake, Q!PopClear
    <3> QED
      BY <1>0, <2>1, <3>1, PushQuiet, PushClaimStep DEF QueueStep, Q!Push
  <2> QED
    BY <1>0, <1>1, <2>1, ProduceStep, SignalEndStep, SettleProducedStep DEF Producer
<1>2. ASSUME NEW c \in Consumers, Consumer(c) PROVE ProgramInv'
  <2>1. CASE QueueStep(c)
    <3>1. ~ Q!Push(c)
      BY <1>0 DEF ProgramInv, Control, ConsumerAt, Pops, Q!Push, Q!PushLoad, Q!PushNotFull,
                  Q!PushSlot, Q!PushClaim, Q!PushRetry, Q!PushStore
    <3> QED
      BY <1>0, <2>1, <3>1, PopQuiet, PopClaimStep DEF QueueStep, Q!Pop
  <2> QED
    BY <1>0, <1>2, <2>1, StartConsumingStep, ConsumeStep, SettleConsumedStep DEF Consumer
<1> QED
  BY <1>0, <1>1, <1>2, JoinStep DEF Next, Ended

-----------------------------------------------------------------------------
(* The inductive invariant holds for any number of pairs, items and seats. *)
THEOREM InvCorrect == Spec => []Inv
<1> QED
  BY InitInv, NextInv, PTL DEF Spec

(* Every item that has left the queue is in the count or in the hands of    *)
(* one consumer, at any moment.                                             *)
THEOREM ItemsAccountedHolds == Spec => []ItemsAccounted
<1>1. Inv => ItemsAccounted
  BY DEF Inv, ProgramInv
<1> QED
  BY <1>1, InvCorrect, PTL

(* When every thread is done, each consumer has met a signal, so all the    *)
(* signals have been popped, so the last ticket has.                        *)
LEMMA QueueDrained ==
  ASSUME Inv, \A t \in Threads : stage[t] = "done"
  PROVE  in = out
<1>0. QueueFacts /\ ProgramInv
  BY QueueGives DEF Inv
<1>1. in \in Nat /\ out \in Nat /\ out <= in
  BY <1>0 DEF QueueFacts
<1>2. Signalled = Producers
  BY <1>0 DEF ProgramInv, Control, ProducerAt, Trying, Signalled, Threads
<1>3. Stopping = Consumers
  BY DEF Stopping, EndMet, Threads
<1>4. Cardinality(EndsTo(out)) = Cardinality(EndsTo(in))
  BY <1>0, <1>2, <1>3, PairsAssumption DEF ProgramInv, EndsPushed, EndsPopped
<1>5. EndsTo(out) \subseteq EndsTo(in) /\ EndsTo(in) \in SUBSET (1..in)
  BY <1>1 DEF EndsTo
<1>6. EndsTo(out) = EndsTo(in)
  BY <1>1, <1>4, <1>5, FiniteParts, FS_Subset
<1>7. CASE in > 0
  <2>1. in \in EndsTo(in)
    BY <1>0, <1>1, <1>2, <1>7 DEF ProgramInv, LastIsEnd, EndsTo
  <2>2. in \in EndsTo(out)
    BY <1>6, <2>1
  <2> QED
    BY <1>1, <2>2 DEF EndsTo
<1> QED
  BY <1>1, <1>7

(* The checksum that main prints is zero and the queue is empty, for any    *)
(* number of pairs, items and seats: the sums of the producers and of the   *)
(* consumers count the same tickets.                                        *)
THEOREM ChecksumZeroHolds == Spec => []ChecksumZero
<1>1. Inv => ChecksumZero
  <2> SUFFICES ASSUME Inv, joined
               PROVE  /\ total = 0 /\ in = out
                      /\ \A s \in DOMAIN buffer : buffer[s] = 0
    BY DEF ChecksumZero
  <2>0. QueueFacts /\ ProgramInv
    BY QueueGives DEF Inv
  <2>1. \A t \in Threads : stage[t] = "done"
    BY <2>0 DEF ProgramInv, AllDone
  <2>2. in = out
    BY <2>1, QueueDrained
  <2>3. \A t \in Threads : pc[t] = "idle"
    BY <2>0, <2>1 DEF ProgramInv, Control, ProducerAt, ConsumerAt, Threads
  <2>4. Sending = {} /\ Holding = {}
    BY <2>1 DEF Sending, Holding, InHand, Threads
  <2>5. /\ \A t \in Producers : sum[t] \in Int /\ Settled[t] = sum[t]
        /\ \A t \in Consumers : sum[t] \in Int /\ Settled[t] = sum[t]
    BY <2>0, <2>1 DEF Settled, Threads, ProgramInv, ProgramType
  <2>6. /\ SumFunctionOnSet(Settled, Producers) = SumFunctionOnSet(sum, Producers)
        /\ SumFunctionOnSet(Settled, Consumers) = SumFunctionOnSet(sum, Consumers)
        /\ SumFunctionOnSet(sum, Producers) \in Int
        /\ SumFunctionOnSet(sum, Consumers) \in Int
    BY <2>5, SumSame, FiniteParts
  <2>7. ItemsTo(in) \in SUBSET (1..in) /\ in \in Nat
    BY <2>0 DEF ItemsTo, QueueFacts
  <2>8. Cardinality(ItemsTo(in)) \in Nat /\ Cardinality({}) = 0
    BY <2>7, FiniteParts, FS_EmptySet
  <2>9. /\ SumFunctionOnSet(sum, Producers) = Cardinality(ItemsTo(in))
        /\ SumFunctionOnSet(sum, Consumers) = Cardinality(ItemsTo(in))
    BY <2>0, <2>2, <2>4, <2>6, <2>8, AccountedIs DEF ProgramInv, ItemsPushed
  <2>10. total = 0
    BY <2>0, <2>6, <2>9 DEF ProgramInv, TotalSettled
  <2>11. \A s \in DOMAIN buffer : buffer[s] = 0
    <3>1. DOMAIN buffer = 0..(Size - 1)
      BY <2>0 DEF Inv, QP!Inv, QP!TypeOK
    <3>2. ~ \E k \in out..(in - 1) : QP!Slot(k) \in 0..(Size - 1)
      BY <2>2, <2>7
    <3>3. \A t \in Threads : ~ QP!Reading(t)
      BY <2>3 DEF QP!Reading
    <3>4. QP!Accounted
      BY DEF Inv, QP!Inv
    <3>5. \A s \in 0..(Size - 1) : buffer[s] = QP!Free
      BY <3>2, <3>3, <3>4, Zenon DEF QP!Accounted
    <3> QED
      BY <3>1, <3>5 DEF QP!Free
  <2> QED
    BY <2>2, <2>10, <2>11
<1> QED
  BY <1>1, InvCorrect, PTL
=============================================================================
