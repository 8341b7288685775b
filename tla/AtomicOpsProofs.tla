--------------------------- MODULE AtomicOpsProofs --------------------------
(***************************************************************************)
(* Proofs about AtomicOps for every finite set of threads, every choice of  *)
(* their operations and every initial value: what the calls do together is  *)
(* what they do one after the other.                                        *)
(***************************************************************************)
EXTENDS AtomicOps, FiniteSetTheorems, WellFoundedInduction, TLAPS

-----------------------------------------------------------------------------
(* InSomeOrder is a recursive function over the subsets of Threads.  That a *)
(* function with its equation exists is shown first.                        *)

(* A nonempty set of subsets of a finite set has a minimal one. *)
LEMMA MinimalSet ==
  ASSUME NEW T, IsFiniteSet(T), NEW P \in SUBSET SUBSET T, P # {}
  PROVE  \E m \in P : \A S \in P : S \subseteq m => S = m
<1> DEFINE R == StrictSubsetOrdering(T)
<1>1. P \subseteq FiniteSubsetsOf(T)
  BY FS_Subset DEF FiniteSubsetsOf
<1>2. IsWellFoundedOn(R, FiniteSubsetsOf(T))
  BY FS_StrictSubsetOrderingWellFounded
<1>3. \E m \in P : \A S \in P : ~(<<S, m>> \in R)
  <2> HIDE DEF R
  <2> QED
    BY <1>1, <1>2, WFMin
<1>4. PICK m \in P : \A S \in P : ~(<<S, m>> \in R)
  BY <1>3
<1>5. ASSUME NEW S \in P, S \subseteq m, S # m PROVE FALSE
  <2>1. <<S, m>> \in R
    BY <1>5 DEF StrictSubsetOrdering
  <2> QED
    BY <2>1, <1>4
<1> QED
  BY <1>5

(* The right-hand side of the equation, for a function g in the place of    *)
(* InSomeOrder, and the sets of subsets on which a solution exists.         *)
After(g, S) == IF S = {} THEN {<<Start, {}>>}
               ELSE UNION {{Alone(t, o[1], o[2]) : o \in g[S \ {t}]} : t \in S}
Solves(g, D) == g = [S \in D |-> After(g, S)]
Closed(D) == D \subseteq SUBSET Threads /\ \A S \in D : \A t \in S : S \ {t} \in D
Solvable(D) == Closed(D) /\ \E g : Solves(g, D)

(* A solution can be extended to a set whose smaller sets it covers. *)
LEMMA OneSetMore ==
  ASSUME NEW D, Solvable(D), NEW M \in SUBSET Threads, M \notin D,
         \A t \in M : M \ {t} \in D
  PROVE  Solvable(D \cup {M})
<1>1. PICK g : Solves(g, D)
  BY DEF Solvable
<1> DEFINE h == [S \in D \cup {M} |-> IF S = M THEN After(g, M) ELSE g[S]]
<1>2. Closed(D \cup {M})
  BY DEF Solvable, Closed
<1>3. ASSUME NEW S \in D \cup {M} PROVE After(h, S) = After(g, S)
  <2>1. \A t \in S : S \ {t} \in D /\ S \ {t} # M
    BY <1>3 DEF Solvable, Closed
  <2>2. \A t \in S : h[S \ {t}] = g[S \ {t}]
    BY <2>1
  <2> DEFINE From(f, t) == {Alone(t, o[1], o[2]) : o \in f[S \ {t}]}
  <2>3. \A t \in S : From(h, t) = From(g, t)
    BY <2>2
  <2> HIDE DEF h, From
  <2>4. {From(h, t) : t \in S} = {From(g, t) : t \in S}
    BY <2>3
  <2> QED
    BY <2>4 DEF After, From
<1>4. ASSUME NEW S \in D \cup {M} PROVE h[S] = After(g, S)
  <2>1. CASE S = M
    BY <2>1
  <2>2. CASE S # M
    <3>1. S \in D /\ h[S] = g[S]
      BY <2>2
    <3>2. g[S] = After(g, S)
      BY <1>1, <3>1 DEF Solves
    <3> QED
      BY <3>1, <3>2
  <2> QED
    BY <2>1, <2>2
<1>5. Solves(h, D \cup {M})
  <2>1. \A S \in D \cup {M} : h[S] = After(h, S)
    BY <1>3, <1>4
  <2>2. h = [S \in D \cup {M} |-> h[S]]
    OBVIOUS
  <2> HIDE DEF h
  <2> QED
    BY <2>1, <2>2 DEF Solves
<1> QED
  BY <1>2, <1>5 DEF Solvable

(* So there is a solution on all the subsets of Threads. *)
LEMMA OrderExists == \E g : Solves(g, SUBSET Threads)
<1> DEFINE P == {(SUBSET Threads) \ D : D \in {E \in SUBSET SUBSET Threads : Solvable(E)}}
<1>1. Solvable({})
  <2>1. Closed({})
    BY DEF Closed
  <2>2. Solves([S \in {} |-> {}], {})
    BY DEF Solves
  <2> QED
    BY <2>1, <2>2 DEF Solvable
<1>2. IsFiniteSet(SUBSET Threads)
  BY FiniteAssumption, FS_SUBSET
<1>3. P \in SUBSET SUBSET SUBSET Threads /\ P # {}
  BY <1>1
<1>4. PICK m \in P : \A X \in P : X \subseteq m => X = m
  <2> HIDE DEF P
  <2> QED
    BY <1>2, <1>3, MinimalSet
<1>5. PICK D \in SUBSET SUBSET Threads : Solvable(D) /\ m = (SUBSET Threads) \ D
  BY <1>4
<1>6. m = {}
  <2> SUFFICES ASSUME m # {} PROVE FALSE
    OBVIOUS
  <2>1. m \in SUBSET SUBSET Threads
    BY <1>5
  <2>2. PICK M \in m : \A S \in m : S \subseteq M => S = M
    BY <2>1, FiniteAssumption, MinimalSet
  <2>3. M \in SUBSET Threads /\ M \notin D /\ \A t \in M : M \ {t} \in D
    BY <1>5, <2>2
  <2>4. Solvable(D \cup {M})
    BY <1>5, <2>3, OneSetMore
  <2>5. (SUBSET Threads) \ (D \cup {M}) \in P
    BY <2>3, <2>4
  <2>6. /\ (SUBSET Threads) \ (D \cup {M}) \subseteq m
        /\ (SUBSET Threads) \ (D \cup {M}) # m
    BY <1>5, <2>2
  <2> QED
    BY <1>4, <2>5, <2>6
<1>7. D = SUBSET Threads
  BY <1>5, <1>6
<1> QED
  BY <1>5, <1>7 DEF Solvable

LEMMA OrderEquation == InSomeOrder = [S \in SUBSET Threads |-> After(InSomeOrder, S)]
<1>1. \E g : g = [S \in SUBSET Threads |-> After(g, S)]
  BY OrderExists DEF Solves
<1>2. InSomeOrder = CHOOSE g : g = [S \in SUBSET Threads |-> After(g, S)]
  BY DEF InSomeOrder, After
<1> QED
  BY <1>1, <1>2

(* Nobody has executed; one more executes. *)
LEMMA NobodyYet == <<Start, {}>> \in InSomeOrder[{}]
<1>1. InSomeOrder[{}] = After(InSomeOrder, {})
  BY OrderEquation
<1> QED
  BY <1>1 DEF After

LEMMA OneCallMore ==
  ASSUME NEW S \in SUBSET Threads, NEW t \in Threads, t \notin S,
         NEW x, NEW w, <<x, w>> \in InSomeOrder[S]
  PROVE  Alone(t, x, w) \in InSomeOrder[S \cup {t}]
<1>1. (S \cup {t}) \ {t} = S /\ S \cup {t} \in SUBSET Threads /\ S \cup {t} # {}
  OBVIOUS
<1>2. InSomeOrder[S \cup {t}] = After(InSomeOrder, S \cup {t})
  BY <1>1, OrderEquation
<1> DEFINE From(z) == {Alone(z, o[1], o[2]) : o \in InSomeOrder[(S \cup {t}) \ {z}]}
<1>3. Alone(t, x, w) \in From(t)
  <2>1. <<x, w>>[1] = x /\ <<x, w>>[2] = w
    OBVIOUS
  <2> QED
    BY <1>1, <2>1
<1>4. From(t) \in {From(z) : z \in S \cup {t}}
  OBVIOUS
<1>5. InSomeOrder[S \cup {t}] = UNION {From(z) : z \in S \cup {t}}
  BY <1>1, <1>2 DEF After
<1> HIDE DEF From
<1> QED
  BY <1>3, <1>4, <1>5

(* The operations are fixed, and so are the outcomes of their orders. *)
LEMMA SameOrders ==
  ASSUME UNCHANGED call
  PROVE  InSomeOrder' = InSomeOrder
BY SMT DEF InSomeOrder, Alone, Op, Arg, Useless, Scale, Quotient, Remainder

-----------------------------------------------------------------------------
(* The values of the variables. *)
TypeOK == /\ value \in Int
          /\ pc \in [Threads -> {"call", "cas", "arg", "scas", "store", "done"}]
          /\ old \in [Threads -> Int]
          /\ r \in [Threads -> Int]
          /\ won \subseteq Threads
          /\ misled \subseteq Threads
          /\ call \in Choices

(* A swap tries its CAS only with an expected value that it may replace; a  *)
(* call is in the loop of its own operation.                                *)
Loaded == \A t \in Threads :
    /\ pc[t] = "cas" => Op(t) \in Swaps /\ ~ Useless(t, old[t])
    /\ pc[t] \in {"arg", "scas", "store"} => Op(t) \in Scales

(* A misled swap has returned. *)
Misled == \A t \in misled : pc[t] = "done"

Done     == {t \in Threads : pc[t] = "done"}
Effected == {t \in Threads : pc[t] \in {"store", "done"}}

(* The calls that have returned and were not misled. *)
Sane == Done \ misled

(* As long as nobody scales, the calls that have returned and were not      *)
(* misled took effect one after the other, each at its last access to the   *)
(* value.                                                                   *)
Linear == (\A t \in Threads : Op(t) \notin Scales)
            => <<value, won>> \in InSomeOrder[Sane]

(* x is what some calls of E produce, one after the other. *)
Made(x, E) == \E S \in SUBSET E : \E w : <<x, w>> \in InSomeOrder[S]

(* Both the value and the results that wait to be stored are such products. *)
Whole == /\ Made(value, Effected)
         /\ \A t \in Threads : pc[t] \in {"arg", "scas", "store"}
                                 => Made(r[t], Effected \cup {t})

Inv == TypeOK /\ Loaded /\ Misled /\ Linear /\ Whole

(* What the operations of a choice are. *)
LEMMA OpsType ==
  ASSUME call \in Choices, NEW t \in Threads
  PROVE  /\ Op(t) \in {"add", "sub", "swapLower", "swapGreater", "mul", "div", "mod"}
         /\ Arg(t) \in Nat
         /\ Op(t) \in {"div", "mod"} => Arg(t) > 0
BY ChoicesAssumption DEF Op, Arg, Builtins, Swaps, Scales

LEMMA QuotientType ==
  ASSUME NEW x \in Int, NEW v \in Nat, v > 0
  PROVE  Quotient(x, v) \in Int /\ Remainder(x, v) \in Int
<1>1. Quotient(x, v) \in Int
  BY DEF Quotient
<1> QED
  BY <1>1 DEF Remainder

LEMMA ScaleType ==
  ASSUME call \in Choices, NEW t \in Threads, Op(t) \in Scales, NEW x \in Int
  PROVE  Scale(t, x) \in Int
<1>1. CASE Op(t) = "mul"
  BY <1>1, OpsType DEF Scale
<1>2. CASE Op(t) = "div"
  BY <1>2, OpsType, QuotientType DEF Scale
<1>3. CASE Op(t) = "mod"
  BY <1>3, OpsType, QuotientType DEF Scale
<1> QED
  BY <1>1, <1>2, <1>3 DEF Scales

(* What an int holds of a value, and that it holds all of one that fits. *)
LEMMA IntType ==
  ASSUME NEW x \in Int
  PROVE  ToInt(x) \in Int /\ (InInt(x) => ToInt(x) = x)
<1>1. IntHalf \in Nat /\ IntHalf > 0
  BY IntAssumption
<1>2. ToInt(x) \in Int
  BY <1>1 DEF ToInt
<1>3. ASSUME InInt(x) PROVE (x + IntHalf) % (2 * IntHalf) = x + IntHalf
  <2>1. x + IntHalf \in 0..(2 * IntHalf - 1)
    BY <1>1, <1>3 DEF InInt
  <2> QED
    BY <1>1, <2>1
<1> QED
  BY <1>1, <1>2, <1>3 DEF ToInt

(* What a call does alone, by kind of operation. *)
LEMMA AloneKinds ==
  ASSUME NEW t, NEW x, NEW w
  PROVE  /\ Op(t) = "add" => Alone(t, x, w) = <<x + Arg(t), w>>
         /\ Op(t) = "sub" => Alone(t, x, w) = <<x - Arg(t), w>>
         /\ Op(t) \in Swaps /\ Useless(t, x) => Alone(t, x, w) = <<x, w>>
         /\ Op(t) \in Swaps /\ ~ Useless(t, x) => Alone(t, x, w) = <<Arg(t), w \cup {t}>>
         /\ Op(t) \in Scales => Alone(t, x, w) = <<Scale(t, x), w>>
BY DEF Alone, Swaps, Scales

(* A product stays one when more calls may have made it, and a call that    *)
(* did not take part makes another one of it.                               *)
LEMMA MadeMore ==
  ASSUME NEW x, NEW E, NEW F, E \subseteq F, Made(x, E)
  PROVE  Made(x, F)
BY DEF Made

LEMMA MadeBy ==
  ASSUME NEW x, NEW E \in SUBSET Threads, Made(x, E), NEW t \in Threads, t \notin E
  PROVE  \E S \in SUBSET (E \cup {t}) : \E w : Alone(t, x, w) \in InSomeOrder[S]
<1>0. PICK S \in SUBSET E : \E w : <<x, w>> \in InSomeOrder[S]
  BY DEF Made
<1>1. PICK w : <<x, w>> \in InSomeOrder[S]
  BY <1>0
<1>2. Alone(t, x, w) \in InSomeOrder[S \cup {t}]
  BY <1>1, OneCallMore
<1>3. S \cup {t} \in SUBSET (E \cup {t})
  OBVIOUS
<1> QED
  BY <1>2, <1>3

LEMMA InitInv == Init => Inv
<1> SUFFICES ASSUME Init PROVE Inv
  OBVIOUS
<1>1. TypeOK
  BY ChoicesAssumption DEF Init, TypeOK
<1>2. Loaded
  BY DEF Init, Loaded
<1>3. Sane = {} /\ Effected = {}
  BY DEF Init, Done, Sane, Effected
<1>4. Linear /\ Misled
  BY <1>3, NobodyYet DEF Init, Linear, Misled
<1>5. Whole
  BY <1>3, NobodyYet DEF Init, Whole, Made
<1> QED
  BY <1>1, <1>2, <1>4, <1>5 DEF Inv

LEMMA StepType ==
  ASSUME TypeOK, Loaded, NEW t \in Threads, Step(t)
  PROVE  TypeOK'
<1>0. Arg(t) \in Nat
  BY OpsType DEF TypeOK
<1>1. CASE Fetch(t)
  BY <1>0, <1>1 DEF TypeOK, Fetch, Goto
<1>2. CASE SwapLoad(t)
  <2>1. ToInt(value) \in Int
    BY IntType DEF TypeOK
  <2> QED
    BY <1>2, <2>1 DEF TypeOK, SwapLoad, Goto
<1>3. CASE SwapCAS(t)
  BY <1>0, <1>3 DEF TypeOK, SwapCAS, Goto
<1>4. CASE ScaleLoad(t)
  <2>1. Scale(t, value) \in Int
    BY <1>4, ScaleType DEF TypeOK, ScaleLoad
  <2> QED
    BY <1>4, <2>1 DEF TypeOK, ScaleLoad, Goto
<1>5. CASE ScaleArg(t) \/ ScaleCAS(t) \/ ScaleStore(t)
  BY <1>5 DEF TypeOK, ScaleArg, ScaleCAS, ScaleStore, Goto
<1> QED
  BY <1>1, <1>2, <1>3, <1>4, <1>5 DEF Step

LEMMA StepLoaded ==
  ASSUME TypeOK, Loaded, Misled, NEW t \in Threads, Step(t)
  PROVE  Loaded' /\ Misled'
<1> USE DEF TypeOK, Loaded, Misled, Goto, Op, Arg, Useless
<1>1. CASE Fetch(t) \/ SwapCAS(t) \/ ScaleLoad(t)
  BY <1>1 DEF Fetch, SwapCAS, ScaleLoad
<1>2. CASE SwapLoad(t)
  BY <1>2 DEF SwapLoad
<1>3. CASE ScaleArg(t) \/ ScaleCAS(t) \/ ScaleStore(t)
  BY <1>3 DEF ScaleArg, ScaleCAS, ScaleStore
<1> QED
  BY <1>1, <1>2, <1>3 DEF Step

(* A call that returns takes effect on the value that it finds: that of the *)
(* load when a swap is useless, that of the CAS when it is not.  A misled   *)
(* swap has none.                                                           *)
LEMMA StepLinear ==
  ASSUME TypeOK, Loaded, Misled, Linear, NEW t \in Threads, Step(t),
         \A u \in Threads : Op(u) \notin Scales
  PROVE  <<value, won>>' \in InSomeOrder[Sane']
<1>0. <<value, won>> \in InSomeOrder[Sane] /\ Sane \in SUBSET Threads
  BY DEF Linear, Done, Sane
<1>1. ASSUME NEW y, NEW v, Alone(t, value, won) = <<y, v>>,
             t \notin Sane, Sane' = Sane \cup {t}, value' = y, won' = v
      PROVE  <<value, won>>' \in InSomeOrder[Sane']
  <2>1. Alone(t, value, won) \in InSomeOrder[Sane \cup {t}]
    BY <1>0, <1>1, OneCallMore
  <2> QED
    BY <1>1, <2>1
<1>2. CASE Fetch(t)
  <2>1. t \notin Sane /\ Sane' = Sane \cup {t}
    BY <1>2 DEF TypeOK, Fetch, Goto, Sane, Done, Misled
  <2>2. CASE Op(t) = "add"
    <3>1. Alone(t, value, won) = <<value + Arg(t), won>>
      BY <2>2, AloneKinds
    <3>2. value' = value + Arg(t) /\ won' = won
      BY <1>2, <2>2 DEF Fetch
    <3> QED
      BY <1>1, <2>1, <3>1, <3>2
  <2>3. CASE Op(t) = "sub"
    <3>1. Alone(t, value, won) = <<value - Arg(t), won>>
      BY <2>3, AloneKinds
    <3>2. value' = value - Arg(t) /\ won' = won
      BY <1>2, <2>3 DEF Fetch
    <3> QED
      BY <1>1, <2>1, <3>1, <3>2
  <2> QED
    BY <1>2, <2>2, <2>3 DEF Fetch, Builtins
<1>3. CASE SwapLoad(t)
  <2>0. pc[t] = "call" /\ t \notin Done /\ t \notin misled
    BY <1>3 DEF SwapLoad, Done, Misled
  <2>1. CASE Useless(t, ToInt(value)) /\ Useless(t, value)
    <3>1. t \notin Sane /\ Sane' = Sane \cup {t}
      BY <1>3, <2>0, <2>1 DEF TypeOK, SwapLoad, Goto, Done, Sane
    <3>2. Alone(t, value, won) = <<value, won>>
      BY <1>3, <2>1, AloneKinds DEF SwapLoad
    <3> QED
      BY <1>1, <1>3, <3>1, <3>2 DEF SwapLoad
  <2>2. CASE Useless(t, ToInt(value)) /\ ~ Useless(t, value)
    <3>1. Done' = Done \cup {t} /\ misled' = misled \cup {t}
      BY <1>3, <2>0, <2>2 DEF TypeOK, SwapLoad, Goto, Done
    <3>2. Sane' = Sane
      BY <2>0, <3>1 DEF Sane
    <3> QED
      BY <1>0, <1>3, <3>2 DEF SwapLoad
  <2>3. CASE ~ Useless(t, ToInt(value))
    <3>1. Done' = Done /\ misled' = misled
      BY <1>3, <2>3 DEF TypeOK, SwapLoad, Goto, Done
    <3>2. Sane' = Sane
      BY <3>1 DEF Sane
    <3> QED
      BY <1>0, <1>3, <3>2 DEF SwapLoad
  <2> QED
    BY <2>1, <2>2, <2>3
<1>4. CASE SwapCAS(t)
  <2>1. CASE value = old[t] /\ value' = Arg(t) /\ won' = won \cup {t} /\ Goto(t, "done")
    <3>1. t \notin Sane /\ Sane' = Sane \cup {t}
      BY <1>4, <2>1 DEF TypeOK, SwapCAS, Goto, Sane, Done, Misled
    <3>2. Alone(t, value, won) = <<Arg(t), won \cup {t}>>
      BY <1>4, <2>1, AloneKinds DEF SwapCAS, Loaded
    <3> QED
      BY <1>1, <2>1, <3>1, <3>2
  <2>2. CASE Goto(t, "call") /\ UNCHANGED <<value, won>>
    <3>1. Sane' = Sane
      BY <1>4, <2>2 DEF TypeOK, SwapCAS, Goto, Sane, Done, Misled
    <3> QED
      BY <1>0, <2>2, <3>1
  <2> QED
    BY <1>4, <2>1, <2>2 DEF SwapCAS
<1> QED
  BY <1>2, <1>3, <1>4 DEF Step, Loaded, ScaleLoad, ScaleArg, ScaleCAS, ScaleStore

(* A lost update loses all that a call did, or all that it did not see.     *)
LEMMA StepWhole ==
  ASSUME TypeOK, Loaded, Whole, NEW t \in Threads, Step(t)
  PROVE  Whole'
<1> DEFINE Keeps(u) == pc'[u] \in {"arg", "scas", "store"} => Made(r'[u], Effected' \cup {u})
<1>0. Effected \in SUBSET Threads /\ UNCHANGED call
  BY DEF Effected, Step, Fetch, SwapLoad, SwapCAS, ScaleLoad, ScaleArg, ScaleCAS, ScaleStore
<1>1. SUFFICES Made(value', Effected') /\ \A u \in Threads : Keeps(u)
  <2>1. InSomeOrder' = InSomeOrder
    BY <1>0, SameOrders
  <2> QED
    BY <2>1 DEF Whole, Made
<1>2. Effected \subseteq Effected'
  BY DEF TypeOK, Effected, Step, Fetch, SwapLoad, SwapCAS, ScaleLoad, ScaleArg, ScaleCAS,
         ScaleStore, Goto
<1>3. ASSUME NEW u \in Threads, u # t PROVE Keeps(u)
  <2>1. pc'[u] = pc[u] /\ r'[u] = r[u]
    BY <1>3 DEF TypeOK, Step, Fetch, SwapLoad, SwapCAS, ScaleLoad, ScaleArg, ScaleCAS,
                ScaleStore, Goto
  <2>2. Effected \cup {u} \subseteq Effected' \cup {u}
    BY <1>2
  <2> QED
    BY <2>1, <2>2, MadeMore DEF Whole
<1>4. ASSUME value' = value PROVE Made(value', Effected')
  BY <1>2, <1>4, MadeMore DEF Whole
<1>5. ASSUME NEW y, t \notin Effected, \A w : \E v : Alone(t, value, w) = <<y, v>>
      PROVE  Made(y, Effected \cup {t})
  <2>1. PICK S \in SUBSET (Effected \cup {t}) : \E w : Alone(t, value, w) \in InSomeOrder[S]
    BY <1>0, <1>5, MadeBy DEF Whole
  <2>2. PICK w : Alone(t, value, w) \in InSomeOrder[S]
    BY <2>1
  <2> QED
    BY <1>5, <2>2 DEF Made
<1>6. CASE Fetch(t)
  <2>1. t \notin Effected /\ Effected' = Effected \cup {t} /\ Keeps(t)
    BY <1>6 DEF TypeOK, Fetch, Goto, Effected
  <2>2. \A w : \E v : Alone(t, value, w) = <<value', v>>
    <3>1. CASE Op(t) = "add"
      BY <1>6, <3>1, AloneKinds DEF Fetch
    <3>2. CASE Op(t) = "sub"
      <4>1. value' = value - Arg(t)
        BY <1>6, <3>2 DEF Fetch
      <4> QED
        BY <3>2, <4>1, AloneKinds
    <3> QED
      BY <1>6, <3>1, <3>2 DEF Fetch, Builtins
  <2>3. Made(value', Effected')
    BY <1>5, <2>1, <2>2
  <2> QED
    BY <1>3, <2>1, <2>3
<1>7. CASE SwapLoad(t)
  BY <1>3, <1>4, <1>7 DEF TypeOK, SwapLoad, Goto
<1>8. CASE SwapCAS(t)
  <2>1. Keeps(t)
    BY <1>8 DEF TypeOK, SwapCAS, Goto
  <2>2. CASE value = old[t] /\ value' = Arg(t) /\ Goto(t, "done")
    <3>1. t \notin Effected /\ Effected' = Effected \cup {t}
      BY <1>8, <2>2 DEF TypeOK, SwapCAS, Goto, Effected
    <3>2. Op(t) \in Swaps /\ ~ Useless(t, value)
      BY <1>8, <2>2 DEF SwapCAS, Loaded
    <3>3. \A w : \E v : Alone(t, value, w) = <<value', v>>
      BY <2>2, <3>2, AloneKinds
    <3>4. Made(value', Effected')
      BY <1>5, <3>1, <3>3
    <3> QED
      BY <1>3, <2>1, <3>4
  <2> QED
    BY <1>3, <1>4, <1>8, <2>1, <2>2 DEF SwapCAS
<1>9. CASE ScaleLoad(t)
  <2>1. t \notin Effected /\ r'[t] = Scale(t, value) /\ value' = value
    BY <1>9 DEF TypeOK, ScaleLoad, Goto, Effected
  <2>2. \A w : Alone(t, value, w) = <<r'[t], w>>
    BY <1>9, <2>1, AloneKinds DEF ScaleLoad
  <2>3. Made(r'[t], Effected \cup {t})
    BY <1>5, <2>1, <2>2
  <2>4. Made(r'[t], Effected' \cup {t})
    <3>1. Effected \cup {t} \subseteq Effected' \cup {t}
      BY <1>2
    <3> QED
      BY <2>3, <3>1, MadeMore
  <2> QED
    BY <1>3, <1>4, <2>1, <2>4
<1>10. CASE ScaleArg(t) \/ ScaleCAS(t) \/ ScaleStore(t)
  <2>1. Made(r[t], Effected \cup {t}) /\ r' = r
    BY <1>10 DEF Whole, ScaleArg, ScaleCAS, ScaleStore
  <2>2. Effected \cup {t} \subseteq Effected' \cup {t}
    BY <1>2
  <2>3. Keeps(t)
    BY <2>1, <2>2, MadeMore
  <2>4. ASSUME value' = r[t], t \in Effected' PROVE Made(value', Effected')
    <3>1. Effected \cup {t} \subseteq Effected'
      BY <1>2, <2>4
    <3> QED
      BY <2>1, <2>4, <3>1, MadeMore
  <2>5. value' = value \/ (value' = r[t] /\ t \in Effected')
    BY <1>10 DEF TypeOK, ScaleArg, ScaleCAS, ScaleStore, Goto, Effected
  <2> QED
    BY <1>3, <1>4, <2>3, <2>4, <2>5
<1> QED
  BY <1>6, <1>7, <1>8, <1>9, <1>10 DEF Step

LEMMA NextInv == Inv /\ [Next]_vars => Inv'
<1> SUFFICES ASSUME Inv, [Next]_vars PROVE Inv'
  OBVIOUS
<1>1. ASSUME NEW t \in Threads, Step(t) PROVE Inv'
  <2>1. TypeOK' /\ Loaded' /\ Misled' /\ Whole'
    BY <1>1, StepType, StepLoaded, StepWhole DEF Inv
  <2>2. UNCHANGED call
    BY <1>1 DEF Step, Fetch, SwapLoad, SwapCAS, ScaleLoad, ScaleArg, ScaleCAS, ScaleStore
  <2>3. Linear'
    <3> SUFFICES ASSUME (\A u \in Threads : Op(u) \notin Scales)'
                 PROVE  (<<value, won>> \in InSomeOrder[Sane])'
      BY DEF Linear
    <3>1. \A u \in Threads : Op(u) \notin Scales
      BY <2>2 DEF Op
    <3>2. <<value, won>>' \in InSomeOrder[Sane']
      BY <1>1, <3>1, StepLinear DEF Inv
    <3> QED
      BY <2>2, <3>2, SameOrders
  <2> QED
    BY <2>1, <2>3 DEF Inv
<1>2. CASE UNCHANGED vars
  <2>1. UNCHANGED <<value, pc, old, r, won, misled>> /\ UNCHANGED call /\ InSomeOrder' = InSomeOrder
    BY <1>2, SameOrders DEF vars
  <2>2. TypeOK' /\ Loaded' /\ Misled'
    BY <2>1 DEF Inv, TypeOK, Loaded, Misled, Op, Arg, Useless
  <2>3. Sane' = Sane /\ Effected' = Effected
    BY <2>1 DEF Done, Sane, Effected
  <2>4. Linear'
    BY <2>1, <2>3 DEF Inv, Linear, Op
  <2>5. Whole'
    BY <2>1, <2>3 DEF Inv, Whole, Made
  <2> QED
    BY <2>2, <2>4, <2>5 DEF Inv
<1> QED
  BY <1>1, <1>2 DEF Next

-----------------------------------------------------------------------------
(* The inductive invariant holds for every number of threads and whatever   *)
(* operations they execute.                                                 *)
THEOREM InvCorrect == Spec => []Inv
<1> QED
  BY InitInv, NextInv, PTL DEF Spec

(* swapLower and swapGreater, which load and then compare-and-swap in a     *)
(* loop, are linearizable together with add and sub, but for the swaps that *)
(* the narrowing to int misled, which do nothing: the final value and the   *)
(* results of the swaps are those of some order of the other calls.         *)
THEOREM SwapsLinearizableHolds == Spec => []SwapsLinearizable
<1>1. Inv => SwapsLinearizable
  <2> SUFFICES ASSUME Inv, \A t \in Threads : Op(t) \notin Scales, Finished
               PROVE  <<value, won>> \in InSomeOrder[Threads \ misled]
    BY DEF SwapsLinearizable, ExplainedBy
  <2>1. Done = Threads
    BY DEF Done, Finished
  <2> QED
    BY <2>1 DEF Inv, Linear, Sane
<1> QED
  BY <1>1, InvCorrect, PTL

(* Without *=, /= and %= all the calls are linearizable. *)
Fits       == InInt(value)
NoneMisled == misled = {}
AllLinearizable == (\A t \in Threads : Op(t) \notin Scales) /\ Finished => ExplainedBy(Threads)

(* Nobody is misled as long as the value fits an int, as it always does     *)
(* when T is no wider: then all the calls are linearizable.                 *)
THEOREM LinearizableInInt == Spec /\ []Fits => []AllLinearizable
<1>1. Init => NoneMisled
  BY DEF Init, NoneMisled
<1>2. Inv /\ Fits /\ NoneMisled /\ [Next]_vars => NoneMisled'
  <2> SUFFICES ASSUME Inv, Fits, misled = {}, [Next]_vars PROVE misled' = {}
    BY DEF NoneMisled
  <2>1. ASSUME NEW t \in Threads, SwapLoad(t) PROVE misled' = {}
    <3>1. ToInt(value) = value
      BY IntType DEF Inv, TypeOK, Fits
    <3> QED
      BY <2>1, <3>1 DEF SwapLoad
  <2> QED
    BY <2>1 DEF Next, vars, Step, Fetch, SwapCAS, ScaleLoad, ScaleArg, ScaleCAS, ScaleStore
<1>3. NoneMisled /\ SwapsLinearizable => AllLinearizable
  <2>1. Threads \ {} = Threads
    OBVIOUS
  <2> QED
    BY <2>1 DEF SwapsLinearizable, AllLinearizable, NoneMisled
<1> QED
  BY <1>1, <1>2, <1>3, InvCorrect, SwapsLinearizableHolds, PTL DEF Spec

(* *=, /= and %= may lose updates, their own or those of others, but never  *)
(* a part of one: the value is always what some of the calls produce.       *)
THEOREM OnlyWholeCallsHolds == Spec => []OnlyWholeCalls
<1>1. Inv => OnlyWholeCalls
  <2> SUFFICES ASSUME Inv PROVE OnlyWholeCalls
    OBVIOUS
  <2>0. PICK S \in SUBSET Effected : \E w : <<value, w>> \in InSomeOrder[S]
    BY DEF Inv, Whole, Made
  <2>1. PICK w : <<value, w>> \in InSomeOrder[S]
    BY <2>0
  <2>2. S \in SUBSET Threads /\ <<value, w>>[1] = value
    BY DEF Effected
  <2> QED
    BY <2>1, <2>2 DEF OnlyWholeCalls
<1> QED
  BY <1>1, InvCorrect, PTL
=============================================================================
