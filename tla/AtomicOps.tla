----------------------------- MODULE AtomicOps -----------------------------
(***************************************************************************)
(* uniq::Atomic<T> of cpp/lib/Atomic.h, used by one call of every thread.   *)
(* An operation that is one __atomic builtin is one step.  swapLower and    *)
(* swapGreater load and then compare-and-swap in a loop; *=, /= and %= load *)
(* value for the result, load it again for the expected value, compare and  *)
(* swap in a loop, and then store the result once more.                     *)
(*                                                                         *)
(* T is taken wide enough for the values that the calls produce.  The swaps *)
(* keep what they load in an int, whatever T is: a wider value is narrowed. *)
(***************************************************************************)
EXTENDS Integers, FiniteSets

CONSTANTS Threads,
          Choices, \* choices of the operation [op, v] of every thread
          Start,   \* the initial value
          IntHalf  \* int is -IntHalf..IntHalf-1

Builtins == {"add", "sub"}
Swaps    == {"swapLower", "swapGreater"}
Scales   == {"mul", "div", "mod"}

ASSUME ChoicesAssumption ==
    /\ Start \in Nat
    /\ \A c \in Choices : \A t \in Threads :
          /\ c[t].op \in Builtins \cup Swaps \cup Scales
          /\ c[t].v \in Nat
          /\ c[t].op \in {"div", "mod"} => c[t].v # 0
ASSUME IntAssumption == IntHalf \in Nat \ {0}
ASSUME FiniteAssumption == IsFiniteSet(Threads)

VARIABLES value,  \* Atomic::value
          pc,     \* pc[t]: where t is
          old,    \* old[t]: the expected value of t's CAS
          r,      \* r[t]: the result that *=, /=, %= want to store
          won,    \* the threads whose swap returned 1
          misled, \* history: the threads whose swap returned 0 for what the
                  \* conversion to int made of a value that it had to replace
          call    \* call[t]: the operation that t executes, chosen at the start

vars == <<value, pc, old, r, won, misled, call>>

Op(t)  == call[t].op
Arg(t) == call[t].v

Init == /\ value = Start
        /\ pc = [t \in Threads |-> "call"]
        /\ old = [t \in Threads |-> 0]
        /\ r = [t \in Threads |-> 0]
        /\ won = {}
        /\ misled = {}
        /\ call \in Choices

Goto(t, label) == pc' = [pc EXCEPT ![t] = label]

(* add, sub, +=, -=, ++, --: one fetch-and-add or fetch-and-sub *)
Fetch(t) == /\ pc[t] = "call"
            /\ Op(t) \in Builtins
            /\ value' = IF Op(t) = "add" THEN value + Arg(t) ELSE value - Arg(t)
            /\ Goto(t, "done")
            /\ UNCHANGED <<old, r, won, misled, call>>

-----------------------------------------------------------------------------
(* swapLower, swapGreater *)

InInt(x) == x \in (-IntHalf)..(IntHalf - 1)

(* the value that `int old' gets *)
ToInt(x) == ((x + IntHalf) % (2 * IntHalf)) - IntHalf

(* if (old <= v) return 0, and the other way round *)
Useless(t, x) == IF Op(t) = "swapLower" THEN x <= Arg(t) ELSE x >= Arg(t)

(* int old; old = value; and the test, of old *)
SwapLoad(t) == /\ pc[t] = "call"
               /\ Op(t) \in Swaps
               /\ old' = [old EXCEPT ![t] = ToInt(value)]
               /\ Goto(t, IF Useless(t, ToInt(value)) THEN "done" ELSE "cas")
               /\ misled' = IF Useless(t, ToInt(value)) /\ ~Useless(t, value)
                            THEN misled \cup {t} ELSE misled
               /\ UNCHANGED <<value, r, won, call>>

(* Mutant of SwapCAS: the new value is stored without a comparison. *)
SwapCASPlain(t) == /\ pc[t] = "cas"
                   /\ value' = Arg(t)
                   /\ won' = won \cup {t}
                   /\ Goto(t, "done")
                   /\ UNCHANGED <<old, r, misled, call>>

(* Mutant of SwapCAS: it compares what an int holds of the value. *)
SwapCASNarrow(t) == /\ pc[t] = "cas"
                    /\ \/ /\ ToInt(value) = old[t]
                          /\ value' = Arg(t)
                          /\ won' = won \cup {t}
                          /\ Goto(t, "done")
                       \/ /\ ToInt(value) # old[t]
                          /\ Goto(t, "call")
                          /\ UNCHANGED <<value, won>>
                    /\ UNCHANGED <<old, r, misled, call>>

(* Mutant of SwapCAS: a failed CAS is repeated without a new load. *)
SwapCASStale(t) == /\ pc[t] = "cas"
                   /\ value = old[t]
                   /\ value' = Arg(t)
                   /\ won' = won \cup {t}
                   /\ Goto(t, "done")
                   /\ UNCHANGED <<old, r, misled, call>>

(* while (!CAS(old, v)); return 1.  The CAS compares the whole value. *)
SwapCAS(t) == /\ pc[t] = "cas"
              /\ \/ /\ value = old[t]
                    /\ value' = Arg(t)
                    /\ won' = won \cup {t}
                    /\ Goto(t, "done")
                 \/ /\ value # old[t]
                    /\ Goto(t, "call")
                    /\ UNCHANGED <<value, won>>
              /\ UNCHANGED <<old, r, misled, call>>

-----------------------------------------------------------------------------
(* *=, /=, %= *)

(* x / v and x % v: the quotient is rounded towards 0 *)
Quotient(x, v)  == IF x >= 0 THEN x \div v ELSE -((-x) \div v)
Remainder(x, v) == x - v * Quotient(x, v)

Scale(t, x) == CASE Op(t) = "mul" -> x * Arg(t)
                 [] Op(t) = "div" -> Quotient(x, Arg(t))
                 [] Op(t) = "mod" -> Remainder(x, Arg(t))

(* Mutant of ScaleLoad: a second attempt starts from the result of the first. *)
ScaleLoadAgain(t) == /\ pc[t] = "call"
                     /\ Op(t) \in Scales
                     /\ r' = [r EXCEPT ![t] = Scale(t, IF r[t] = 0 THEN value ELSE r[t])]
                     /\ Goto(t, "arg")
                     /\ UNCHANGED <<value, old, won, misled, call>>

(* r = value op v *)
ScaleLoad(t) == /\ pc[t] = "call"
                /\ Op(t) \in Scales
                /\ r' = [r EXCEPT ![t] = Scale(t, value)]
                /\ Goto(t, "arg")
                /\ UNCHANGED <<value, old, won, misled, call>>

(* the first argument of CAS(value, r) *)
ScaleArg(t) == /\ pc[t] = "arg"
               /\ old' = [old EXCEPT ![t] = value]
               /\ Goto(t, "scas")
               /\ UNCHANGED <<value, r, won, misled, call>>

(* while (!CAS(value, r)) *)
ScaleCAS(t) == /\ pc[t] = "scas"
               /\ \/ /\ value = old[t]
                     /\ value' = r[t]
                     /\ Goto(t, "store")
                  \/ /\ value # old[t]
                     /\ Goto(t, "call")
                     /\ UNCHANGED value
               /\ UNCHANGED <<old, r, won, misled, call>>

(* value = r *)
ScaleStore(t) == /\ pc[t] = "store"
                 /\ value' = r[t]
                 /\ Goto(t, "done")
                 /\ UNCHANGED <<old, r, won, misled, call>>

Finished == \A t \in Threads : pc[t] = "done"

Step(t) == \/ Fetch(t) \/ SwapLoad(t) \/ SwapCAS(t)
           \/ ScaleLoad(t) \/ ScaleArg(t) \/ ScaleCAS(t) \/ ScaleStore(t)

Next == \/ \E t \in Threads : Step(t)
        \/ Finished /\ UNCHANGED vars

Spec == Init /\ [][Next]_vars /\ \A t \in Threads : WF_vars(Step(t))

-----------------------------------------------------------------------------
(* The reference: what calls do when each executes alone *)

(* the value and the winners after t executes on the value x *)
Alone(t, x, w) ==
    CASE Op(t) = "add" -> <<x + Arg(t), w>>
      [] Op(t) = "sub" -> <<x - Arg(t), w>>
      [] Op(t) \in Swaps -> IF Useless(t, x) THEN <<x, w>> ELSE <<Arg(t), w \cup {t}>>
      [] Op(t) \in Scales -> <<Scale(t, x), w>>

(* every outcome of executing all the calls of S, one after the other *)
InSomeOrder[S \in SUBSET Threads] ==
    IF S = {} THEN {<<Start, {}>>}
    ELSE UNION {{Alone(t, o[1], o[2]) : o \in InSomeOrder[S \ {t}]} : t \in S}

(* The final value, and which swaps returned 1, are those of the calls of S *)
(* executed one after the other in some order.                              *)
ExplainedBy(S) == <<value, won>> \in InSomeOrder[S]

(* When nobody uses *=, /= or %=, every call takes effect at one instant,   *)
(* although swapLower and swapGreater act on a value they read earlier;     *)
(* only a swap that is misled by the narrowing returns 0 with no effect.    *)
SwapsLinearizable == (\A t \in Threads : Op(t) \notin Scales) /\ Finished =>
                       ExplainedBy(Threads \ misled)

(* What *=, /= and %= can lose is whole calls: the value is always one that *)
(* some of the calls produce, executed one after the other.                 *)
OnlyWholeCalls == \E S \in SUBSET Threads : \E o \in InSomeOrder[S] : o[1] = value

(* Every call returns, since a CAS only fails because another one           *)
(* succeeded: a swap too, unless the value ends up too wide for its int,    *)
(* which then is never what the CAS finds.                                  *)
AllReturn == /\ \A t \in Threads : <>(Op(t) \in Swaps \/ pc[t] = "done")
             /\ <>[]InInt(value) => <>Finished
=============================================================================
