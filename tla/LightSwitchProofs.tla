-------------------------- MODULE LightSwitchProofs -------------------------
(***************************************************************************)
(* Proofs about LightSwitch for every number of visitors, lockers and       *)
(* visits, in a program with one light switch.  With two, which share the   *)
(* unit's Count, both properties fail.                                      *)
(***************************************************************************)
EXTENDS LightSwitch, FiniteSetTheorems, TLAPS

(* The values of the variables. *)
TypeOK == /\ permit \in [Switches -> {0, 1}]
          /\ Count \in Int
          /\ pc \in [Threads -> {"out", "first", "in", "last", "alone"}]
          /\ \A t \in Visitors : pc[t] # "alone"
          /\ \A t \in Lockers : pc[t] \in {"out", "alone"}
          /\ room \in [Threads -> Switches]
          /\ left \in [Threads -> Nat]

At(T, label) == {t \in T : pc[t] = label}

(* The visitors that Count counts: inside, or waiting for the permit. *)
Counted == At(Visitors, "first") \cup At(Visitors, "in")

Single(S) == \A x, y \in S : x = y

(* Who has taken the permit and has not given it back: a locker, the last   *)
(* visitor of a group that is about to signal, or the group inside, from    *)
(* the moment its first visitor is not waiting any more.                    *)
LockerHas == At(Lockers, "alone") # {}
LastHas   == At(Visitors, "last") # {}
GroupHas  == At(Visitors, "in") # {} /\ At(Visitors, "first") = {}

(* The permit is out exactly when one of the three has it, and never two of *)
(* them have.                                                               *)
PermitHeld == /\ \A s \in Switches : permit[s] = 0 <=> LockerHas \/ LastHas \/ GroupHas
              /\ ~ (LockerHas /\ LastHas)
              /\ ~ (LockerHas /\ GroupHas)
              /\ ~ (LastHas /\ GroupHas)

Inv == /\ TypeOK
       /\ Count = Cardinality(Counted)
       /\ Single(At(Visitors, "first"))
       /\ Single(At(Visitors, "last"))
       /\ Single(At(Lockers, "alone"))
       /\ PermitHeld

-----------------------------------------------------------------------------
(* The visitors that Count counts are finitely many. *)
LEMMA CountedFinite == IsFiniteSet(Counted) /\ Cardinality(Counted) \in Nat
<1>1. Counted \subseteq Visitors
  BY DEF Counted, At
<1> QED
  BY <1>1, FiniteAssumption, FS_Subset, FS_CardinalityType

LEMMA InitInv == Init => Inv
<1> SUFFICES ASSUME Init PROVE Inv
  OBVIOUS
<1>1. TypeOK
  BY VisitsAssumption, RolesAssumption DEF Init, TypeOK, Threads
<1>2. /\ At(Visitors, "first") = {} /\ At(Visitors, "in") = {}
      /\ At(Visitors, "last") = {} /\ At(Lockers, "alone") = {}
  BY DEF Init, At, Threads
<1>3. Counted = {}
  BY <1>2 DEF Counted
<1>4. Count = Cardinality(Counted)
  BY <1>3, FS_EmptySet DEF Init
<1>5. PermitHeld
  BY <1>2 DEF PermitHeld, LockerHas, LastHas, GroupHas, Init
<1> QED
  BY <1>1, <1>2, <1>4, <1>5 DEF Inv, Single

(* The first visitor of a group sees Count = 1; a later one walks in. *)
LEMMA EnterStep ==
  ASSUME NEW s, Switches = {s}, Inv, NEW t \in Visitors, Enter(t)
  PROVE  Inv'
<1> USE RolesAssumption DEF Threads
<1>0. /\ t \notin Counted /\ t \in Threads /\ pc[t] = "out"
      /\ Count \in Int /\ Count' = Count + 1
  BY DEF Inv, TypeOK, Enter, Start, Counted, At
<1>1. TypeOK'
  BY DEF Inv, TypeOK, Enter, Start, Goto
<1>2. /\ At(Visitors, "last")' = At(Visitors, "last")
      /\ At(Lockers, "alone")' = At(Lockers, "alone")
  BY DEF Inv, TypeOK, Enter, Start, Goto, At
<1>3. Counted' = Counted \cup {t}
  BY DEF Inv, TypeOK, Enter, Start, Goto, Counted, At
<1>4. Count' = Cardinality(Counted')
  BY <1>0, <1>3, CountedFinite, FS_AddElement DEF Inv
<1>5. CASE Count = 0
  <2>1. Counted = {}
    BY <1>5, CountedFinite, FS_EmptySet DEF Inv
  <2>2. At(Visitors, "first")' = {t} /\ At(Visitors, "in")' = {}
    BY <1>5, <2>1 DEF Inv, TypeOK, Enter, Start, Goto, Counted, At
  <2>3. PermitHeld'
    BY <1>2, <2>1, <2>2 DEF Inv, PermitHeld, LockerHas, LastHas, GroupHas, Counted, Enter
  <2> QED
    BY <1>1, <1>2, <1>4, <2>2, <2>3 DEF Inv, Single
<1>6. CASE Count # 0
  <2>1. Counted # {}
    BY <1>6, FS_EmptySet DEF Inv
  <2>2. /\ At(Visitors, "first")' = At(Visitors, "first")
        /\ At(Visitors, "in")' = At(Visitors, "in") \cup {t}
    BY <1>0, <1>6 DEF Inv, TypeOK, Enter, Start, Goto, At
  <2>3. GroupHas' <=> GroupHas
    BY <2>1, <2>2 DEF GroupHas, Counted
  <2>4. PermitHeld'
    BY <1>2, <2>3 DEF Inv, PermitHeld, LockerHas, LastHas, Enter
  <2> QED
    BY <1>1, <1>2, <1>4, <2>2, <2>4 DEF Inv, Single
<1> QED
  BY <1>5, <1>6

(* The first visitor takes the permit, for the group. *)
LEMMA EnterWaitStep ==
  ASSUME NEW s, Switches = {s}, Inv, NEW t \in Visitors, EnterWait(t)
  PROVE  Inv'
<1> USE RolesAssumption DEF Threads
<1>1. /\ room[t] = s /\ permit[s] = 1 /\ permit' \in [Switches -> {0, 1}]
      /\ permit'[s] = 0
  BY DEF Inv, TypeOK, EnterWait, Wait
<1>2. TypeOK'
  BY <1>1 DEF Inv, TypeOK, EnterWait, Goto
<1>3. /\ At(Visitors, "last")' = At(Visitors, "last")
      /\ At(Lockers, "alone")' = At(Lockers, "alone")
      /\ Counted' = Counted
  BY DEF Inv, TypeOK, EnterWait, Goto, Counted, At
<1>4. At(Visitors, "first")' = {} /\ t \in At(Visitors, "in")'
  BY DEF Inv, TypeOK, EnterWait, Goto, Single, At
<1>5. PermitHeld'
  BY <1>1, <1>3, <1>4 DEF Inv, PermitHeld, LockerHas, LastHas, GroupHas
<1> QED
  BY <1>2, <1>3, <1>4, <1>5 DEF Inv, Single, EnterWait

(* The last of the group keeps the permit for its call of Signal. *)
LEMMA LeaveStep ==
  ASSUME NEW s, Switches = {s}, Inv, NEW t \in Visitors, Leave(t)
  PROVE  Inv'
<1> USE RolesAssumption DEF Threads
<1>0. /\ t \in Counted /\ t \in At(Visitors, "in") /\ pc[t] = "in"
      /\ Count \in Int /\ Count' = Count - 1
  BY DEF Inv, TypeOK, Leave, Counted, At
<1>1. TypeOK'
  BY DEF Inv, TypeOK, Leave, Goto
<1>2. /\ At(Visitors, "first")' = At(Visitors, "first")
      /\ At(Visitors, "in")' = At(Visitors, "in") \ {t}
      /\ At(Lockers, "alone")' = At(Lockers, "alone")
  BY DEF Inv, TypeOK, Leave, Goto, At
<1>3. Counted' = Counted \ {t}
  BY DEF Inv, TypeOK, Leave, Goto, Counted, At
<1>4. Count' = Cardinality(Counted')
  BY <1>0, <1>3, CountedFinite, FS_RemoveElement DEF Inv
<1>4a. IsFiniteSet(Counted')
  BY <1>3, CountedFinite, FS_RemoveElement
<1>5. CASE Count' = 0
  <2>1. Counted' = {}
    BY <1>4, <1>4a, <1>5, FS_EmptySet
  <2>2. At(Visitors, "first") = {} /\ At(Visitors, "in")' = {}
    BY <1>2, <2>1 DEF Counted
  <2>3. GroupHas /\ ~ LastHas /\ ~ LockerHas
    BY <1>0, <2>2 DEF GroupHas, Inv, PermitHeld
  <2>4. At(Visitors, "last")' = {t}
    BY <1>0, <1>5, <2>3 DEF Inv, TypeOK, Leave, Goto, At, LastHas
  <2>5. PermitHeld'
    BY <1>2, <2>2, <2>3, <2>4 DEF Inv, PermitHeld, LockerHas, LastHas, GroupHas, Leave
  <2> QED
    BY <1>1, <1>2, <1>4, <2>4, <2>5 DEF Inv, Single
<1>6. CASE Count' # 0
  <2>1. Counted' # {}
    BY <1>4, <1>6, FS_EmptySet
  <2>2. At(Visitors, "last")' = At(Visitors, "last")
    BY <1>0, <1>6 DEF Inv, TypeOK, Leave, Goto, At
  <2>3. GroupHas' <=> GroupHas
    BY <1>0, <1>2, <2>1 DEF GroupHas, Counted
  <2>4. PermitHeld'
    BY <1>2, <2>2, <2>3 DEF Inv, PermitHeld, LockerHas, LastHas, Leave
  <2> QED
    BY <1>1, <1>2, <1>4, <2>2, <2>4 DEF Inv, Single
<1> QED
  BY <1>5, <1>6

(* The last of the group gives the permit back. *)
LEMMA LeaveSignalStep ==
  ASSUME NEW s, Switches = {s}, Inv, NEW t \in Visitors, LeaveSignal(t)
  PROVE  Inv'
<1> USE RolesAssumption DEF Threads
<1>1. /\ room[t] = s /\ permit' \in [Switches -> {0, 1}]
      /\ permit'[s] = 1
  BY DEF Inv, TypeOK, LeaveSignal, Signal
<1>2. TypeOK'
  BY <1>1 DEF Inv, TypeOK, LeaveSignal, Goto
<1>3. /\ At(Visitors, "first")' = At(Visitors, "first")
      /\ At(Visitors, "in")' = At(Visitors, "in")
      /\ At(Lockers, "alone")' = At(Lockers, "alone")
      /\ Counted' = Counted
  BY DEF Inv, TypeOK, LeaveSignal, Goto, Counted, At
<1>4. t \in At(Visitors, "last") /\ At(Visitors, "last")' = {}
  BY DEF Inv, TypeOK, LeaveSignal, Goto, Single, At
<1>5. PermitHeld'
  BY <1>1, <1>3, <1>4 DEF Inv, PermitHeld, LockerHas, LastHas, GroupHas
<1> QED
  BY <1>2, <1>3, <1>4, <1>5 DEF Inv, Single, LeaveSignal

(* A locker takes the permit and gives it back. *)
LEMMA LockStep ==
  ASSUME NEW s, Switches = {s}, Inv, NEW t \in Lockers, Lock(t)
  PROVE  Inv'
<1> USE RolesAssumption DEF Threads
<1>1. /\ room[t] = s /\ permit[s] = 1 /\ permit' \in [Switches -> {0, 1}]
      /\ permit'[s] = 0
  BY DEF Inv, TypeOK, Lock, Wait
<1>2. TypeOK'
  BY <1>1 DEF Inv, TypeOK, Lock, Start, Goto
<1>3. /\ At(Visitors, "first")' = At(Visitors, "first")
      /\ At(Visitors, "in")' = At(Visitors, "in")
      /\ At(Visitors, "last")' = At(Visitors, "last")
      /\ Counted' = Counted
  BY DEF Inv, TypeOK, Lock, Goto, Counted, At
<1>4. ~ LockerHas /\ ~ LastHas /\ ~ GroupHas
  BY <1>1 DEF Inv, PermitHeld
<1>5. At(Lockers, "alone")' = {t}
  BY <1>4 DEF Inv, TypeOK, Lock, Goto, LockerHas, At
<1>6. PermitHeld'
  BY <1>1, <1>3, <1>4, <1>5 DEF PermitHeld, LockerHas, LastHas, GroupHas
<1> QED
  BY <1>2, <1>3, <1>5, <1>6 DEF Inv, Single, Lock

LEMMA UnlockStep ==
  ASSUME NEW s, Switches = {s}, Inv, NEW t \in Lockers, Unlock(t)
  PROVE  Inv'
<1> USE RolesAssumption DEF Threads
<1>1. /\ room[t] = s /\ permit' \in [Switches -> {0, 1}]
      /\ permit'[s] = 1
  BY DEF Inv, TypeOK, Unlock, Signal
<1>2. TypeOK'
  BY <1>1 DEF Inv, TypeOK, Unlock, Goto
<1>3. /\ At(Visitors, "first")' = At(Visitors, "first")
      /\ At(Visitors, "in")' = At(Visitors, "in")
      /\ At(Visitors, "last")' = At(Visitors, "last")
      /\ Counted' = Counted
  BY DEF Inv, TypeOK, Unlock, Goto, Counted, At
<1>4. t \in At(Lockers, "alone") /\ At(Lockers, "alone")' = {}
  BY DEF Inv, TypeOK, Unlock, Goto, Single, At
<1>5. PermitHeld'
  BY <1>1, <1>3, <1>4 DEF Inv, PermitHeld, LockerHas, LastHas, GroupHas
<1> QED
  BY <1>2, <1>3, <1>4, <1>5 DEF Inv, Single, Unlock

LEMMA NextInv ==
  ASSUME NEW s, Switches = {s}, Inv, [Next]_vars
  PROVE  Inv'
<1>1. ASSUME NEW t \in Visitors, Visitor(t) PROVE Inv'
  BY <1>1, EnterStep, EnterWaitStep, LeaveStep, LeaveSignalStep DEF Visitor
<1>2. ASSUME NEW t \in Lockers, Locker(t) PROVE Inv'
  BY <1>2, LockStep, UnlockStep DEF Locker
<1>3. CASE UNCHANGED vars
  BY <1>3 DEF vars, Inv, TypeOK, Counted, PermitHeld, LockerHas, LastHas, GroupHas,
              Single, At
<1> QED
  BY <1>1, <1>2, <1>3 DEF Next

-----------------------------------------------------------------------------
(* The permit of the only light switch is out exactly when a locker, a      *)
(* leaving visitor or the group inside has it, and one of them at most.     *)
THEOREM InvCorrect ==
  ASSUME NEW s, Switches = {s}
  PROVE  Spec => []Inv
<1>1. Inv /\ [Next]_vars => Inv'
  BY NextInv
<1> QED
  BY <1>1, InitInv, PTL DEF Spec

(* Two threads that use Lock are never in the room together: the visitors   *)
(* signal only the permit that their own group took.                        *)
THEOREM LockersExclusiveHolds ==
  ASSUME NEW s, Switches = {s}
  PROVE  Spec => []LockersExclusive
<1>1. Inv => LockersExclusive
  <2> SUFFICES ASSUME Inv, NEW x \in Switches PROVE Cardinality(Alone(x)) <= 1
    BY DEF LockersExclusive
  <2>1. Single(Alone(x))
    BY DEF Inv, Single, At, Alone
  <2>2. Alone(x) = {} \/ \E k : Alone(x) = {k}
    BY <2>1 DEF Single
  <2> QED
    BY <2>2, FS_EmptySet, FS_Singleton
<1> QED
  BY <1>1, InvCorrect, PTL

(* Leave signals for the last visitor: a room that nobody uses has its      *)
(* permit back.                                                             *)
THEOREM EmptySignalledHolds ==
  ASSUME NEW s, Switches = {s}
  PROVE  Spec => []EmptySignalled
<1>1. Inv => EmptySignalled
  <2> SUFFICES ASSUME Inv, NEW x \in Switches,
                      \A t \in Threads : room[t] = x => pc[t] = "out"
               PROVE  permit[x] = 1
    BY DEF EmptySignalled
  <2>1. \A t \in Threads : pc[t] = "out"
    BY DEF Inv, TypeOK
  <2>2. ~ LockerHas /\ ~ LastHas /\ ~ GroupHas
    BY <2>1 DEF LockerHas, LastHas, GroupHas, At, Threads
  <2> QED
    BY <2>2 DEF Inv, TypeOK, PermitHeld
<1> QED
  BY <1>1, InvCorrect, PTL
=============================================================================
