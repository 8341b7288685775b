---------------------------- MODULE LightSwitch ----------------------------
(***************************************************************************)
(* TLightSwitch of pascal/thrds.pas: a semaphore of one permit per room.    *)
(* The first thread of a group that uses Enter takes the permit, the last   *)
(* one that uses Leave gives it back; a thread that uses the semaphore      *)
(* itself (Lock is Wait, Unlock is Signal) wants the room for itself.  The  *)
(* number of threads in the group is the unit's variable Count, one for all *)
(* the light switches.                                                      *)
(*                                                                         *)
(* The semaphore is Windows': WaitForSingleObject without a time limit      *)
(* takes a permit or blocks, ReleaseSemaphore adds one up to the maximum.   *)
(***************************************************************************)
EXTENDS Integers, FiniteSets

CONSTANTS Switches,  \* the light switches of the program
          Visitors,  \* threads that use Enter and Leave
          Lockers,   \* threads that use Lock and Unlock
          Visits     \* bound: visits of each thread

ASSUME RolesAssumption == Visitors \cap Lockers = {}
ASSUME VisitsAssumption == Visits \in Nat
ASSUME FiniteAssumption == IsFiniteSet(Visitors)

VARIABLES permit,  \* permit[s]: the count of the semaphore of s
          Count,   \* the unit's variable
          pc,      \* pc[t]: where t is
          room,    \* room[t]: the switch that t uses
          left     \* left[t]: visits that t has still to make

vars == <<permit, Count, pc, room, left>>

Threads == Visitors \cup Lockers

(* Create(GetLock = False): one permit *)
Init == /\ permit = [s \in Switches |-> 1]
        /\ Count = 0
        /\ pc = [t \in Threads |-> "out"]
        /\ room \in [Threads -> Switches]
        /\ left = [t \in Threads |-> Visits]

Goto(t, label) == pc' = [pc EXCEPT ![t] = label]

Start(t) == /\ pc[t] = "out"
            /\ left[t] > 0
            /\ left' = [left EXCEPT ![t] = @ - 1]

(* TSemaphore.Wait *)
Wait(t) == /\ permit[room[t]] > 0
           /\ permit' = [permit EXCEPT ![room[t]] = @ - 1]

(* TSemaphore.Signal: ReleaseSemaphore does nothing at the maximum, 1 *)
Signal(t) == permit' = [permit EXCEPT ![room[t]] = 1]

-----------------------------------------------------------------------------
(* Enter: if InterlockedIncrement(Count) = 1 then Wait *)
Enter(t) == /\ Start(t)
            /\ Count' = Count + 1
            /\ Goto(t, IF Count' = 1 THEN "first" ELSE "in")
            /\ UNCHANGED <<permit, room>>

EnterWait(t) == /\ pc[t] = "first"
                /\ Wait(t)
                /\ Goto(t, "in")
                /\ UNCHANGED <<Count, room, left>>

(* Mutant of Leave: every visitor that leaves gives the permit back. *)
LeaveEach(t) == /\ pc[t] = "in"
                /\ Count' = Count - 1
                /\ Goto(t, "last")
                /\ UNCHANGED <<permit, room, left>>

(* Leave: if InterlockedDecrement(Count) = 0 then Signal *)
Leave(t) == /\ pc[t] = "in"
            /\ Count' = Count - 1
            /\ Goto(t, IF Count' = 0 THEN "last" ELSE "out")
            /\ UNCHANGED <<permit, room, left>>

(* Mutant of LeaveSignal: the permit is kept. *)
LeaveSignalNot(t) == /\ pc[t] = "last"
                     /\ Goto(t, "out")
                     /\ UNCHANGED <<permit, Count, room, left>>

LeaveSignal(t) == /\ pc[t] = "last"
                  /\ Signal(t)
                  /\ Goto(t, "out")
                  /\ UNCHANGED <<Count, room, left>>

-----------------------------------------------------------------------------
(* Lock and Unlock *)
Lock(t) == /\ Start(t)
           /\ Wait(t)
           /\ Goto(t, "alone")
           /\ UNCHANGED <<Count, room>>

Unlock(t) == /\ pc[t] = "alone"
             /\ Signal(t)
             /\ Goto(t, "out")
             /\ UNCHANGED <<Count, room, left>>

Visitor(t) == Enter(t) \/ EnterWait(t) \/ Leave(t) \/ LeaveSignal(t)
Locker(t)  == Lock(t) \/ Unlock(t)

Finished == \A t \in Threads : pc[t] = "out" /\ left[t] = 0

Next == \/ \E t \in Visitors : Visitor(t)
        \/ \E t \in Lockers : Locker(t)
        \/ Finished /\ UNCHANGED vars

(* Threads are scheduled again and again, and leave the room.  The calls    *)
(* are finite, so a waiting thread is not passed over for ever.             *)
Fairness == /\ \A t \in Visitors : WF_vars(Visitor(t))
            /\ \A t \in Lockers : WF_vars(Locker(t))

Spec == Init /\ [][Next]_vars /\ Fairness

-----------------------------------------------------------------------------
(* Properties *)

Inside(s) == {t \in Visitors : pc[t] = "in" /\ room[t] = s}
Alone(s)  == {t \in Lockers : pc[t] = "alone" /\ room[t] = s}

(* No two threads that use Lock are in a room together, whatever the        *)
(* visitors do to the permit between their change of Count and their call   *)
(* of the semaphore.  It takes a program with one light switch: the last    *)
(* visitor of two rooms may signal a permit that a locker holds.            *)
LockersExclusive == \A s \in Switches : Cardinality(Alone(s)) <= 1

(* The comment on TLightSwitch: threads that use Enter may be in the room   *)
(* with others like them, but one that uses Lock enters alone.              *)
LockedAlone == \A s \in Switches : Alone(s) # {} => Inside(s) = {}

(* The comment in Leave: the last thread that leaves the room signals that  *)
(* it is empty.  A room with nobody in it and nobody on the way has its     *)
(* permit back.                                                             *)
EmptySignalled == \A s \in Switches :
                    (\A t \in Threads : room[t] = s => pc[t] = "out") => permit[s] = 1

(* Nobody waits for ever: the permit that a group takes comes back when the *)
(* last of the group leaves, and every visit ends.                          *)
AllVisit == <>Finished
=============================================================================
