---------------------------- MODULE LibInitProofs ----------------------------
(***************************************************************************)
(* For any set of threads: double-checked locking initialises LLVM exactly *)
(* once and before the first symbolizer is created.                        *)
(***************************************************************************)
EXTENDS LibInit, TLAPS

(* Whoever is between the two ends of the with statement owns the lock.    *)
LockInv == \A t \in Thread : pc[t] \in Held <=> owner = t

(* Unless a thread is inside C, the library is either untouched or built.  *)
Settled ==
  /\ initialized => flag /\ shared = "built"
  /\ ~initialized => ~flag /\ shared = "none"

(* What each program point knows about the library.                        *)
PointInv ==
  /\ \A t \in Thread :
       /\ pc[t] = "new" => initialized
       /\ pc[t] = "retest" => Settled
       /\ pc[t] \in {"c_test", "c_flag"} => ~initialized /\ ~flag /\ shared = "none"
       /\ pc[t] = "c_alloc" => ~initialized /\ flag /\ shared = "none"
       /\ pc[t] = "c_build" => ~initialized /\ flag /\ shared = "allocated"
       /\ pc[t] = "set" => ~initialized /\ flag /\ shared = "built"
       /\ pc[t] = "release" => initialized
  /\ initialized => flag /\ shared = "built"
  /\ owner = NoThread => Settled

IInv == TypeOK /\ LockInv /\ PointInv

LEMMA InitIInv == Init => IInv
  BY LibInitAssumption
  DEF Init, IInv, TypeOK, LockInv, PointInv, Settled, PC, Held, InC

(* The lock lets one thread at a time change what the points rely on.      *)
LEMMA StepIInv == IInv /\ [Next]_vars => IInv'
  <1> SUFFICES ASSUME IInv, [Next]_vars PROVE IInv'
    OBVIOUS
  <1> USE LibInitAssumption
      DEF IInv, TypeOK, LockInv, PointInv, Settled, PC, Held, InC, Move
  <1>1. ASSUME NEW t \in Thread, Begin(t) PROVE IInv'
    BY <1>1 DEF Begin
  <1>2. ASSUME NEW t \in Thread, Test(t) PROVE IInv'
    BY <1>2 DEF Test
  <1>3. ASSUME NEW t \in Thread, Acquire(t) PROVE IInv'
    BY <1>3 DEF Acquire
  <1>4. ASSUME NEW t \in Thread, Retest(t) PROVE IInv'
    BY <1>4 DEF Retest
  <1>5. ASSUME NEW t \in Thread, CTest(t) PROVE IInv'
    BY <1>5 DEF CTest
  <1>6. ASSUME NEW t \in Thread, CFlag(t) PROVE IInv'
    BY <1>6 DEF CFlag
  <1>7. ASSUME NEW t \in Thread, CAlloc(t) PROVE IInv'
    BY <1>7 DEF CAlloc
  <1>8. ASSUME NEW t \in Thread, CBuild(t) PROVE IInv'
    BY <1>8 DEF CBuild
  <1>9. ASSUME NEW t \in Thread, Set(t) PROVE IInv'
    BY <1>9 DEF Set
  <1>10. ASSUME NEW t \in Thread, Release(t) PROVE IInv'
    BY <1>10 DEF Release
  <1>11. ASSUME NEW t \in Thread, New(t) PROVE IInv'
    BY <1>11 DEF New
  <1>12. CASE UNCHANGED vars
    BY <1>12 DEF vars
  <1>13. QED
    BY <1>1, <1>2, <1>3, <1>4, <1>5, <1>6, <1>7, <1>8, <1>9, <1>10, <1>11, <1>12
    DEF Next, Step

LEMMA IInvImplies == IInv => TypeOK /\ BuiltOnce /\ NewAfterBuild
  BY LibInitAssumption
  DEF IInv, TypeOK, LockInv, PointInv, BuiltOnce, NewAfterBuild, Held, InC

THEOREM Inductive == Spec => []IInv
  <1>1. QED
    BY InitIInv, StepIInv, PTL DEF Spec

(* Type correctness, which includes that no created symbolizer is NULL.    *)
THEOREM TypeCorrect == Spec => []TypeOK
  BY Inductive, IInvImplies, PTL

(* The library's shared state is allocated at most once.                   *)
THEOREM InitialisedOnce == Spec => []BuiltOnce
  BY Inductive, IInvImplies, PTL

(* No thread creates a symbolizer before the library is ready.             *)
THEOREM ReadyWhenUsed == Spec => []NewAfterBuild
  BY Inductive, IInvImplies, PTL

=============================================================================
