------------------------------- MODULE LibInit -------------------------------
(***************************************************************************)
(* Creation of low level symbolizers (symsynd/libsymbolizer.py): the first *)
(* one initialises the LLVM library.  _init_lib() guards the C function,   *)
(* which is not thread safe, by double-checked locking, and                *)
(* llvm_symbolizer_new() returns NULL as long as the C flag is not set.    *)
(***************************************************************************)
CONSTANTS
  Thread,     \* threads that create symbolizers, any number of times
  NoThread    \* _lib_lock has no owner

ASSUME LibInitAssumption == NoThread \notin Thread

VARIABLES
  initialized,  \* the Python global _initialized
  owner,        \* of _lib_lock
  flag,         \* the C global lib_initialized
  shared,       \* the C global shared_state and its shutdown object
  pc,
  ptr           \* what each thread's last llvm_symbolizer_new() returned

vars == <<initialized, owner, flag, shared, pc, ptr>>

(* Program points inside llvm_symbolizer_lib_init().                       *)
InC == {"c_test", "c_flag", "c_alloc", "c_build"}
Held == {"retest", "set", "release"} \cup InC
PC == {"idle", "test", "acquire", "new"} \cup Held

Init ==
  /\ initialized = FALSE /\ owner = NoThread
  /\ flag = FALSE /\ shared = "none"
  /\ pc = [t \in Thread |-> "idle"]
  /\ ptr = [t \in Thread |-> "none"]

Move(t, from, to) == pc[t] = from /\ pc' = [pc EXCEPT ![t] = to]

Begin(t) ==
  /\ Move(t, "idle", "test")
  /\ UNCHANGED <<initialized, owner, flag, shared, ptr>>

Test(t) ==
  /\ Move(t, "test", IF initialized THEN "new" ELSE "acquire")
  /\ UNCHANGED <<initialized, owner, flag, shared, ptr>>

(* Mutant: without the lock.                                               *)
UncheckedAcquire(t) ==
  /\ Move(t, "acquire", "retest")
  /\ owner' = t
  /\ UNCHANGED <<initialized, flag, shared, ptr>>

Acquire(t) ==
  /\ Move(t, "acquire", "retest")
  /\ owner = NoThread /\ owner' = t
  /\ UNCHANGED <<initialized, flag, shared, ptr>>

(* Mutant: the flag is raised before the library is initialised.           *)
EagerRetest(t) ==
  /\ Move(t, "retest", IF initialized THEN "release" ELSE "c_test")
  /\ initialized' = TRUE
  /\ UNCHANGED <<owner, flag, shared, ptr>>

(* Mutant: the early return keeps the lock.                                *)
KeepingRetest(t) ==
  /\ Move(t, "retest", IF initialized THEN "new" ELSE "c_test")
  /\ UNCHANGED <<initialized, owner, flag, shared, ptr>>

Retest(t) ==
  /\ Move(t, "retest", IF initialized THEN "release" ELSE "c_test")
  /\ UNCHANGED <<initialized, owner, flag, shared, ptr>>

CTest(t) ==
  /\ Move(t, "c_test", IF flag THEN "set" ELSE "c_flag")
  /\ UNCHANGED <<initialized, owner, flag, shared, ptr>>

(* The C flag is raised before the state it announces exists.              *)
CFlag(t) ==
  /\ Move(t, "c_flag", "c_alloc")
  /\ flag' = TRUE
  /\ UNCHANGED <<initialized, owner, shared, ptr>>

CAlloc(t) ==
  /\ Move(t, "c_alloc", "c_build")
  /\ shared' = "allocated"
  /\ UNCHANGED <<initialized, owner, flag, ptr>>

CBuild(t) ==
  /\ Move(t, "c_build", "set")
  /\ shared' = "built"
  /\ UNCHANGED <<initialized, owner, flag, ptr>>

Set(t) ==
  /\ Move(t, "set", "release")
  /\ initialized' = TRUE
  /\ UNCHANGED <<owner, flag, shared, ptr>>

Release(t) ==
  /\ Move(t, "release", "new")
  /\ owner' = NoThread
  /\ UNCHANGED <<initialized, flag, shared, ptr>>

New(t) ==
  /\ Move(t, "new", "idle")
  /\ ptr' = [ptr EXCEPT ![t] = IF flag THEN "symbolizer" ELSE "null"]
  /\ UNCHANGED <<initialized, owner, flag, shared>>

Step(t) ==
  \/ Test(t) \/ Acquire(t) \/ Retest(t) \/ CTest(t) \/ CFlag(t)
  \/ CAlloc(t) \/ CBuild(t) \/ Set(t) \/ Release(t) \/ New(t)

Next == \E t \in Thread : Begin(t) \/ Step(t)

Spec == Init /\ [][Next]_vars
(* The operating system keeps scheduling a thread that can run.            *)
FairSpec == Spec /\ \A t \in Thread : WF_vars(Step(t))

-----------------------------------------------------------------------------
(* Every variable stays in its range and no symbolizer is NULL: the Python *)
(* code stores the pointer without testing it.                             *)
TypeOK ==
  /\ initialized \in BOOLEAN /\ flag \in BOOLEAN
  /\ owner \in Thread \cup {NoThread}
  /\ shared \in {"none", "allocated", "built"}
  /\ pc \in [Thread -> PC]
  /\ ptr \in [Thread -> {"none", "symbolizer"}]

(* The shared state is allocated once, and no second thread runs the C     *)
(* initialisation beside the first.                                        *)
BuiltOnce ==
  /\ \A t \in Thread : pc[t] \in {"c_flag", "c_alloc"} => shared = "none"
  /\ \A t, u \in Thread : pc[t] \in InC /\ pc[u] \in InC => t = u

(* A thread that goes on to create a symbolizer, also one that never took  *)
(* the lock, finds the library completely initialised.                     *)
NewAfterBuild == \A t \in Thread : pc[t] = "new" => flag /\ shared = "built"

(* Every attempt to create a symbolizer succeeds in the end, although the  *)
(* lock is not fair: once initialised, nobody needs it.                    *)
EveryoneServed == \A t \in Thread : pc[t] = "test" ~> pc[t] = "idle"

=============================================================================
