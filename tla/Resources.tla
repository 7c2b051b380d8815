------------------------------ MODULE Resources ------------------------------
(***************************************************************************)
(* What the symbolication driver promises about the objects it owns behind *)
(* the C boundary (the LLVM symbolizer and the memory-mapped debug files): *)
(* a thread enters an object only while the object is alive, an object     *)
(* that is not thread safe has one user at a time, and an object is        *)
(* destroyed only when no thread is inside it.                             *)
(***************************************************************************)
CONSTANTS
  Thread,      \* the threads of the host process
  Resource,    \* the native objects
  Exclusive,   \* those of them that tolerate a single user
  Initial      \* those of them that exist from the start

VARIABLES
  live,        \* the native objects that exist
  users        \* the threads running inside each object

rvars == <<live, users>>

Init == live = Initial /\ users = [r \in Resource |-> {}]

Create(r) == r \notin live /\ live' = live \cup {r} /\ UNCHANGED users

Enter(t, r) ==
  /\ r \in live
  /\ r \in Exclusive => users[r] = {}
  /\ users' = [users EXCEPT ![r] = @ \cup {t}]
  /\ UNCHANGED live

Leave(t, r) ==
  /\ t \in users[r]
  /\ users' = [users EXCEPT ![r] = @ \ {t}]
  /\ UNCHANGED live

Destroy(S) ==
  /\ S \subseteq live
  /\ \A r \in S : users[r] = {}
  /\ live' = live \ S
  /\ UNCHANGED users

Next ==
  \/ \E r \in Resource : Create(r)
  \/ \E t \in Thread, r \in Resource : Enter(t, r) \/ Leave(t, r)
  \/ \E S \in SUBSET Resource : Destroy(S)

Spec == Init /\ [][Next]_rvars

=============================================================================
