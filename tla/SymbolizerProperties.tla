------------------------ MODULE SymbolizerProperties ------------------------
(***************************************************************************)
(* What the driver must guarantee (module Symbolizer), and its refinement  *)
(* of the abstract ownership protocol (module Resources).                  *)
(***************************************************************************)
EXTENDS Symbolizer

(* Every variable of the driver model stays in its range.                  *)
TypeOK ==
  /\ closed \in BOOLEAN /\ alive \in BOOLEAN
  /\ engine \in Engine
  /\ lock \in Thread \cup {NoThread}
  /\ cache \in [Path -> Handle \cup {NoHandle}]
  /\ handle \in [Handle -> Object]
  /\ pc \in [Thread -> PC]
  /\ site \in [Thread -> Site]
  /\ path \in [Thread -> Path]
  /\ di \in [Thread -> [Site -> Handle \cup {NoHandle}]]
  /\ frames \in [Thread -> 0..MaxFrames]
  /\ held \in [Thread -> SUBSET Alloc]
  /\ todo \in [Thread -> SUBSET Path]
  /\ size \in [Thread -> Nat]
  /\ result \in [Thread -> Outcome]
  /\ leaked \subseteq Alloc

(* LLVMSymbolizer is not thread safe: whatever the threads do, at most one *)
(* of them is inside it (the RLock of symbolizer.py around both calls).    *)
EngineExclusive ==
  \A t, u \in Thread : pc[t] = "engine" /\ pc[u] = "engine" => t = u

(* A foreign call runs on an object that has not been freed, for as long   *)
(* as it runs, and the strings a DebugInfo returned are copied while its   *)
(* mapped file is still there.                                             *)
NoUseAfterFree ==
  \A t \in Thread :
    /\ pc[t] = "engine" => engine = "open"
    /\ pc[t] \in {"native", "copy"} => handle[Current(t)] = "open"

(* close(), a second close() and __del__ together free each object once.   *)
NoDoubleFree ==
  \A t \in Thread :
    /\ pc[t] = "c_free" => engine = "open"
    /\ pc[t] = "d_free" => handle[Current(t)] = "open"

(* While close() does not overlap a call, no call ends in an accident of   *)
(* the implementation: None passed for a pointer, a DebugInfo closed under *)
(* the call, a dict that changes during the iteration of close(); and only *)
(* a driver whose close() was called turns a call away as closed.          *)
NoAccidents ==
  \A t \in Thread :
    result[t] \notin Internal /\ (result[t] = "Closed" => closed)

(* Even with close() at any moment those accidents need the engine to be   *)
(* gone: close() disposes of the engine before it touches any DebugInfo.   *)
InternalFailuresNeedClose ==
  \A t \in Thread : result[t] \in Internal => engine = "closed"

(* What a thread works with is never cached for another path than the one  *)
(* it was called with, however racing misses replace each other's entries. *)
DebugInfoOfPath ==
  \A t \in Thread, p \in Path :
    pc[t] \in Fetching /\ Current(t) # NoHandle /\ cache[p] = Current(t) => p = path[t]

(* When nobody is in the driver, racing opens have left at most one        *)
(* DebugInfo per path, all in the cache and usable, and none after close.  *)
QuietHandles ==
  Quiet => /\ \A h \in Handle : handle[h] # "none" =>
                 ~closed /\ handle[h] = "open" /\ \E p \in Path : cache[p] = h
           /\ \A p, q \in Path : cache[p] = cache[q] /\ cache[p] # NoHandle => p = q

(* Dropping the driver reclaims everything it owns, even after a close()   *)
(* that failed half way or raced with calls.                               *)
ReclaimedByDel ==
  ~alive /\ Quiet => engine = "closed" /\ \A h \in Handle : handle[h] = "none"

(* A call that succeeds gives all the symbols it received back to C.       *)
SuccessFreesSymbols ==
  [][\A t \in Thread : result[t] = "ok" /\ result'[t] = "none" => leaked' = leaked]_vars

(* No exception and no number of frames keeps the lock: its owner always   *)
(* comes back out.                                                         *)
LockReleased == \A t \in Thread : lock = t ~> lock # t

(* close() comes to an end whatever the other threads do.                  *)
CloseReturns == \A t \in Thread : InClose(t) ~> pc[t] = "idle"

(* After close() no array of symbols returned for an inlined address is    *)
(* left behind, also when the conversion of a frame failed.                *)
ClosedReclaimsSymbols == closed /\ Quiet => "symbols" \notin leaked

-----------------------------------------------------------------------------
(* The driver implements the ownership protocol: Python's pointers, cache, *)
(* reference counts and lock keep the promise made for each native object. *)

Native == Handle \cup {"engine"}
NativeLive ==
  {h \in Handle : handle[h] = "open"} \cup {r \in {"engine"} : engine = "open"}
Inside(t, r) ==
  \/ r = "engine" /\ pc[t] = "engine"
  \/ r \in Handle /\ pc[t] \in {"native", "copy"} /\ Current(t) = r
NativeUsers == [r \in Native |-> {t \in Thread : Inside(t, r)}]

Res == INSTANCE Resources WITH
  Resource <- Native, Exclusive <- {"engine"}, Initial <- {"engine"},
  live <- NativeLive, users <- NativeUsers

(* Every behaviour of the driver is one the ownership protocol allows.     *)
ImplementsResources == Res!Spec

=============================================================================
