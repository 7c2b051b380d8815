------------------------- MODULE SymbolizerInvariant -------------------------
(***************************************************************************)
(* Why the driver keeps its promises: the inductive invariant behind the   *)
(* properties of module SymbolizerProperties, in named parts.              *)
(***************************************************************************)
EXTENDS SymbolizerProperties

-----------------------------------------------------------------------------
(* Control: these hold whenever close() is called.                         *)

(* Which call a thread is in follows from where it is.                     *)
SiteInv ==
  \A t \in Thread :
    /\ pc[t] \in {"idle", "guard", "cpu", "acquire"} => site[t] = "slide"
    /\ pc[t] \in Fetching => site[t] \in {"slide", "frame"}
    /\ pc[t] \in Locked => site[t] = "frame"
    /\ pc[t] \in Closing => site[t] = "close"

InLock(t) == pc[t] \in Locked \/ (pc[t] \in Fetching /\ site[t] = "frame")

(* The part of symbolize() inside the with statement owns the lock.        *)
LockInv == \A t \in Thread : InLock(t) => lock = t

(* A frame is being converted only while there is one left.                *)
FramesInv ==
  \A t \in Thread :
    InLock(t) /\ pc[t] \notin {"ptrcheck", "enter", "engine", "frame"} => frames[t] > 0

Base == TypeOK /\ SiteInv /\ LockInv /\ FramesInv

-----------------------------------------------------------------------------
(* References: also independent of when close() is called.                 *)

(* Which local variables hold a DebugInfo at each point.                   *)
DiInv ==
  \A t \in Thread :
    /\ pc[t] \in {"idle", "guard", "c_guard", "c_ptr", "c_enter", "c_free", "c_null", "c_iter"}
         => di[t] = NoLocals
    /\ InClose(t) => di[t]["slide"] = NoHandle /\ di[t]["frame"] = NoHandle
    /\ ~InClose(t) => di[t]["close"] = NoHandle
    /\ pc[t] \in {"cpu", "acquire", "ptrcheck", "enter", "engine", "frame"}
         => di[t]["frame"] = NoHandle
    /\ pc[t] \in Fetching /\ site[t] = "slide" => di[t]["frame"] = NoHandle
    /\ pc[t] \in {"lookup", "open"} => Current(t) = NoHandle
    /\ pc[t] \in {"insert", "getptr", "native", "copy", "d_check", "d_enter", "d_free", "d_null"}
         => Current(t) \in Handle

(* Objects are alive exactly as long as something refers to them.          *)
RefInv == \A h \in Handle : handle[h] # "none" <=> h \in Referenced(cache, di)

(* A DebugInfo about to be stored is known to its thread alone, and each   *)
(* one that is stored belongs to one path, which its users asked for.      *)
CacheInv ==
  /\ \A t \in Thread : pc[t] = "insert" =>
       /\ \A p \in Path : cache[p] # Current(t)
       /\ \A u \in Thread, s \in Site : di[u][s] = Current(t) => u = t /\ s = site[t]
  /\ \A p, q \in Path : cache[p] = cache[q] /\ cache[p] # NoHandle => p = q
  /\ DebugInfoOfPath

(* close() turns to the DebugInfo objects once the engine is gone for good. *)
GoneInv ==
  /\ \A t \in Thread :
       pc[t] \in {"c_iter", "c_next", "d_check", "d_enter", "d_free", "d_null"} => engine = "closed"
  /\ \A h \in Handle : handle[h] \in {"dangling", "closed"} => engine = "closed"
  /\ InternalFailuresNeedClose

Shared == DiInv /\ RefInv /\ CacheInv /\ GoneInv

-----------------------------------------------------------------------------
(* What SerialClose adds: the closing thread is alone.                     *)

Working(t) == pc[t] \in {"cpu", "acquire"} \cup Fetching \cup Locked
NoCloser == \A t \in Thread : ~InClose(t)
Starting == {"c_guard", "c_ptr", "c_enter", "c_free", "c_null", "c_iter"}
Disposing == {"d_check", "d_enter", "d_free", "d_null"}

Alone == \A t, u \in Thread : InClose(t) /\ u # t => pc[u] = "idle"

(* Whoever passed the check of _closed can rely on it.                     *)
UsableInv ==
  \A t \in Thread : (Working(t) => ~closed) /\ (Working(t) \/ pc[t] = "guard" => alive)

(* The engine is open as long as the driver can be used.                   *)
EngineInv ==
  /\ NoCloser /\ ~closed /\ alive => engine = "open"
  /\ \A t \in Thread :
       /\ pc[t] = "c_guard" => closed \/ engine = "open"
       /\ pc[t] \in {"c_enter", "c_free"} => engine = "open"
       /\ InClose(t) /\ pc[t] = "unwind" => closed \/ ~alive
  /\ engine = "dangling" => \E t \in Thread : pc[t] = "c_null"

(* Outside close() a DebugInfo that exists is open; inside, those the      *)
(* iteration has not reached are.                                          *)
Disposed(t) ==
  /\ pc[t] \in {"c_next"} \cup Disposing =>
       /\ size[t] = Cardinality(Cached)
       /\ \A p \in todo[t] \cap Cached : handle[cache[p]] = "open"
  /\ pc[t] \in {"d_check", "d_enter", "d_free"} => handle[Current(t)] = "open"
  /\ pc[t] \in Disposing => \A p \in todo[t] : cache[p] # Current(t)
  /\ pc[t] = "c_set" \/ (InClose(t) /\ pc[t] = "unwind") =>
       \A h \in Handle : handle[h] = "none"

OpenInv ==
  /\ NoCloser \/ (\E t \in Thread : pc[t] \in Starting) =>
       \A h \in Handle : handle[h] \in {"none", "open"}
  /\ \A t \in Thread : Disposed(t)
  /\ closed => \A h \in Handle : handle[h] = "none"

Serial == Alone /\ UsableInv /\ EngineInv /\ OpenInv /\ NoAccidents

-----------------------------------------------------------------------------
(* What is given back: again whenever close() is called.                   *)

(* What a thread holds at each point, and when its call has an outcome:    *)
(* the finally clauses free the error and the symbol whatever it is.       *)
HeldInv ==
  \A t \in Thread :
    /\ pc[t] # "unwind" => result[t] = "none"
    /\ pc[t] \in {"idle", "guard", "cpu", "acquire", "ptrcheck", "enter", "engine"} \cup Closing
         => held[t] = {}
    /\ pc[t] \in Fetching /\ site[t] = "slide" =>
         held[t] \subseteq (IF pc[t] = "copy" THEN {"variants"} ELSE {})
    /\ pc[t] \in {"frame", "made"} \/ (pc[t] \in Fetching /\ site[t] = "frame") =>
         held[t] \subseteq {"symbol", "symbols"}
    /\ result[t] = "ok" => held[t] \subseteq {"error", "symbol"}

Gone == engine = "closed" /\ \A h \in Handle : handle[h] = "none"

(* __del__ runs alone and meets none of the accidents that would end it    *)
(* before everything is gone.                                              *)
DropInv ==
  ~alive =>
    /\ \A t, u \in Thread : pc[t] # "idle" /\ u # t => pc[u] = "idle"
    /\ \A t \in Thread : pc[t] # "idle" => InClose(t) /\ pc[t] # "c_guard"
    /\ \A t \in Thread : pc[t] \in {"c_enter", "c_free"} => engine # "closed"
    /\ \A t \in Thread : pc[t] = "c_clear" => engine = "closed"
    /\ \A t \in Thread : pc[t] \in {"c_next"} \cup Disposing => size[t] = Cardinality(Cached)
    /\ \A t \in Thread : pc[t] \in {"d_enter", "d_free"} => handle[Current(t)] # "closed"
    /\ \A t \in Thread : pc[t] \in {"c_set", "unwind"} => Gone
    /\ Quiet => Gone

Release == HeldInv /\ DropInv

(* The invariant: the parts of Serial hold when close() is never           *)
(* concurrent with another call, all others always.                        *)
IInv == Base /\ Shared /\ Release /\ (SerialClose => Serial)

=============================================================================
