----------------------------- MODULE Symbolizer -----------------------------
(***************************************************************************)
(* The symbolication driver (symsynd/symbolizer.py), the low level         *)
(* symbolizer below it (symsynd/libsymbolizer.py), the debug info objects  *)
(* it caches (symsynd/libdebug.py) and the memory their C libraries own.   *)
(*                                                                         *)
(* Any number of Python threads share one driver.  A step is one access    *)
(* to shared state or one foreign call: the interpreter lock is given up   *)
(* between bytecodes and during every foreign call.                        *)
(***************************************************************************)
EXTENDS Naturals, FiniteSets

CONSTANTS
  Thread,       \* threads that use the driver
  Path,         \* dSYM paths passed to it
  Handle,       \* identities of DebugInfo objects, reused after their death
  NoThread,     \* the lock has no owner
  NoHandle,     \* None in place of a DebugInfo
  MaxFrames,    \* bound on the frames LLVM returns for one address
  SerialClose   \* TRUE: close() and the other calls are never concurrent

ASSUME SymbolizerAssumption ==
  /\ NoThread \notin Thread
  /\ NoHandle \notin Handle /\ "engine" \notin Handle
  /\ IsFiniteSet(Path)
  /\ MaxFrames \in Nat \ {0}
  /\ SerialClose \in BOOLEAN

VARIABLES
  closed,   \* Symbolizer._closed
  alive,    \* somebody still holds the driver
  engine,   \* LowLevelSymbolizer._ptr and the LLVM object behind it
  lock,     \* owner of Symbolizer._lock
  cache,    \* LowLevelSymbolizer._debug_infos
  handle,   \* DebugInfo._ptr and the Rust object behind it
  pc,       \* where each thread is
  site,     \* which call of get_debug_info it is in, or close
  path,     \* its dsym_path argument
  di,       \* its local variables that hold a DebugInfo
  frames,   \* frames LLVM returned that are still to be converted
  held,     \* C allocations its locals point to
  todo,     \* paths close() has not visited yet
  size,     \* size of the dict when that iteration started
  result,   \* how the call ends
  leaked    \* kinds of C allocation nothing points to any more

owner == <<closed, alive, engine, lock>>
objects == <<cache, handle>>
locals == <<site, path, frames, held, result, leaked>>
iter == <<todo, size>>
vars == <<owner, objects, pc, di, locals, iter>>

(* open: allocated.  dangling: freed, the Python field still holds the     *)
(* pointer.  closed: the field is None.  none: no such object.             *)
Engine == {"open", "dangling", "closed"}
Object == Engine \cup {"none"}

Site == {"slide", "frame", "close"}
Alloc == {"variants", "error", "symbol", "symbols", "scratch"}
Declared == {"ok", "Closed", "NotFound", "SymbolicationError", "DebugInfoError"}
Internal == {"TypeError", "DebugInfoClosed", "IterError"}
(* What Python and cffi raise for an argument or a debug file and    *)
(* nobody catches: a path or an address that is none, None for a cpu name, *)
(* an offset below zero, bytes that are not UTF-8.                         *)
Stray == {"ValueError", "NoCpuName", "OverflowError", "UnicodeDecodeError"}
Outcome == Declared \cup Internal \cup Stray \cup {"none"}

Fetching == {"lookup", "open", "insert", "getptr", "native", "copy"}
Locked == {"ptrcheck", "enter", "engine", "frame", "made"}
Closing == {"c_guard", "c_ptr", "c_enter", "c_free", "c_null", "c_iter",
            "c_next", "d_check", "d_enter", "d_free", "d_null", "c_clear", "c_set"}
PC == {"idle", "guard", "cpu", "acquire", "unwind"} \cup Fetching \cup Locked \cup Closing

NoLocals == [s \in Site |-> NoHandle]
Cached == {p \in Path : cache[p] # NoHandle}
Current(t) == di[t][site[t]]
InClose(t) == site[t] = "close"
Quiet == \A t \in Thread : pc[t] = "idle"

(* A DebugInfo lives while the dict or a local refers to it; losing its    *)
(* last reference runs __del__, which frees the Rust object.               *)
Referenced(c, d) ==
  {h \in Handle : \/ \E p \in Path : c[p] = h
                 \/ \E t \in Thread, s \in Site : d[t][s] = h}
Reap(h, c, d) ==
  [x \in Handle |-> IF x \in Referenced(c, d) THEN h[x] ELSE "none"]

Goto(t, l) == pc' = [pc EXCEPT ![t] = l]
Finish(t, r) == Goto(t, "unwind") /\ result' = [result EXCEPT ![t] = r]
Bind(t, s, h) == di' = [di EXCEPT ![t] = [@ EXCEPT ![s] = h]]

Init ==
  /\ closed = FALSE /\ alive = TRUE /\ engine = "open" /\ lock = NoThread
  /\ cache = [p \in Path |-> NoHandle]
  /\ handle = [h \in Handle |-> "none"]
  /\ pc = [t \in Thread |-> "idle"]
  /\ site = [t \in Thread |-> "slide"]
  /\ path \in [Thread -> Path]
  /\ di = [t \in Thread |-> NoLocals]
  /\ frames = [t \in Thread |-> 0]
  /\ held = [t \in Thread |-> {}]
  /\ todo = [t \in Thread |-> {}]
  /\ size = [t \in Thread |-> 0]
  /\ result = [t \in Thread |-> "none"]
  /\ leaked = {}

-----------------------------------------------------------------------------
(* symbolize(): up to the lock.                                            *)

Begin(t, p) ==
  /\ alive /\ pc[t] = "idle"
  /\ SerialClose => \A u \in Thread : ~InClose(u)
  /\ Goto(t, "guard")
  /\ path' = [path EXCEPT ![t] = p]
  /\ UNCHANGED <<owner, objects, di, site, frames, held, result, leaked, iter>>

(* Rejected if closed, or if the path or the slide is malformed or the     *)
(* file does not exist; otherwise the slide is looked up unless the caller *)
(* passed one.                                                             *)
Guard(t) ==
  /\ pc[t] = "guard"
  /\ \/ closed /\ Finish(t, "Closed")
     \/ ~closed /\ \E r \in {"NotFound", "ValueError"} : Finish(t, r)
     \/ ~closed /\ (\E l \in {"lookup", "cpu"} : Goto(t, l))
               /\ UNCHANGED result
  /\ UNCHANGED <<owner, objects, di, site, path, frames, held, leaked, iter>>

(* Both addresses are parsed, and the cpu name has to be a known one.      *)
Cpu(t) ==
  /\ pc[t] = "cpu"
  /\ \/ \E r \in {"SymbolicationError", "ValueError", "NoCpuName"} : Finish(t, r)
     \/ Goto(t, "acquire") /\ UNCHANGED result
  /\ UNCHANGED <<owner, objects, di, site, path, frames, held, leaked, iter>>

(* Mutant: the lock is not waited for.                                     *)
UncheckedAcquire(t) ==
  /\ pc[t] = "acquire"
  /\ lock' = t
  /\ site' = [site EXCEPT ![t] = "frame"]
  /\ Goto(t, "ptrcheck")
  /\ UNCHANGED <<closed, alive, engine, objects, di, path, frames, held, result, leaked, iter>>

Acquire(t) ==
  /\ pc[t] = "acquire"
  /\ lock = NoThread
  /\ lock' = t
  /\ site' = [site EXCEPT ![t] = "frame"]
  /\ Goto(t, "ptrcheck")
  /\ UNCHANGED <<closed, alive, engine, objects, di, path, frames, held, result, leaked, iter>>

-----------------------------------------------------------------------------
(* get_debug_info() and the foreign call on its result: get_variant() for  *)
(* the slide, without the lock, and get_compilation_dir() for a frame.     *)

(* Mutant: the cache is not keyed by the whole path.                       *)
AnyPathLookup(t) ==
  /\ pc[t] = "lookup"
  /\ \E p \in Path :
       /\ Bind(t, site[t], cache[p])
       /\ Goto(t, IF cache[p] = NoHandle THEN "open" ELSE "getptr")
  /\ UNCHANGED <<owner, objects, locals, iter>>

Lookup(t) ==
  /\ pc[t] = "lookup"
  /\ Bind(t, site[t], cache[path[t]])
  /\ Goto(t, IF cache[path[t]] = NoHandle THEN "open" ELSE "getptr")
  /\ UNCHANGED <<owner, objects, locals, iter>>

Open(t) ==
  /\ pc[t] = "open"
  /\ \/ Finish(t, "DebugInfoError") /\ UNCHANGED <<di, handle>>
     \/ \E h \in Handle :
          /\ handle[h] = "none"
          /\ handle' = [handle EXCEPT ![h] = "open"]
          /\ Bind(t, site[t], h)
          /\ Goto(t, "insert") /\ UNCHANGED result
  /\ UNCHANGED <<owner, cache, site, path, frames, held, leaked, iter>>

(* Mutant: the DebugInfo that is replaced is closed.                       *)
ClosingInsert(t) ==
  /\ pc[t] = "insert"
  /\ cache' = [cache EXCEPT ![path[t]] = Current(t)]
  /\ handle' = Reap([h \in Handle |-> IF h = cache[path[t]] THEN "closed" ELSE handle[h]],
                    cache', di)
  /\ Goto(t, "getptr")
  /\ UNCHANGED <<owner, di, locals, iter>>

(* A DebugInfo another thread stored meanwhile is overwritten.             *)
Insert(t) ==
  /\ pc[t] = "insert"
  /\ cache' = [cache EXCEPT ![path[t]] = Current(t)]
  /\ handle' = Reap(handle, cache', di)
  /\ Goto(t, "getptr")
  /\ UNCHANGED <<owner, di, locals, iter>>

(* get_variant() first looks whether the cpu name is a UUID.               *)
GetPtr(t) ==
  /\ pc[t] = "getptr"
  /\ \/ site[t] = "slide" /\ Finish(t, "NoCpuName")
     \/ handle[Current(t)] = "closed" /\ Finish(t, "DebugInfoClosed")
     \/ handle[Current(t)] # "closed" /\ Goto(t, "native") /\ UNCHANGED result
  /\ UNCHANGED <<owner, objects, di, site, path, frames, held, leaked, iter>>

(* debug_info_get_variants allocates the array it returns and cannot fail. *)
(* debug_info_get_compilation_dir returns a string inside the mapped file; *)
(* a DwarfLookupError is swallowed, any other error propagates.            *)
NativeCall(t) ==
  /\ pc[t] = "native"
  /\ \/ /\ site[t] = "slide"
        /\ held' = [held EXCEPT ![t] = @ \cup {"variants"}]
        /\ Goto(t, "copy") /\ UNCHANGED result
     \/ /\ site[t] = "frame"
        /\ UNCHANGED held
        /\ \/ Finish(t, "DebugInfoError")
           \/ (\E l \in {"copy", "made"} : Goto(t, l)) /\ UNCHANGED result
  /\ UNCHANGED <<owner, objects, di, site, path, frames, leaked, iter>>

(* The strings are copied out of the Rust object; the array of variants is *)
(* a local that goes away without debug_free_variants().  Its strings are  *)
(* UTF-8, those of the DWARF data are not always.                          *)
Copy(t) ==
  /\ pc[t] = "copy"
  /\ \/ site[t] = "frame" /\ Finish(t, "UnicodeDecodeError")
     \/ /\ Goto(t, IF site[t] = "slide" THEN "cpu" ELSE "made")
        /\ UNCHANGED result
  /\ held' = [held EXCEPT ![t] = @ \ {"variants"}]
  /\ leaked' = leaked \cup (held[t] \cap {"variants"})
  /\ UNCHANGED <<owner, objects, di, site, path, frames, iter>>

-----------------------------------------------------------------------------
(* symbolize(): the part that holds the lock.                              *)

PtrCheck(t) ==
  /\ pc[t] = "ptrcheck"
  /\ \/ engine = "closed" /\ Finish(t, "Closed")
     \/ engine # "closed" /\ Goto(t, "enter") /\ UNCHANGED result
  /\ UNCHANGED <<owner, objects, di, site, path, frames, held, leaked, iter>>

(* self._ptr is read again to pass it; None is no llvm_symbolizer_t *.     *)
(* Path and cpu name are joined before cffi converts the arguments in      *)
(* their order, and the sum of the addresses can be negative.              *)
EnterEngine(t) ==
  /\ pc[t] = "enter"
  /\ \/ Finish(t, "UnicodeDecodeError")
     \/ engine = "closed" /\ Finish(t, "TypeError")
     \/ engine # "closed" /\ Finish(t, "OverflowError")
     \/ engine # "closed" /\ Goto(t, "engine") /\ UNCHANGED result
  /\ UNCHANGED <<owner, objects, di, site, path, frames, held, leaked, iter>>

(* Mutant: the count of frames is one too high.                            *)
OffByOneEngineCall(t) ==
  /\ pc[t] = "engine"
  /\ \E n \in 0..MaxFrames : frames' = [frames EXCEPT ![t] = n + 1]
  /\ held' = [held EXCEPT ![t] = @ \cup {"symbols"}]
  /\ Goto(t, "frame")
  /\ UNCHANGED <<owner, objects, di, site, path, result, leaked, iter>>

(* The LLVM call returns an error, one symbol, or the frames of an inlined *)
(* address.  With no frames the struct prepared for the first of them      *)
(* ("scratch") is neither returned nor freed.                              *)
EngineCall(t) ==
  /\ pc[t] = "engine"
  /\ \/ /\ held' = [held EXCEPT ![t] = @ \cup {"error"}]
        /\ Finish(t, "SymbolicationError")
        /\ UNCHANGED <<frames, leaked>>
     \/ /\ held' = [held EXCEPT ![t] = @ \cup {"symbol"}]
        /\ frames' = [frames EXCEPT ![t] = 1]
        /\ Goto(t, "frame") /\ UNCHANGED <<leaked, result>>
     \/ \E n \in 0..MaxFrames :
          /\ held' = [held EXCEPT ![t] = @ \cup {"symbols"}]
          /\ frames' = [frames EXCEPT ![t] = n]
          /\ leaked' = IF n = 0 THEN leaked \cup {"scratch"} ELSE leaked
          /\ Goto(t, "frame") /\ UNCHANGED result
  /\ UNCHANGED <<owner, objects, di, site, path, iter>>

(* Mutant: the bulk allocation is not released.                            *)
LeakyFrame(t) ==
  /\ pc[t] = "frame"
  /\ \/ frames[t] = 0 /\ Finish(t, "ok")
     \/ /\ frames[t] > 0
        /\ (\E l \in {"lookup", "made"} : Goto(t, l))
        /\ UNCHANGED result
  /\ UNCHANGED <<owner, objects, di, site, path, frames, held, leaked, iter>>

(* _make_frame(): a struct without a name or a filename needs no debug     *)
(* info.  After the last one the bulk allocation is released.              *)
Frame(t) ==
  /\ pc[t] = "frame"
  /\ \/ /\ frames[t] = 0
        /\ held' = [held EXCEPT ![t] = @ \ {"symbols"}]
        /\ Finish(t, "ok")
     \/ /\ frames[t] > 0
        /\ (\E l \in {"lookup", "made"} : Goto(t, l))
        /\ UNCHANGED <<held, result>>
  /\ UNCHANGED <<owner, objects, di, site, path, frames, leaked, iter>>

(* Mutant: the loop over the frames does not advance.                      *)
StuckMadeFrame(t) ==
  /\ pc[t] = "made"
  /\ Bind(t, "frame", NoHandle)
  /\ handle' = Reap(handle, cache, di')
  /\ Goto(t, "frame")
  /\ UNCHANGED <<owner, cache, site, path, frames, held, result, leaked, iter>>

(* Mutant: the cached DebugInfo is closed after each frame.                *)
ClosingMadeFrame(t) ==
  /\ pc[t] = "made"
  /\ frames' = [frames EXCEPT ![t] = @ - 1]
  /\ Bind(t, "frame", NoHandle)
  /\ handle' = Reap([h \in Handle |-> IF h = Current(t) THEN "closed" ELSE handle[h]],
                    cache, di')
  /\ Goto(t, "frame")
  /\ UNCHANGED <<owner, cache, site, path, held, result, leaked, iter>>

MadeFrame(t) ==
  /\ pc[t] = "made"
  /\ frames' = [frames EXCEPT ![t] = @ - 1]
  /\ Bind(t, "frame", NoHandle)
  /\ handle' = Reap(handle, cache, di')
  /\ Goto(t, "frame")
  /\ UNCHANGED <<owner, cache, site, path, held, result, leaked, iter>>

(* A call that has a result or an exception: the finally clauses free the  *)
(* error or the symbol, with self._lock exits, the locals go away.         *)
Unwind(t) ==
  /\ pc[t] = "unwind"
  /\ lock' = IF lock = t THEN NoThread ELSE lock
  /\ held' = [held EXCEPT ![t] = {}]
  /\ leaked' = leaked \cup (held[t] \ {"error", "symbol"})
  /\ di' = [di EXCEPT ![t] = NoLocals]
  /\ handle' = Reap(handle, cache, di')
  /\ site' = [site EXCEPT ![t] = "slide"]
  /\ frames' = [frames EXCEPT ![t] = 0]
  /\ todo' = [todo EXCEPT ![t] = {}]
  /\ size' = [size EXCEPT ![t] = 0]
  /\ result' = [result EXCEPT ![t] = "none"]
  /\ Goto(t, "idle")
  /\ UNCHANGED <<closed, alive, engine, cache, path>>

-----------------------------------------------------------------------------
(* close() of the driver and of the low level symbolizer, and __del__.     *)

CloseBegin(t) ==
  /\ alive /\ pc[t] = "idle"
  /\ SerialClose => Quiet
  /\ site' = [site EXCEPT ![t] = "close"]
  /\ Goto(t, "c_guard")
  /\ UNCHANGED <<owner, objects, di, path, frames, held, result, leaked, iter>>

(* The last reference to the driver is dropped: __del__ of the low level   *)
(* symbolizer runs its close().                                            *)
Drop(t) ==
  /\ alive /\ Quiet
  /\ alive' = FALSE
  /\ site' = [site EXCEPT ![t] = "close"]
  /\ Goto(t, "c_ptr")
  /\ UNCHANGED <<closed, engine, lock, objects, di, path, frames, held, result, leaked, iter>>

CloseGuard(t) ==
  /\ pc[t] = "c_guard"
  /\ Goto(t, IF closed THEN "c_set" ELSE "c_ptr")
  /\ UNCHANGED <<owner, objects, di, locals, iter>>

(* Mutant: the engine is left to the garbage collector.                    *)
SkippingClosePtr(t) ==
  /\ pc[t] = "c_ptr"
  /\ Goto(t, "c_iter")
  /\ UNCHANGED <<owner, objects, di, locals, iter>>

(* Mutant: close() returns early once the engine is gone.                  *)
EarlyClosePtr(t) ==
  /\ pc[t] = "c_ptr"
  /\ Goto(t, IF engine = "closed" THEN "c_set" ELSE "c_enter")
  /\ UNCHANGED <<owner, objects, di, locals, iter>>

ClosePtr(t) ==
  /\ pc[t] = "c_ptr"
  /\ Goto(t, IF engine = "closed" THEN "c_iter" ELSE "c_enter")
  /\ UNCHANGED <<owner, objects, di, locals, iter>>

CloseEnter(t) ==
  /\ pc[t] = "c_enter"
  /\ \/ engine = "closed" /\ Finish(t, "TypeError")
     \/ engine # "closed" /\ Goto(t, "c_free") /\ UNCHANGED result
  /\ UNCHANGED <<owner, objects, di, site, path, frames, held, leaked, iter>>

CloseFree(t) ==
  /\ pc[t] = "c_free"
  /\ engine' = IF engine = "open" THEN "dangling" ELSE engine
  /\ Goto(t, "c_null")
  /\ UNCHANGED <<closed, alive, lock, objects, di, locals, iter>>

(* Mutant: the pointer is not reset.                                       *)
KeepingCloseNull(t) ==
  /\ pc[t] = "c_null"
  /\ Goto(t, "c_iter")
  /\ UNCHANGED <<owner, objects, di, locals, iter>>

CloseNull(t) ==
  /\ pc[t] = "c_null"
  /\ engine' = "closed"
  /\ Goto(t, "c_iter")
  /\ UNCHANGED <<closed, alive, lock, objects, di, locals, iter>>

CloseIter(t) ==
  /\ pc[t] = "c_iter"
  /\ todo' = [todo EXCEPT ![t] = Cached]
  /\ size' = [size EXCEPT ![t] = Cardinality(Cached)]
  /\ Goto(t, IF Cached = {} THEN "c_set" ELSE "c_next")
  /\ UNCHANGED <<owner, objects, di, locals>>

(* Mutant: the iteration does not advance.                                 *)
StuckCloseNext(t) ==
  /\ pc[t] = "c_next"
  /\ \E p \in todo[t] : Bind(t, "close", cache[p])
  /\ handle' = Reap(handle, cache, di')
  /\ Goto(t, "d_check")
  /\ UNCHANGED <<owner, cache, locals, iter>>

(* The dict iterator refuses to go on once the dict has another size.      *)
CloseNext(t) ==
  /\ pc[t] = "c_next"
  /\ \/ /\ Cardinality(Cached) # size[t]
        /\ Finish(t, "IterError")
        /\ UNCHANGED <<di, handle, todo>>
     \/ /\ Cardinality(Cached) = size[t]
        /\ todo[t] \cap Cached = {}
        /\ Goto(t, "c_clear")
        /\ UNCHANGED <<di, handle, todo, result>>
     \/ /\ Cardinality(Cached) = size[t]
        /\ \E p \in todo[t] \cap Cached :
             /\ todo' = [todo EXCEPT ![t] = @ \ {p}]
             /\ Bind(t, "close", cache[p])
        /\ handle' = Reap(handle, cache, di')
        /\ Goto(t, "d_check") /\ UNCHANGED result
  /\ UNCHANGED <<owner, cache, site, path, frames, held, leaked, size>>

DiCheck(t) ==
  /\ pc[t] = "d_check"
  /\ Goto(t, IF handle[Current(t)] = "closed" THEN "d_null" ELSE "d_enter")
  /\ UNCHANGED <<owner, objects, di, locals, iter>>

DiEnter(t) ==
  /\ pc[t] = "d_enter"
  /\ \/ handle[Current(t)] = "closed" /\ Finish(t, "TypeError")
     \/ handle[Current(t)] # "closed" /\ Goto(t, "d_free") /\ UNCHANGED result
  /\ UNCHANGED <<owner, objects, di, site, path, frames, held, leaked, iter>>

DiFree(t) ==
  /\ pc[t] = "d_free"
  /\ handle' = [handle EXCEPT ![Current(t)] = IF @ = "open" THEN "dangling" ELSE @]
  /\ Goto(t, "d_null")
  /\ UNCHANGED <<owner, cache, di, locals, iter>>

DiNull(t) ==
  /\ pc[t] = "d_null"
  /\ handle' = [handle EXCEPT ![Current(t)] = "closed"]
  /\ Goto(t, "c_next")
  /\ UNCHANGED <<owner, cache, di, locals, iter>>

(* Mutant: the dict is not emptied.                                        *)
KeepingCloseClear(t) ==
  /\ pc[t] = "c_clear"
  /\ di' = [di EXCEPT ![t] = NoLocals]
  /\ handle' = Reap(handle, cache, di')
  /\ Goto(t, "c_set")
  /\ UNCHANGED <<owner, cache, locals, iter>>

CloseClear(t) ==
  /\ pc[t] = "c_clear"
  /\ cache' = [p \in Path |-> NoHandle]
  /\ di' = [di EXCEPT ![t] = NoLocals]
  /\ handle' = Reap(handle, cache', di')
  /\ Goto(t, "c_set")
  /\ UNCHANGED <<owner, locals, iter>>

(* Back in the driver, if it still exists.                                 *)
CloseSet(t) ==
  /\ pc[t] = "c_set"
  /\ closed' = (closed \/ alive)
  /\ Finish(t, "ok")
  /\ UNCHANGED <<alive, engine, lock, objects, di, site, path, frames, held, leaked, iter>>

-----------------------------------------------------------------------------
Fetch(t) == Lookup(t) \/ Open(t) \/ Insert(t) \/ GetPtr(t) \/ NativeCall(t) \/ Copy(t)
UnderLock(t) ==
  PtrCheck(t) \/ EnterEngine(t) \/ EngineCall(t) \/ Frame(t) \/ MadeFrame(t)
Close(t) ==
  \/ CloseGuard(t) \/ ClosePtr(t) \/ CloseEnter(t) \/ CloseFree(t) \/ CloseNull(t)
  \/ CloseIter(t) \/ CloseNext(t) \/ CloseClear(t) \/ CloseSet(t)
  \/ DiCheck(t) \/ DiEnter(t) \/ DiFree(t) \/ DiNull(t)

(* What a thread does once it has called the driver.                       *)
Step(t) ==
  Guard(t) \/ Cpu(t) \/ Acquire(t) \/ Fetch(t) \/ UnderLock(t) \/ Unwind(t) \/ Close(t)

Next ==
  \E t \in Thread :
    \/ \E p \in Path : Begin(t, p)
    \/ CloseBegin(t) \/ Drop(t)
    \/ Step(t)

Spec == Init /\ [][Next]_vars
(* The operating system keeps scheduling a thread that can run.            *)
FairSpec == Spec /\ \A t \in Thread : WF_vars(Step(t))

=============================================================================
