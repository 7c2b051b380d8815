-------------------------- MODULE SymbolizerProofs --------------------------
(***************************************************************************)
(* The driver for any number of threads, paths, DebugInfo objects and      *)
(* frames.  The first three parts make no assumption about close(); the    *)
(* others assume, as callers arrange, that it does not overlap a call.     *)
(***************************************************************************)
EXTENDS SymbolizerInvariant, FiniteSetTheorems, TLAPS

-----------------------------------------------------------------------------
(* Part 1: types, program points and the lock.                             *)

LEMMA CachedCount == Cardinality(Cached) \in Nat
  <1>1. IsFiniteSet(Cached)
    BY SymbolizerAssumption, FS_Subset DEF Cached
  <1>2. QED
    BY <1>1, FS_CardinalityType

LEMMA PCNames ==
  PC = {"idle", "guard", "cpu", "acquire", "unwind", "lookup", "open", "insert", "getptr", "native", "copy",
        "ptrcheck", "enter", "engine", "frame", "made", "c_guard", "c_ptr", "c_enter", "c_free",
        "c_null", "c_iter", "c_next", "d_check", "d_enter", "d_free", "d_null", "c_clear", "c_set"}
  BY DEF PC, Fetching, Locked, Closing

LEMMA OutcomeNames ==
  Outcome = {"none", "ok", "Closed", "NotFound", "SymbolicationError", "DebugInfoError",
             "TypeError", "DebugInfoClosed", "IterError",
             "ValueError", "NoCpuName", "OverflowError", "UnicodeDecodeError"}
  BY DEF Outcome, Declared, Internal, Stray

LEMMA InitBase == Init => Base
  <1> SUFFICES ASSUME Init PROVE Base
    OBVIOUS
  <1>1. TypeOK
    <2>1. pc \in [Thread -> PC] /\ result \in [Thread -> Outcome]
      BY PCNames, OutcomeNames DEF Init
    <2>2. di \in [Thread -> [Site -> Handle \cup {NoHandle}]]
      BY DEF Init, NoLocals
    <2>3. frames \in [Thread -> 0..MaxFrames] /\ size \in [Thread -> Nat]
      BY SymbolizerAssumption DEF Init
    <2>4. QED
      BY <2>1, <2>2, <2>3 DEF Init, TypeOK, Engine, Object, Site, Alloc
  <1>2. SiteInv /\ LockInv /\ FramesInv
    BY DEF Init, SiteInv, LockInv, FramesInv, InLock, Fetching, Locked, Closing
  <1>3. QED
    BY <1>1, <1>2 DEF Base

(* What the three outcomes of a call into LLVM have in common.             *)
LEMMA EngineCallEffect ==
  ASSUME NEW t \in Thread, EngineCall(t)
  PROVE  /\ \E l \in {"unwind", "frame"} : pc' = [pc EXCEPT ![t] = l]
         /\ \/ result' = result
            \/ result' = [result EXCEPT ![t] = "SymbolicationError"]
         /\ \E x \in {"error", "symbol", "symbols"} : held' = [held EXCEPT ![t] = @ \cup {x}]
         /\ leaked' = leaked \/ leaked' = leaked \cup {"scratch"}
         /\ frames' = frames \/ \E n \in 0..MaxFrames : frames' = [frames EXCEPT ![t] = n]
  <1>0. 1 \in 0..MaxFrames
    BY SymbolizerAssumption
  <1>1. CASE Finish(t, "SymbolicationError") /\ UNCHANGED <<frames, leaked>>
             /\ held' = [held EXCEPT ![t] = @ \cup {"error"}]
    BY <1>1 DEF Finish, Goto
  <1>2. CASE Goto(t, "frame") /\ UNCHANGED <<leaked, result>>
             /\ frames' = [frames EXCEPT ![t] = 1]
             /\ held' = [held EXCEPT ![t] = @ \cup {"symbol"}]
    BY <1>0, <1>2 DEF Goto
  <1>3. CASE Goto(t, "frame") /\ UNCHANGED result
             /\ held' = [held EXCEPT ![t] = @ \cup {"symbols"}]
             /\ \E n \in 0..MaxFrames :
                  /\ frames' = [frames EXCEPT ![t] = n]
                  /\ leaked' = IF n = 0 THEN leaked \cup {"scratch"} ELSE leaked
    BY <1>3 DEF Goto
  <1>4. QED
    BY <1>1, <1>2, <1>3 DEF EngineCall

(* How the four idioms of the actions keep their variables in range.       *)
LEMMA GotoType ==
  ASSUME pc \in [Thread -> PC], NEW t \in Thread, NEW l \in PC, Goto(t, l)
  PROVE  pc' \in [Thread -> PC]
  BY DEF Goto

LEMMA FinishType ==
  ASSUME pc \in [Thread -> PC], result \in [Thread -> Outcome],
         NEW t \in Thread, NEW r \in Outcome, Finish(t, r)
  PROVE  pc' \in [Thread -> PC] /\ result' \in [Thread -> Outcome]
  <1>1. "unwind" \in PC
    BY DEF PC
  <1>2. QED
    BY <1>1 DEF Finish, Goto

LEMMA BindType ==
  ASSUME di \in [Thread -> [Site -> Handle \cup {NoHandle}]],
         NEW t \in Thread, NEW s \in Site, NEW h \in Handle \cup {NoHandle}, Bind(t, s, h)
  PROVE  di' \in [Thread -> [Site -> Handle \cup {NoHandle}]]
  BY DEF Bind

LEMMA ReapType ==
  ASSUME handle \in [Handle -> Object], NEW c, NEW d
  PROVE  Reap(handle, c, d) \in [Handle -> Object]
  BY DEF Reap, Object

(* Types: one variable at a time.                                          *)
LEMMA StepType == Base /\ [Next]_vars => TypeOK'
  <1> SUFFICES ASSUME Base, [Next]_vars PROVE TypeOK'
    OBVIOUS
  <1>a. TypeOK /\ FramesInv
    BY DEF Base
  <1> USE <1>a DEF TypeOK
  <1>1. ASSUME NEW t \in Thread, NEW p \in Path, Begin(t, p) PROVE TypeOK'
    <2>1. pc' \in [Thread -> PC]
      BY <1>1, GotoType, PCNames DEF Begin
    <2>2. QED
      BY <1>1, <2>1 DEF Begin, owner, objects, locals, iter
  <1>2. ASSUME NEW t \in Thread, Guard(t) PROVE TypeOK'
    <2>1. \/ (UNCHANGED result /\ \E l \in {"lookup", "cpu"} : Goto(t, l))
          \/ (\E r \in {"Closed", "NotFound", "ValueError"} : Finish(t, r))
      BY <1>2 DEF Guard
    <2>2. pc' \in [Thread -> PC] /\ result' \in [Thread -> Outcome]
      BY <2>1, GotoType, FinishType, PCNames, OutcomeNames
    <2>3. QED
      BY <1>2, <2>2 DEF Guard, owner, objects, locals, iter
  <1>3. ASSUME NEW t \in Thread, Cpu(t) PROVE TypeOK'
    <2>1. \/ (UNCHANGED result /\ \E l \in {"acquire"} : Goto(t, l))
          \/ (\E r \in {"SymbolicationError", "ValueError", "NoCpuName"} : Finish(t, r))
      BY <1>3 DEF Cpu
    <2>2. pc' \in [Thread -> PC] /\ result' \in [Thread -> Outcome]
      BY <2>1, GotoType, FinishType, PCNames, OutcomeNames
    <2>3. QED
      BY <1>3, <2>2 DEF Cpu, owner, objects, locals, iter
  <1>4. ASSUME NEW t \in Thread, Acquire(t) PROVE TypeOK'
    <2>1. pc' \in [Thread -> PC]
      BY <1>4, GotoType, PCNames DEF Acquire
    <2>2. QED
      BY <1>4, <2>1 DEF Acquire, owner, objects, locals, iter, Site
  <1>5. ASSUME NEW t \in Thread, Lookup(t) PROVE TypeOK'
    <2>1. cache[path[t]] \in Handle \cup {NoHandle} /\ site[t] \in Site
      OBVIOUS
    <2>2. di' \in [Thread -> [Site -> Handle \cup {NoHandle}]]
      BY <1>5, <2>1, BindType DEF Lookup
    <2>3. \E l \in {"open", "getptr"} : Goto(t, l)
      BY <1>5 DEF Lookup
    <2>4. pc' \in [Thread -> PC]
      BY <2>3, GotoType, PCNames
    <2>5. QED
      BY <1>5, <2>2, <2>4 DEF Lookup, owner, objects, locals, iter
  <1>6. ASSUME NEW t \in Thread, Open(t) PROVE TypeOK'
    <2>1. \/ (UNCHANGED result /\ \E l \in {"insert"} : Goto(t, l))
          \/ (\E r \in {"DebugInfoError"} : Finish(t, r))
      BY <1>6 DEF Open
    <2>2. pc' \in [Thread -> PC] /\ result' \in [Thread -> Outcome]
      BY <2>1, GotoType, FinishType, PCNames, OutcomeNames
    <2>3. di' \in [Thread -> [Site -> Handle \cup {NoHandle}]]
      <3>1. UNCHANGED di \/ \E h \in Handle : Bind(t, site[t], h)
        BY <1>6 DEF Open
      <3>2. QED
        BY <3>1, BindType
    <2>4. handle' \in [Handle -> Object]
      BY <1>6 DEF Open, Object, Engine
    <2>5. QED
      BY <1>6, <2>2, <2>3, <2>4 DEF Open, owner, objects, locals, iter
  <1>7. ASSUME NEW t \in Thread, Insert(t) PROVE TypeOK'
    <2>1. pc' \in [Thread -> PC]
      BY <1>7, GotoType, PCNames DEF Insert
    <2>2. cache' \in [Path -> Handle \cup {NoHandle}]
      BY <1>7 DEF Insert, Current
    <2>3. handle' \in [Handle -> Object]
      BY <1>7, ReapType DEF Insert
    <2>4. QED
      BY <1>7, <2>1, <2>2, <2>3 DEF Insert, owner, objects, locals, iter
  <1>8. ASSUME NEW t \in Thread, GetPtr(t) PROVE TypeOK'
    <2>1. \/ (UNCHANGED result /\ \E l \in {"native"} : Goto(t, l))
          \/ (\E r \in {"DebugInfoClosed", "NoCpuName"} : Finish(t, r))
      BY <1>8 DEF GetPtr
    <2>2. pc' \in [Thread -> PC] /\ result' \in [Thread -> Outcome]
      BY <2>1, GotoType, FinishType, PCNames, OutcomeNames
    <2>3. QED
      BY <1>8, <2>2 DEF GetPtr, owner, objects, locals, iter
  <1>9. ASSUME NEW t \in Thread, NativeCall(t) PROVE TypeOK'
    <2>1. \/ (UNCHANGED result /\ \E l \in {"copy", "made"} : Goto(t, l))
          \/ (\E r \in {"DebugInfoError"} : Finish(t, r))
      BY <1>9 DEF NativeCall
    <2>2. pc' \in [Thread -> PC] /\ result' \in [Thread -> Outcome]
      BY <2>1, GotoType, FinishType, PCNames, OutcomeNames
    <2>3. held' \in [Thread -> SUBSET Alloc]
      <3>1. held[t] \cup {"variants"} \in SUBSET Alloc
        BY DEF Alloc
      <3>2. QED
        BY <1>9, <3>1 DEF NativeCall
    <2>4. QED
      BY <1>9, <2>2, <2>3 DEF NativeCall, owner, objects, locals, iter
  <1>10. ASSUME NEW t \in Thread, Copy(t) PROVE TypeOK'
    <2>1. \/ (UNCHANGED result /\ \E l \in {"cpu", "made"} : Goto(t, l))
          \/ (\E r \in {"UnicodeDecodeError"} : Finish(t, r))
      BY <1>10 DEF Copy
    <2>2. pc' \in [Thread -> PC] /\ result' \in [Thread -> Outcome]
      BY <2>1, GotoType, FinishType, PCNames, OutcomeNames
    <2>3. held' \in [Thread -> SUBSET Alloc] /\ leaked' \subseteq Alloc
      BY <1>10 DEF Copy
    <2>4. QED
      BY <1>10, <2>2, <2>3 DEF Copy, owner, objects, locals, iter
  <1>11. ASSUME NEW t \in Thread, PtrCheck(t) PROVE TypeOK'
    <2>1. \/ (UNCHANGED result /\ \E l \in {"enter"} : Goto(t, l))
          \/ (\E r \in {"Closed"} : Finish(t, r))
      BY <1>11 DEF PtrCheck
    <2>2. pc' \in [Thread -> PC] /\ result' \in [Thread -> Outcome]
      BY <2>1, GotoType, FinishType, PCNames, OutcomeNames
    <2>3. QED
      BY <1>11, <2>2 DEF PtrCheck, owner, objects, locals, iter
  <1>12. ASSUME NEW t \in Thread, EnterEngine(t) PROVE TypeOK'
    <2>1. \/ (UNCHANGED result /\ \E l \in {"engine"} : Goto(t, l))
          \/ (\E r \in {"UnicodeDecodeError", "TypeError", "OverflowError"} : Finish(t, r))
      BY <1>12 DEF EnterEngine
    <2>2. pc' \in [Thread -> PC] /\ result' \in [Thread -> Outcome]
      BY <2>1, GotoType, FinishType, PCNames, OutcomeNames
    <2>3. QED
      BY <1>12, <2>2 DEF EnterEngine, owner, objects, locals, iter
  <1>13. ASSUME NEW t \in Thread, EngineCall(t) PROVE TypeOK'
    <2>1. /\ pc \in [Thread -> PC] /\ result \in [Thread -> Outcome]
          /\ held \in [Thread -> SUBSET Alloc] /\ leaked \subseteq Alloc
          /\ frames \in [Thread -> 0..MaxFrames]
      OBVIOUS
    <2>2. /\ pc' \in [Thread -> PC] /\ result' \in [Thread -> Outcome]
          /\ held' \in [Thread -> SUBSET Alloc] /\ leaked' \subseteq Alloc
          /\ frames' \in [Thread -> 0..MaxFrames]
      <3> HIDE DEF TypeOK
      <3>1. pc' \in [Thread -> PC]
        BY <1>13, <2>1, EngineCallEffect, PCNames
      <3>2. result' \in [Thread -> Outcome]
        BY <1>13, <2>1, EngineCallEffect, OutcomeNames
      <3>3. \A x \in {"error", "symbol", "symbols", "scratch"} : x \in Alloc
        BY DEF Alloc
      <3>4. held' \in [Thread -> SUBSET Alloc]
        BY <1>13, <2>1, <3>3, EngineCallEffect
      <3>5. leaked' \subseteq Alloc
        BY <1>13, <2>1, <3>3, EngineCallEffect
      <3>6. frames' \in [Thread -> 0..MaxFrames]
        BY <1>13, <2>1, EngineCallEffect
      <3>7. QED
        BY <3>1, <3>2, <3>4, <3>5, <3>6
    <2>3. QED
      BY <1>13, <2>2 DEF EngineCall, owner, objects, locals, iter
  <1>14. ASSUME NEW t \in Thread, Frame(t) PROVE TypeOK'
    <2>1. \/ (UNCHANGED result /\ \E l \in {"lookup", "made"} : Goto(t, l))
          \/ (\E r \in {"ok"} : Finish(t, r))
      BY <1>14 DEF Frame
    <2>2. pc' \in [Thread -> PC] /\ result' \in [Thread -> Outcome]
      BY <2>1, GotoType, FinishType, PCNames, OutcomeNames
    <2>3. held' \in [Thread -> SUBSET Alloc]
      <3>1. held[t] \ {"symbols"} \in SUBSET Alloc
        OBVIOUS
      <3>2. QED
        BY <1>14, <3>1 DEF Frame
    <2>4. QED
      BY <1>14, <2>2, <2>3 DEF Frame, owner, objects, locals, iter
  <1>15. ASSUME NEW t \in Thread, MadeFrame(t) PROVE TypeOK'
    <2>1. pc' \in [Thread -> PC]
      BY <1>15, GotoType, PCNames DEF MadeFrame
    <2>2. frames' \in [Thread -> 0..MaxFrames]
      <3>1. frames[t] > 0 /\ frames[t] \in 0..MaxFrames
        BY <1>15 DEF MadeFrame, FramesInv, InLock, Locked
      <3>2. frames[t] - 1 \in 0..MaxFrames
        BY <3>1, SymbolizerAssumption
      <3>3. QED
        BY <1>15, <3>2 DEF MadeFrame
    <2>3. di' \in [Thread -> [Site -> Handle \cup {NoHandle}]]
      BY <1>15, BindType DEF MadeFrame, Site
    <2>4. handle' \in [Handle -> Object]
      BY <1>15, ReapType DEF MadeFrame
    <2>5. QED
      BY <1>15, <2>1, <2>2, <2>3, <2>4 DEF MadeFrame, owner, objects, locals, iter
  <1>16. ASSUME NEW t \in Thread, Unwind(t) PROVE TypeOK'
    <2>1. pc' \in [Thread -> PC] /\ result' \in [Thread -> Outcome]
      <3>1. "idle" \in PC /\ "none" \in Outcome
        BY PCNames, OutcomeNames
      <3>2. QED
        BY <1>16, <3>1 DEF Unwind, Goto
    <2>2. di' \in [Thread -> [Site -> Handle \cup {NoHandle}]]
      <3>1. NoLocals \in [Site -> Handle \cup {NoHandle}]
        BY DEF NoLocals
      <3>2. QED
        BY <1>16, <3>1 DEF Unwind
    <2>3. handle' \in [Handle -> Object]
      BY <1>16, ReapType DEF Unwind
    <2>4. /\ held' \in [Thread -> SUBSET Alloc] /\ leaked' \subseteq Alloc
          /\ site' \in [Thread -> Site]
      BY <1>16 DEF Unwind, Site
    <2>5. frames' \in [Thread -> 0..MaxFrames]
      <3>1. 0 \in 0..MaxFrames
        BY SymbolizerAssumption
      <3>2. QED
        BY <1>16, <3>1 DEF Unwind
    <2>6. size' \in [Thread -> Nat] /\ todo' \in [Thread -> SUBSET Path]
      BY <1>16 DEF Unwind
    <2>7. QED
      BY <1>16, <2>1, <2>2, <2>3, <2>4, <2>5, <2>6 DEF Unwind, owner, objects, locals, iter
  <1>17. ASSUME NEW t \in Thread, CloseBegin(t) PROVE TypeOK'
    <2>1. pc' \in [Thread -> PC]
      BY <1>17, GotoType, PCNames DEF CloseBegin
    <2>2. QED
      BY <1>17, <2>1 DEF CloseBegin, owner, objects, locals, iter, Site
  <1>18. ASSUME NEW t \in Thread, Drop(t) PROVE TypeOK'
    <2>1. pc' \in [Thread -> PC]
      BY <1>18, GotoType, PCNames DEF Drop
    <2>2. QED
      BY <1>18, <2>1 DEF Drop, owner, objects, locals, iter, Site
  <1>19. ASSUME NEW t \in Thread, CloseGuard(t) PROVE TypeOK'
    <2>1. pc' \in [Thread -> PC]
      BY <1>19, GotoType, PCNames DEF CloseGuard
    <2>2. QED
      BY <1>19, <2>1 DEF CloseGuard, owner, objects, locals, iter
  <1>20. ASSUME NEW t \in Thread, ClosePtr(t) PROVE TypeOK'
    <2>1. pc' \in [Thread -> PC]
      BY <1>20, GotoType, PCNames DEF ClosePtr
    <2>2. QED
      BY <1>20, <2>1 DEF ClosePtr, owner, objects, locals, iter
  <1>21. ASSUME NEW t \in Thread, CloseEnter(t) PROVE TypeOK'
    <2>1. \/ (UNCHANGED result /\ \E l \in {"c_free"} : Goto(t, l))
          \/ (\E r \in {"TypeError"} : Finish(t, r))
      BY <1>21 DEF CloseEnter
    <2>2. pc' \in [Thread -> PC] /\ result' \in [Thread -> Outcome]
      BY <2>1, GotoType, FinishType, PCNames, OutcomeNames
    <2>3. QED
      BY <1>21, <2>2 DEF CloseEnter, owner, objects, locals, iter
  <1>22. ASSUME NEW t \in Thread, CloseFree(t) PROVE TypeOK'
    <2>1. pc' \in [Thread -> PC]
      BY <1>22, GotoType, PCNames DEF CloseFree
    <2>2. QED
      BY <1>22, <2>1 DEF CloseFree, owner, objects, locals, iter, Engine
  <1>23. ASSUME NEW t \in Thread, CloseNull(t) PROVE TypeOK'
    <2>1. pc' \in [Thread -> PC]
      BY <1>23, GotoType, PCNames DEF CloseNull
    <2>2. QED
      BY <1>23, <2>1 DEF CloseNull, owner, objects, locals, iter, Engine
  <1>24. ASSUME NEW t \in Thread, CloseIter(t) PROVE TypeOK'
    <2>1. pc' \in [Thread -> PC]
      BY <1>24, GotoType, PCNames DEF CloseIter
    <2>2. QED
      BY <1>24, <2>1, CachedCount DEF CloseIter, owner, objects, locals, iter, Cached
  <1>25. ASSUME NEW t \in Thread, CloseNext(t) PROVE TypeOK'
    <2>1. \/ (UNCHANGED result /\ \E l \in {"c_clear", "d_check"} : Goto(t, l))
          \/ (\E r \in {"IterError"} : Finish(t, r))
      BY <1>25 DEF CloseNext
    <2>2. pc' \in [Thread -> PC] /\ result' \in [Thread -> Outcome]
      BY <2>1, GotoType, FinishType, PCNames, OutcomeNames
    <2>3. todo' \in [Thread -> SUBSET Path]
      BY <1>25 DEF CloseNext
    <2>4. di' \in [Thread -> [Site -> Handle \cup {NoHandle}]]
      <3>1. UNCHANGED di \/ \E p \in Path : Bind(t, "close", cache[p])
        BY <1>25 DEF CloseNext
      <3>2. QED
        BY <3>1, BindType DEF Site
    <2>5. handle' \in [Handle -> Object]
      BY <1>25, ReapType DEF CloseNext
    <2>6. QED
      BY <1>25, <2>2, <2>3, <2>4, <2>5 DEF CloseNext, owner, objects, locals, iter
  <1>26. ASSUME NEW t \in Thread, DiCheck(t) PROVE TypeOK'
    <2>1. pc' \in [Thread -> PC]
      BY <1>26, GotoType, PCNames DEF DiCheck
    <2>2. QED
      BY <1>26, <2>1 DEF DiCheck, owner, objects, locals, iter
  <1>27. ASSUME NEW t \in Thread, DiEnter(t) PROVE TypeOK'
    <2>1. \/ (UNCHANGED result /\ \E l \in {"d_free"} : Goto(t, l))
          \/ (\E r \in {"TypeError"} : Finish(t, r))
      BY <1>27 DEF DiEnter
    <2>2. pc' \in [Thread -> PC] /\ result' \in [Thread -> Outcome]
      BY <2>1, GotoType, FinishType, PCNames, OutcomeNames
    <2>3. QED
      BY <1>27, <2>2 DEF DiEnter, owner, objects, locals, iter
  <1>28. ASSUME NEW t \in Thread, DiFree(t) PROVE TypeOK'
    <2>1. pc' \in [Thread -> PC]
      BY <1>28, GotoType, PCNames DEF DiFree
    <2>2. QED
      BY <1>28, <2>1 DEF DiFree, owner, objects, locals, iter, Object, Engine
  <1>29. ASSUME NEW t \in Thread, DiNull(t) PROVE TypeOK'
    <2>1. pc' \in [Thread -> PC]
      BY <1>29, GotoType, PCNames DEF DiNull
    <2>2. QED
      BY <1>29, <2>1 DEF DiNull, owner, objects, locals, iter, Object, Engine
  <1>30. ASSUME NEW t \in Thread, CloseClear(t) PROVE TypeOK'
    <2>1. pc' \in [Thread -> PC]
      BY <1>30, GotoType, PCNames DEF CloseClear
    <2>2. QED
      BY <1>30, <2>1, ReapType DEF CloseClear, owner, objects, locals, iter, NoLocals
  <1>31. ASSUME NEW t \in Thread, CloseSet(t) PROVE TypeOK'
    <2>1. (\E r \in {"ok"} : Finish(t, r))
      BY <1>31 DEF CloseSet
    <2>2. pc' \in [Thread -> PC] /\ result' \in [Thread -> Outcome]
      BY <2>1, GotoType, FinishType, PCNames, OutcomeNames
    <2>3. QED
      BY <1>31, <2>2 DEF CloseSet, owner, objects, locals, iter
  <1>32. CASE UNCHANGED vars
    BY <1>32 DEF vars, owner, objects, locals, iter
  <1>33. QED
    BY <1>1, <1>2, <1>3, <1>4, <1>5, <1>6, <1>7, <1>8, <1>9, <1>10, <1>11, <1>12, <1>13,
       <1>14, <1>15, <1>16, <1>17, <1>18, <1>19, <1>20, <1>21, <1>22, <1>23, <1>24, <1>25, <1>26,
       <1>27, <1>28, <1>29, <1>30, <1>31, <1>32
    DEF Next, Step, Fetch, UnderLock, Close

(* Each action of a thread moves only that thread, by one program point.   *)
LEMMA StepControl == Base /\ [Next]_vars => (SiteInv /\ LockInv /\ FramesInv)'
  <1> SUFFICES ASSUME Base, [Next]_vars PROVE (SiteInv /\ LockInv /\ FramesInv)'
    OBVIOUS
  <1>a. /\ pc \in [Thread -> PC] /\ site \in [Thread -> Site]
        /\ frames \in [Thread -> 0..MaxFrames]
    BY DEF Base, TypeOK
  <1>b. SiteInv /\ LockInv /\ FramesInv
    BY DEF Base
  <1>c. NoThread \notin Thread
    BY SymbolizerAssumption
  <1> USE <1>a, <1>b, <1>c
      DEF SiteInv, LockInv, FramesInv, InLock, Goto, Finish, owner, locals,
          Fetching, Locked, Closing
  <1>1. ASSUME NEW t \in Thread, NEW p \in Path, Begin(t, p) PROVE (SiteInv /\ LockInv /\ FramesInv)'
    BY <1>1 DEF Begin
  <1>2. ASSUME NEW t \in Thread, Guard(t) PROVE (SiteInv /\ LockInv /\ FramesInv)'
    BY <1>2 DEF Guard
  <1>3. ASSUME NEW t \in Thread, Cpu(t) PROVE (SiteInv /\ LockInv /\ FramesInv)'
    BY <1>3 DEF Cpu
  <1>4. ASSUME NEW t \in Thread, Acquire(t) PROVE (SiteInv /\ LockInv /\ FramesInv)'
    BY <1>4 DEF Acquire
  <1>5. ASSUME NEW t \in Thread, Lookup(t) PROVE (SiteInv /\ LockInv /\ FramesInv)'
    BY <1>5 DEF Lookup
  <1>6. ASSUME NEW t \in Thread, Open(t) PROVE (SiteInv /\ LockInv /\ FramesInv)'
    BY <1>6 DEF Open
  <1>7. ASSUME NEW t \in Thread, Insert(t) PROVE (SiteInv /\ LockInv /\ FramesInv)'
    BY <1>7 DEF Insert
  <1>8. ASSUME NEW t \in Thread, GetPtr(t) PROVE (SiteInv /\ LockInv /\ FramesInv)'
    BY <1>8 DEF GetPtr
  <1>9. ASSUME NEW t \in Thread, NativeCall(t) PROVE (SiteInv /\ LockInv /\ FramesInv)'
    BY <1>9 DEF NativeCall
  <1>10. ASSUME NEW t \in Thread, Copy(t) PROVE (SiteInv /\ LockInv /\ FramesInv)'
    BY <1>10 DEF Copy
  <1>11. ASSUME NEW t \in Thread, PtrCheck(t) PROVE (SiteInv /\ LockInv /\ FramesInv)'
    BY <1>11 DEF PtrCheck
  <1>12. ASSUME NEW t \in Thread, EnterEngine(t) PROVE (SiteInv /\ LockInv /\ FramesInv)'
    BY <1>12 DEF EnterEngine
  <1>13. ASSUME NEW t \in Thread, EngineCall(t) PROVE (SiteInv /\ LockInv /\ FramesInv)'
    BY <1>13 DEF EngineCall
  <1>14. ASSUME NEW t \in Thread, Frame(t) PROVE (SiteInv /\ LockInv /\ FramesInv)'
    BY <1>14 DEF Frame
  <1>15. ASSUME NEW t \in Thread, MadeFrame(t) PROVE (SiteInv /\ LockInv /\ FramesInv)'
    BY <1>15 DEF MadeFrame
  <1>16. ASSUME NEW t \in Thread, Unwind(t) PROVE (SiteInv /\ LockInv /\ FramesInv)'
    BY <1>16 DEF Unwind
  <1>17. ASSUME NEW t \in Thread, CloseBegin(t) PROVE (SiteInv /\ LockInv /\ FramesInv)'
    BY <1>17 DEF CloseBegin
  <1>18. ASSUME NEW t \in Thread, Drop(t) PROVE (SiteInv /\ LockInv /\ FramesInv)'
    BY <1>18 DEF Drop, Quiet
  <1>19. ASSUME NEW t \in Thread, CloseGuard(t) PROVE (SiteInv /\ LockInv /\ FramesInv)'
    BY <1>19 DEF CloseGuard
  <1>20. ASSUME NEW t \in Thread, ClosePtr(t) PROVE (SiteInv /\ LockInv /\ FramesInv)'
    BY <1>20 DEF ClosePtr
  <1>21. ASSUME NEW t \in Thread, CloseEnter(t) PROVE (SiteInv /\ LockInv /\ FramesInv)'
    BY <1>21 DEF CloseEnter
  <1>22. ASSUME NEW t \in Thread, CloseFree(t) PROVE (SiteInv /\ LockInv /\ FramesInv)'
    BY <1>22 DEF CloseFree
  <1>23. ASSUME NEW t \in Thread, CloseNull(t) PROVE (SiteInv /\ LockInv /\ FramesInv)'
    BY <1>23 DEF CloseNull
  <1>24. ASSUME NEW t \in Thread, CloseIter(t) PROVE (SiteInv /\ LockInv /\ FramesInv)'
    BY <1>24 DEF CloseIter
  <1>25. ASSUME NEW t \in Thread, CloseNext(t) PROVE (SiteInv /\ LockInv /\ FramesInv)'
    BY <1>25 DEF CloseNext
  <1>26. ASSUME NEW t \in Thread, DiCheck(t) PROVE (SiteInv /\ LockInv /\ FramesInv)'
    BY <1>26 DEF DiCheck
  <1>27. ASSUME NEW t \in Thread, DiEnter(t) PROVE (SiteInv /\ LockInv /\ FramesInv)'
    BY <1>27 DEF DiEnter
  <1>28. ASSUME NEW t \in Thread, DiFree(t) PROVE (SiteInv /\ LockInv /\ FramesInv)'
    BY <1>28 DEF DiFree
  <1>29. ASSUME NEW t \in Thread, DiNull(t) PROVE (SiteInv /\ LockInv /\ FramesInv)'
    BY <1>29 DEF DiNull
  <1>30. ASSUME NEW t \in Thread, CloseClear(t) PROVE (SiteInv /\ LockInv /\ FramesInv)'
    BY <1>30 DEF CloseClear
  <1>31. ASSUME NEW t \in Thread, CloseSet(t) PROVE (SiteInv /\ LockInv /\ FramesInv)'
    BY <1>31 DEF CloseSet
  <1>32. CASE UNCHANGED vars
    BY <1>32 DEF vars
  <1>33. QED
    BY <1>1, <1>2, <1>3, <1>4, <1>5, <1>6, <1>7, <1>8, <1>9, <1>10, <1>11, <1>12, <1>13,
       <1>14, <1>15, <1>16, <1>17, <1>18, <1>19, <1>20, <1>21, <1>22, <1>23, <1>24, <1>25, <1>26,
       <1>27, <1>28, <1>29, <1>30, <1>31, <1>32
    DEF Next, Step, Fetch, UnderLock, Close

LEMMA StepBase == Base /\ [Next]_vars => Base'
  BY StepType, StepControl DEF Base

LEMMA BaseImplies == Base => TypeOK /\ EngineExclusive
  BY SymbolizerAssumption
  DEF Base, TypeOK, LockInv, InLock, EngineExclusive, Locked

THEOREM BaseInductive == Spec => []Base
  <1>1. QED
    BY InitBase, StepBase, PTL DEF Spec

(* Every variable of the driver stays in its range.                        *)
THEOREM TypeCorrect == Spec => []TypeOK
  BY BaseInductive, BaseImplies, PTL

(* At most one thread is inside LLVM, also when close() interferes.        *)
THEOREM MutualExclusion == Spec => []EngineExclusive
  BY BaseInductive, BaseImplies, PTL

-----------------------------------------------------------------------------
(* Part 2: references, the cache and the objects they keep alive.          *)

(* The local variables that hold a DebugInfo.                              *)
LEMMA StepDi == Base /\ DiInv /\ [Next]_vars => DiInv'
  <1> SUFFICES ASSUME Base /\ DiInv, [Next]_vars PROVE DiInv'
    OBVIOUS
  <1>a. /\ pc \in [Thread -> PC] /\ site \in [Thread -> Site]
        /\ di \in [Thread -> [Site -> Handle \cup {NoHandle}]]
        /\ cache \in [Path -> Handle \cup {NoHandle}] /\ path \in [Thread -> Path]
        /\ SiteInv
    BY DEF Base, TypeOK
  <1>b. NoHandle \notin Handle
    BY SymbolizerAssumption
  <1> USE <1>a, <1>b
      DEF DiInv, SiteInv, Goto, Finish, Bind, Current, InClose, NoLocals, owner, objects,
          locals, iter, Fetching, Locked, Closing, Site
  <1>1. ASSUME NEW t \in Thread, NEW p \in Path, Begin(t, p) PROVE DiInv'
    BY <1>1 DEF Begin
  <1>2. ASSUME NEW t \in Thread, Guard(t) PROVE DiInv'
    BY <1>2 DEF Guard
  <1>3. ASSUME NEW t \in Thread, Cpu(t) PROVE DiInv'
    BY <1>3 DEF Cpu
  <1>4. ASSUME NEW t \in Thread, Acquire(t) PROVE DiInv'
    BY <1>4 DEF Acquire
  <1>5. ASSUME NEW t \in Thread, Lookup(t) PROVE DiInv'
    BY <1>5 DEF Lookup
  <1>6. ASSUME NEW t \in Thread, Open(t) PROVE DiInv'
    <2>1. pc[t] = "open" /\ UNCHANGED site
      BY <1>6 DEF Open
    <2>2. CASE Finish(t, "DebugInfoError") /\ UNCHANGED di
      BY <2>1, <2>2
    <2>3. ASSUME NEW h \in Handle, Bind(t, site[t], h), Goto(t, "insert") PROVE DiInv'
      BY <2>1, <2>3
    <2>4. QED
      BY <1>6, <2>2, <2>3 DEF Open
  <1>7. ASSUME NEW t \in Thread, Insert(t) PROVE DiInv'
    BY <1>7 DEF Insert
  <1>8. ASSUME NEW t \in Thread, GetPtr(t) PROVE DiInv'
    BY <1>8 DEF GetPtr
  <1>9. ASSUME NEW t \in Thread, NativeCall(t) PROVE DiInv'
    BY <1>9 DEF NativeCall
  <1>10. ASSUME NEW t \in Thread, Copy(t) PROVE DiInv'
    BY <1>10 DEF Copy
  <1>11. ASSUME NEW t \in Thread, PtrCheck(t) PROVE DiInv'
    BY <1>11 DEF PtrCheck
  <1>12. ASSUME NEW t \in Thread, EnterEngine(t) PROVE DiInv'
    BY <1>12 DEF EnterEngine
  <1>13. ASSUME NEW t \in Thread, EngineCall(t) PROVE DiInv'
    BY <1>13 DEF EngineCall
  <1>14. ASSUME NEW t \in Thread, Frame(t) PROVE DiInv'
    <2>1. pc[t] = "frame"
      BY <1>14 DEF Frame
    <2>2. site[t] = "frame" /\ di[t]["frame"] = NoHandle /\ di[t]["close"] = NoHandle
      BY <2>1
    <2>3. UNCHANGED <<di, site>> /\ \E l \in {"unwind", "lookup", "made"} : Goto(t, l)
      BY <1>14 DEF Frame
    <2>4. QED
      BY <2>1, <2>2, <2>3
  <1>15. ASSUME NEW t \in Thread, MadeFrame(t) PROVE DiInv'
    BY <1>15 DEF MadeFrame
  <1>16. ASSUME NEW t \in Thread, Unwind(t) PROVE DiInv'
    BY <1>16 DEF Unwind
  <1>17. ASSUME NEW t \in Thread, CloseBegin(t) PROVE DiInv'
    BY <1>17 DEF CloseBegin
  <1>18. ASSUME NEW t \in Thread, Drop(t) PROVE DiInv'
    BY <1>18 DEF Drop, Quiet
  <1>19. ASSUME NEW t \in Thread, CloseGuard(t) PROVE DiInv'
    BY <1>19 DEF CloseGuard
  <1>20. ASSUME NEW t \in Thread, ClosePtr(t) PROVE DiInv'
    BY <1>20 DEF ClosePtr
  <1>21. ASSUME NEW t \in Thread, CloseEnter(t) PROVE DiInv'
    BY <1>21 DEF CloseEnter
  <1>22. ASSUME NEW t \in Thread, CloseFree(t) PROVE DiInv'
    BY <1>22 DEF CloseFree
  <1>23. ASSUME NEW t \in Thread, CloseNull(t) PROVE DiInv'
    BY <1>23 DEF CloseNull
  <1>24. ASSUME NEW t \in Thread, CloseIter(t) PROVE DiInv'
    BY <1>24 DEF CloseIter
  <1>25. ASSUME NEW t \in Thread, CloseNext(t) PROVE DiInv'
    BY <1>25 DEF CloseNext, Cached
  <1>26. ASSUME NEW t \in Thread, DiCheck(t) PROVE DiInv'
    BY <1>26 DEF DiCheck
  <1>27. ASSUME NEW t \in Thread, DiEnter(t) PROVE DiInv'
    BY <1>27 DEF DiEnter
  <1>28. ASSUME NEW t \in Thread, DiFree(t) PROVE DiInv'
    BY <1>28 DEF DiFree
  <1>29. ASSUME NEW t \in Thread, DiNull(t) PROVE DiInv'
    BY <1>29 DEF DiNull
  <1>30. ASSUME NEW t \in Thread, CloseClear(t) PROVE DiInv'
    BY <1>30 DEF CloseClear
  <1>31. ASSUME NEW t \in Thread, CloseSet(t) PROVE DiInv'
    BY <1>31 DEF CloseSet
  <1>32. CASE UNCHANGED vars
    BY <1>32 DEF vars
  <1>33. QED
    BY <1>1, <1>2, <1>3, <1>4, <1>5, <1>6, <1>7, <1>8, <1>9, <1>10, <1>11, <1>12, <1>13,
       <1>14, <1>15, <1>16, <1>17, <1>18, <1>19, <1>20, <1>21, <1>22, <1>23, <1>24, <1>25, <1>26,
       <1>27, <1>28, <1>29, <1>30, <1>31, <1>32
    DEF Next, Step, Fetch, UnderLock, Close

(* Losing references is safe: what Reap keeps is what is still referenced. *)
LEMMA ReapRef ==
  ASSUME Base, RefInv, handle' = Reap(handle, cache', di'),
         \A h \in Handle : h \in Referenced(cache', di') => h \in Referenced(cache, di)
  PROVE  RefInv'
  BY DEF RefInv, Reap, Base, TypeOK

(* Objects are alive exactly as long as something refers to them.          *)
LEMMA StepRef == Base /\ DiInv /\ RefInv /\ [Next]_vars => RefInv'
  <1> SUFFICES ASSUME Base /\ DiInv /\ RefInv, [Next]_vars PROVE RefInv'
    OBVIOUS
  <1>a. /\ pc \in [Thread -> PC] /\ site \in [Thread -> Site]
        /\ di \in [Thread -> [Site -> Handle \cup {NoHandle}]]
        /\ cache \in [Path -> Handle \cup {NoHandle}] /\ path \in [Thread -> Path]
        /\ handle \in [Handle -> Object] /\ DiInv
    BY DEF Base, TypeOK
  <1>b. NoHandle \notin Handle
    BY SymbolizerAssumption
  <1> USE <1>a, <1>b
      DEF DiInv, Goto, Finish, Bind, Current, NoLocals, owner, objects, locals, iter, Site
  <1>1. ASSUME NEW t \in Thread, NEW p \in Path, Begin(t, p) PROVE RefInv'
    BY <1>1 DEF Begin, RefInv, Referenced
  <1>2. ASSUME NEW t \in Thread, Guard(t) PROVE RefInv'
    BY <1>2 DEF Guard, RefInv, Referenced
  <1>3. ASSUME NEW t \in Thread, Cpu(t) PROVE RefInv'
    BY <1>3 DEF Cpu, RefInv, Referenced
  <1>4. ASSUME NEW t \in Thread, Acquire(t) PROVE RefInv'
    BY <1>4 DEF Acquire, RefInv, Referenced
  <1>5. ASSUME NEW t \in Thread, Lookup(t) PROVE RefInv'
    <2>1. Current(t) = NoHandle /\ path[t] \in Path /\ site[t] \in Site
      BY <1>5, PCNames DEF Lookup
    <2>2. UNCHANGED <<handle, cache>> /\ Bind(t, site[t], cache[path[t]])
      BY <1>5 DEF Lookup
    <2>3. \A h \in Handle : h \in Referenced(cache', di') <=> h \in Referenced(cache, di)
      BY <2>1, <2>2 DEF Referenced
    <2>4. QED
      BY <2>2, <2>3 DEF RefInv
  <1>6. ASSUME NEW t \in Thread, Open(t) PROVE RefInv'
    <2>1. pc[t] = "open" /\ Current(t) = NoHandle /\ site[t] \in Site /\ UNCHANGED cache
      BY <1>6 DEF Open
    <2>2. CASE UNCHANGED <<di, handle>>
      BY <2>1, <2>2 DEF RefInv, Referenced
    <2>3. ASSUME NEW h \in Handle, handle' = [handle EXCEPT ![h] = "open"], Bind(t, site[t], h)
          PROVE  RefInv'
      <3>1. \A x \in Handle : x \in Referenced(cache', di')
                               <=> x \in Referenced(cache, di) \/ x = h
        BY <2>1, <2>3 DEF Referenced
      <3>2. QED
        BY <2>3, <3>1 DEF RefInv
    <2>4. QED
      BY <1>6, <2>2, <2>3 DEF Open
  <1>7. ASSUME NEW t \in Thread, Insert(t) PROVE RefInv'
    <2>1. handle' = Reap(handle, cache', di')
      BY <1>7 DEF Insert
    <2>2. \A h \in Handle : h \in Referenced(cache', di') => h \in Referenced(cache, di)
      BY <1>7 DEF Insert, Referenced
    <2>3. QED
      BY <2>1, <2>2, ReapRef
  <1>8. ASSUME NEW t \in Thread, GetPtr(t) PROVE RefInv'
    BY <1>8 DEF GetPtr, RefInv, Referenced
  <1>9. ASSUME NEW t \in Thread, NativeCall(t) PROVE RefInv'
    BY <1>9 DEF NativeCall, RefInv, Referenced
  <1>10. ASSUME NEW t \in Thread, Copy(t) PROVE RefInv'
    BY <1>10 DEF Copy, RefInv, Referenced
  <1>11. ASSUME NEW t \in Thread, PtrCheck(t) PROVE RefInv'
    BY <1>11 DEF PtrCheck, RefInv, Referenced
  <1>12. ASSUME NEW t \in Thread, EnterEngine(t) PROVE RefInv'
    BY <1>12 DEF EnterEngine, RefInv, Referenced
  <1>13. ASSUME NEW t \in Thread, EngineCall(t) PROVE RefInv'
    BY <1>13 DEF EngineCall, RefInv, Referenced
  <1>14. ASSUME NEW t \in Thread, Frame(t) PROVE RefInv'
    BY <1>14 DEF Frame, RefInv, Referenced
  <1>15. ASSUME NEW t \in Thread, MadeFrame(t) PROVE RefInv'
    <2>1. handle' = Reap(handle, cache', di')
      BY <1>15 DEF MadeFrame
    <2>2. \A h \in Handle : h \in Referenced(cache', di') => h \in Referenced(cache, di)
      BY <1>15 DEF MadeFrame, Referenced
    <2>3. QED
      BY <2>1, <2>2, ReapRef
  <1>16. ASSUME NEW t \in Thread, Unwind(t) PROVE RefInv'
    <2>1. handle' = Reap(handle, cache', di')
      BY <1>16 DEF Unwind
    <2>2. \A h \in Handle : h \in Referenced(cache', di') => h \in Referenced(cache, di)
      BY <1>16 DEF Unwind, Referenced
    <2>3. QED
      BY <2>1, <2>2, ReapRef
  <1>17. ASSUME NEW t \in Thread, CloseBegin(t) PROVE RefInv'
    BY <1>17 DEF CloseBegin, RefInv, Referenced
  <1>18. ASSUME NEW t \in Thread, Drop(t) PROVE RefInv'
    BY <1>18 DEF Drop, RefInv, Referenced, Quiet
  <1>19. ASSUME NEW t \in Thread, CloseGuard(t) PROVE RefInv'
    BY <1>19 DEF CloseGuard, RefInv, Referenced
  <1>20. ASSUME NEW t \in Thread, ClosePtr(t) PROVE RefInv'
    BY <1>20 DEF ClosePtr, RefInv, Referenced
  <1>21. ASSUME NEW t \in Thread, CloseEnter(t) PROVE RefInv'
    BY <1>21 DEF CloseEnter, RefInv, Referenced
  <1>22. ASSUME NEW t \in Thread, CloseFree(t) PROVE RefInv'
    BY <1>22 DEF CloseFree, RefInv, Referenced
  <1>23. ASSUME NEW t \in Thread, CloseNull(t) PROVE RefInv'
    BY <1>23 DEF CloseNull, RefInv, Referenced
  <1>24. ASSUME NEW t \in Thread, CloseIter(t) PROVE RefInv'
    BY <1>24 DEF CloseIter, RefInv, Referenced, Cached
  <1>25. ASSUME NEW t \in Thread, CloseNext(t) PROVE RefInv'
    <2>1. CASE UNCHANGED <<di, handle>>
      BY <1>25, <2>1 DEF CloseNext, RefInv, Referenced
    <2>2. ASSUME NEW p \in todo[t] \cap Cached, Bind(t, "close", cache[p]),
                 handle' = Reap(handle, cache', di'), UNCHANGED cache
          PROVE  RefInv'
      <3>1. \A h \in Handle : h \in Referenced(cache', di') => h \in Referenced(cache, di)
        BY <2>2 DEF Referenced, Cached
      <3>2. QED
        BY <2>2, <3>1, ReapRef
    <2>3. QED
      BY <1>25, <2>1, <2>2 DEF CloseNext
  <1>26. ASSUME NEW t \in Thread, DiCheck(t) PROVE RefInv'
    BY <1>26 DEF DiCheck, RefInv, Referenced
  <1>27. ASSUME NEW t \in Thread, DiEnter(t) PROVE RefInv'
    BY <1>27 DEF DiEnter, RefInv, Referenced
  <1>28. ASSUME NEW t \in Thread, DiFree(t) PROVE RefInv'
    BY <1>28 DEF DiFree, RefInv, Referenced
  <1>29. ASSUME NEW t \in Thread, DiNull(t) PROVE RefInv'
    BY <1>29 DEF DiNull, RefInv, Referenced
  <1>30. ASSUME NEW t \in Thread, CloseClear(t) PROVE RefInv'
    <2>1. handle' = Reap(handle, cache', di')
      BY <1>30 DEF CloseClear
    <2>2. \A h \in Handle : h \in Referenced(cache', di') => h \in Referenced(cache, di)
      BY <1>30 DEF CloseClear, Referenced
    <2>3. QED
      BY <2>1, <2>2, ReapRef
  <1>31. ASSUME NEW t \in Thread, CloseSet(t) PROVE RefInv'
    BY <1>31 DEF CloseSet, RefInv, Referenced
  <1>32. CASE UNCHANGED vars
    BY <1>32 DEF vars, RefInv, Referenced
  <1>33. QED
    BY <1>1, <1>2, <1>3, <1>4, <1>5, <1>6, <1>7, <1>8, <1>9, <1>10, <1>11, <1>12, <1>13,
       <1>14, <1>15, <1>16, <1>17, <1>18, <1>19, <1>20, <1>21, <1>22, <1>23, <1>24, <1>25, <1>26,
       <1>27, <1>28, <1>29, <1>30, <1>31, <1>32
    DEF Next, Step, Fetch, UnderLock, Close

(* A new object is known to its thread alone until it is stored under the  *)
(* path the thread was called with.                                        *)
LEMMA StepCache == Base /\ Shared /\ [Next]_vars => CacheInv'
  <1> SUFFICES ASSUME Base /\ Shared, [Next]_vars PROVE CacheInv'
    OBVIOUS
  <1>a. /\ pc \in [Thread -> PC] /\ site \in [Thread -> Site]
        /\ di \in [Thread -> [Site -> Handle \cup {NoHandle}]]
        /\ cache \in [Path -> Handle \cup {NoHandle}] /\ path \in [Thread -> Path]
        /\ handle \in [Handle -> Object]
    BY DEF Base, TypeOK
  <1>b. NoHandle \notin Handle
    BY SymbolizerAssumption
  <1>c. DiInv /\ SiteInv /\ RefInv /\ CacheInv
    BY DEF Base, Shared
  <1> USE <1>a, <1>b, <1>c
      DEF DiInv, SiteInv, CacheInv, DebugInfoOfPath, Goto, Finish, Bind, Current, InClose,
          NoLocals, owner, objects, locals, iter, Fetching, Locked, Closing, Site
  <1>1. ASSUME NEW t \in Thread, NEW p \in Path, Begin(t, p) PROVE CacheInv'
    BY <1>1 DEF Begin
  <1>2. ASSUME NEW t \in Thread, Guard(t) PROVE CacheInv'
    BY <1>2 DEF Guard
  <1>3. ASSUME NEW t \in Thread, Cpu(t) PROVE CacheInv'
    BY <1>3 DEF Cpu
  <1>4. ASSUME NEW t \in Thread, Acquire(t) PROVE CacheInv'
    BY <1>4 DEF Acquire
  <1>5. ASSUME NEW t \in Thread, Lookup(t) PROVE CacheInv'
    BY <1>5 DEF Lookup
  <1>6. ASSUME NEW t \in Thread, Open(t) PROVE CacheInv'
    <2>1. pc[t] = "open" /\ Current(t) = NoHandle /\ UNCHANGED <<cache, site, path>>
      BY <1>6 DEF Open
    <2>2. CASE UNCHANGED di /\ Finish(t, "DebugInfoError")
      BY <2>1, <2>2
    <2>3. ASSUME NEW h \in Handle, handle[h] = "none", Bind(t, site[t], h), Goto(t, "insert")
          PROVE  CacheInv'
      <3>1. /\ \A p \in Path : cache[p] # h
            /\ \A u \in Thread, s \in Site : di[u][s] # h
        BY <2>3 DEF RefInv, Referenced
      <3>2. di'[t][site[t]] = h /\ \A u \in Thread, s \in Site :
              ~(u = t /\ s = site[t]) => di'[u][s] = di[u][s]
        BY <2>3
      <3>3. QED
        BY <2>1, <2>3, <3>1, <3>2
    <2>4. QED
      BY <1>6, <2>2, <2>3 DEF Open
  <1>7. ASSUME NEW t \in Thread, Insert(t) PROVE CacheInv'
    BY <1>7 DEF Insert
  <1>8. ASSUME NEW t \in Thread, GetPtr(t) PROVE CacheInv'
    BY <1>8 DEF GetPtr
  <1>9. ASSUME NEW t \in Thread, NativeCall(t) PROVE CacheInv'
    BY <1>9 DEF NativeCall
  <1>10. ASSUME NEW t \in Thread, Copy(t) PROVE CacheInv'
    BY <1>10 DEF Copy
  <1>11. ASSUME NEW t \in Thread, PtrCheck(t) PROVE CacheInv'
    BY <1>11 DEF PtrCheck
  <1>12. ASSUME NEW t \in Thread, EnterEngine(t) PROVE CacheInv'
    BY <1>12 DEF EnterEngine
  <1>13. ASSUME NEW t \in Thread, EngineCall(t) PROVE CacheInv'
    BY <1>13 DEF EngineCall
  <1>14. ASSUME NEW t \in Thread, Frame(t) PROVE CacheInv'
    BY <1>14 DEF Frame
  <1>15. ASSUME NEW t \in Thread, MadeFrame(t) PROVE CacheInv'
    BY <1>15 DEF MadeFrame
  <1>16. ASSUME NEW t \in Thread, Unwind(t) PROVE CacheInv'
    BY <1>16 DEF Unwind
  <1>17. ASSUME NEW t \in Thread, CloseBegin(t) PROVE CacheInv'
    BY <1>17 DEF CloseBegin
  <1>18. ASSUME NEW t \in Thread, Drop(t) PROVE CacheInv'
    BY <1>18 DEF Drop, Quiet
  <1>19. ASSUME NEW t \in Thread, CloseGuard(t) PROVE CacheInv'
    BY <1>19 DEF CloseGuard
  <1>20. ASSUME NEW t \in Thread, ClosePtr(t) PROVE CacheInv'
    BY <1>20 DEF ClosePtr
  <1>21. ASSUME NEW t \in Thread, CloseEnter(t) PROVE CacheInv'
    BY <1>21 DEF CloseEnter
  <1>22. ASSUME NEW t \in Thread, CloseFree(t) PROVE CacheInv'
    BY <1>22 DEF CloseFree
  <1>23. ASSUME NEW t \in Thread, CloseNull(t) PROVE CacheInv'
    BY <1>23 DEF CloseNull
  <1>24. ASSUME NEW t \in Thread, CloseIter(t) PROVE CacheInv'
    BY <1>24 DEF CloseIter
  <1>25. ASSUME NEW t \in Thread, CloseNext(t) PROVE CacheInv'
    <2>1. UNCHANGED <<cache, site, path>> /\ pc[t] = "c_next" /\ site[t] = "close"
      BY <1>25 DEF CloseNext
    <2>2. \E l \in {"unwind", "c_clear", "d_check"} : Goto(t, l)
      BY <1>25 DEF CloseNext
    <2>3. UNCHANGED di \/ \E p \in Cached : Bind(t, "close", cache[p])
      BY <1>25 DEF CloseNext
    <2>4. QED
      BY <2>1, <2>2, <2>3 DEF Cached
  <1>26. ASSUME NEW t \in Thread, DiCheck(t) PROVE CacheInv'
    BY <1>26 DEF DiCheck
  <1>27. ASSUME NEW t \in Thread, DiEnter(t) PROVE CacheInv'
    BY <1>27 DEF DiEnter
  <1>28. ASSUME NEW t \in Thread, DiFree(t) PROVE CacheInv'
    BY <1>28 DEF DiFree
  <1>29. ASSUME NEW t \in Thread, DiNull(t) PROVE CacheInv'
    BY <1>29 DEF DiNull
  <1>30. ASSUME NEW t \in Thread, CloseClear(t) PROVE CacheInv'
    BY <1>30 DEF CloseClear
  <1>31. ASSUME NEW t \in Thread, CloseSet(t) PROVE CacheInv'
    BY <1>31 DEF CloseSet
  <1>32. CASE UNCHANGED vars
    BY <1>32 DEF vars
  <1>33. QED
    BY <1>1, <1>2, <1>3, <1>4, <1>5, <1>6, <1>7, <1>8, <1>9, <1>10, <1>11, <1>12, <1>13,
       <1>14, <1>15, <1>16, <1>17, <1>18, <1>19, <1>20, <1>21, <1>22, <1>23, <1>24, <1>25, <1>26,
       <1>27, <1>28, <1>29, <1>30, <1>31, <1>32
    DEF Next, Step, Fetch, UnderLock, Close

(* The engine never comes back, and no DebugInfo is disposed of before it. *)
LEMMA StepGone == Base /\ Shared /\ [Next]_vars => GoneInv'
  <1> SUFFICES ASSUME Base /\ Shared, [Next]_vars PROVE GoneInv'
    OBVIOUS
  <1>a. /\ pc \in [Thread -> PC] /\ result \in [Thread -> Outcome]
        /\ di \in [Thread -> [Site -> Handle \cup {NoHandle}]] /\ handle \in [Handle -> Object]
        /\ SiteInv /\ DiInv /\ GoneInv
    BY DEF Base, TypeOK, Shared
  <1> USE <1>a
      DEF GoneInv, InternalFailuresNeedClose, Internal, Finish, Goto, Bind, Reap,
          owner, objects, locals, iter
  <1>1. ASSUME NEW t \in Thread, NEW p \in Path, Begin(t, p) PROVE GoneInv'
    BY <1>1 DEF Begin
  <1>2. ASSUME NEW t \in Thread, Guard(t) PROVE GoneInv'
    BY <1>2 DEF Guard
  <1>3. ASSUME NEW t \in Thread, Cpu(t) PROVE GoneInv'
    BY <1>3 DEF Cpu
  <1>4. ASSUME NEW t \in Thread, Acquire(t) PROVE GoneInv'
    BY <1>4 DEF Acquire
  <1>5. ASSUME NEW t \in Thread, Lookup(t) PROVE GoneInv'
    BY <1>5 DEF Lookup
  <1>6. ASSUME NEW t \in Thread, Open(t) PROVE GoneInv'
    BY <1>6 DEF Open
  <1>7. ASSUME NEW t \in Thread, Insert(t) PROVE GoneInv'
    BY <1>7 DEF Insert
  <1>8. ASSUME NEW t \in Thread, GetPtr(t) PROVE GoneInv'
    <2>1. handle[Current(t)] = "closed" => engine = "closed"
      BY <1>8 DEF GetPtr, DiInv
    <2>2. QED
      BY <1>8, <2>1 DEF GetPtr
  <1>9. ASSUME NEW t \in Thread, NativeCall(t) PROVE GoneInv'
    BY <1>9 DEF NativeCall
  <1>10. ASSUME NEW t \in Thread, Copy(t) PROVE GoneInv'
    BY <1>10 DEF Copy
  <1>11. ASSUME NEW t \in Thread, PtrCheck(t) PROVE GoneInv'
    BY <1>11 DEF PtrCheck
  <1>12. ASSUME NEW t \in Thread, EnterEngine(t) PROVE GoneInv'
    BY <1>12 DEF EnterEngine
  <1>13. ASSUME NEW t \in Thread, EngineCall(t) PROVE GoneInv'
    BY <1>13, EngineCallEffect DEF EngineCall
  <1>14. ASSUME NEW t \in Thread, Frame(t) PROVE GoneInv'
    BY <1>14 DEF Frame
  <1>15. ASSUME NEW t \in Thread, MadeFrame(t) PROVE GoneInv'
    BY <1>15 DEF MadeFrame
  <1>16. ASSUME NEW t \in Thread, Unwind(t) PROVE GoneInv'
    BY <1>16 DEF Unwind
  <1>17. ASSUME NEW t \in Thread, CloseBegin(t) PROVE GoneInv'
    BY <1>17 DEF CloseBegin
  <1>18. ASSUME NEW t \in Thread, Drop(t) PROVE GoneInv'
    BY <1>18 DEF Drop
  <1>19. ASSUME NEW t \in Thread, CloseGuard(t) PROVE GoneInv'
    BY <1>19 DEF CloseGuard
  <1>20. ASSUME NEW t \in Thread, ClosePtr(t) PROVE GoneInv'
    BY <1>20 DEF ClosePtr
  <1>21. ASSUME NEW t \in Thread, CloseEnter(t) PROVE GoneInv'
    BY <1>21 DEF CloseEnter
  <1>22. ASSUME NEW t \in Thread, CloseFree(t) PROVE GoneInv'
    BY <1>22 DEF CloseFree
  <1>23. ASSUME NEW t \in Thread, CloseNull(t) PROVE GoneInv'
    BY <1>23 DEF CloseNull
  <1>24. ASSUME NEW t \in Thread, CloseIter(t) PROVE GoneInv'
    BY <1>24 DEF CloseIter
  <1>25. ASSUME NEW t \in Thread, CloseNext(t) PROVE GoneInv'
    BY <1>25 DEF CloseNext
  <1>26. ASSUME NEW t \in Thread, DiCheck(t) PROVE GoneInv'
    BY <1>26 DEF DiCheck
  <1>27. ASSUME NEW t \in Thread, DiEnter(t) PROVE GoneInv'
    BY <1>27 DEF DiEnter
  <1>28. ASSUME NEW t \in Thread, DiFree(t) PROVE GoneInv'
    BY <1>28 DEF DiFree
  <1>29. ASSUME NEW t \in Thread, DiNull(t) PROVE GoneInv'
    BY <1>29 DEF DiNull
  <1>30. ASSUME NEW t \in Thread, CloseClear(t) PROVE GoneInv'
    BY <1>30 DEF CloseClear
  <1>31. ASSUME NEW t \in Thread, CloseSet(t) PROVE GoneInv'
    BY <1>31 DEF CloseSet
  <1>32. CASE UNCHANGED vars
    BY <1>32 DEF vars
  <1>33. QED
    BY <1>1, <1>2, <1>3, <1>4, <1>5, <1>6, <1>7, <1>8, <1>9, <1>10, <1>11, <1>12, <1>13,
       <1>14, <1>15, <1>16, <1>17, <1>18, <1>19, <1>20, <1>21, <1>22, <1>23, <1>24, <1>25, <1>26,
       <1>27, <1>28, <1>29, <1>30, <1>31, <1>32
    DEF Next, Step, Fetch, UnderLock, Close

LEMMA InitShared == Init => Shared
  BY SymbolizerAssumption
  DEF Init, Shared, DiInv, RefInv, CacheInv, GoneInv, InternalFailuresNeedClose, Internal, DebugInfoOfPath, Referenced, InClose, Current,
      NoLocals, Fetching, Locked, Closing, Site

LEMMA StepShared == Base /\ Shared /\ [Next]_vars => Shared'
  BY StepDi, StepRef, StepCache, StepGone DEF Shared

THEOREM SharedInductive == Spec => [](Base /\ Shared)
  <1>1. QED
    BY InitBase, StepBase, InitShared, StepShared, PTL DEF Spec

(* A thread never works with the debug info of another path.               *)
THEOREM RightDebugInfo == Spec => []DebugInfoOfPath
  <1>1. Base /\ Shared => DebugInfoOfPath
    BY DEF Shared, CacheInv
  <1>2. QED
    BY <1>1, SharedInductive, PTL

(* Whenever close() is called, an accident needs the engine to be gone.     *)
THEOREM AccidentsNeedClose == Spec => []InternalFailuresNeedClose
  <1>1. Base /\ Shared => InternalFailuresNeedClose
    BY DEF Shared, GoneInv
  <1>2. QED
    BY <1>1, SharedInductive, PTL

-----------------------------------------------------------------------------
(* Part 3: what is given back, however calls and close() overlap.          *)

(* What a thread holds.                                                    *)
LEMMA StepHeld == Base /\ HeldInv /\ [Next]_vars => HeldInv'
  <1> SUFFICES ASSUME Base, HeldInv, [Next]_vars PROVE HeldInv'
    OBVIOUS
  <1>a. /\ pc \in [Thread -> PC] /\ site \in [Thread -> Site]
        /\ held \in [Thread -> SUBSET Alloc] /\ result \in [Thread -> Outcome]
        /\ SiteInv
    BY DEF Base, TypeOK
  <1> USE <1>a
      DEF HeldInv, SiteInv, Goto, Finish, owner, objects, locals, iter, Fetching, Locked, Closing
  <1>1. ASSUME NEW t \in Thread, NEW p \in Path, Begin(t, p) PROVE HeldInv'
    BY <1>1 DEF Begin
  <1>2. ASSUME NEW t \in Thread, Guard(t) PROVE HeldInv'
    BY <1>2 DEF Guard
  <1>3. ASSUME NEW t \in Thread, Cpu(t) PROVE HeldInv'
    BY <1>3 DEF Cpu
  <1>4. ASSUME NEW t \in Thread, Acquire(t) PROVE HeldInv'
    BY <1>4 DEF Acquire
  <1>5. ASSUME NEW t \in Thread, Lookup(t) PROVE HeldInv'
    BY <1>5 DEF Lookup
  <1>6. ASSUME NEW t \in Thread, Open(t) PROVE HeldInv'
    BY <1>6 DEF Open
  <1>7. ASSUME NEW t \in Thread, Insert(t) PROVE HeldInv'
    BY <1>7 DEF Insert
  <1>8. ASSUME NEW t \in Thread, GetPtr(t) PROVE HeldInv'
    BY <1>8 DEF GetPtr
  <1>9. ASSUME NEW t \in Thread, NativeCall(t) PROVE HeldInv'
    BY <1>9 DEF NativeCall
  <1>10. ASSUME NEW t \in Thread, Copy(t) PROVE HeldInv'
    BY <1>10 DEF Copy
  <1>11. ASSUME NEW t \in Thread, PtrCheck(t) PROVE HeldInv'
    BY <1>11 DEF PtrCheck
  <1>12. ASSUME NEW t \in Thread, EnterEngine(t) PROVE HeldInv'
    BY <1>12 DEF EnterEngine
  <1>13. ASSUME NEW t \in Thread, EngineCall(t) PROVE HeldInv'
    BY <1>13 DEF EngineCall
  <1>14. ASSUME NEW t \in Thread, Frame(t) PROVE HeldInv'
    BY <1>14 DEF Frame
  <1>15. ASSUME NEW t \in Thread, MadeFrame(t) PROVE HeldInv'
    BY <1>15 DEF MadeFrame
  <1>16. ASSUME NEW t \in Thread, Unwind(t) PROVE HeldInv'
    BY <1>16 DEF Unwind
  <1>17. ASSUME NEW t \in Thread, CloseBegin(t) PROVE HeldInv'
    BY <1>17 DEF CloseBegin
  <1>18. ASSUME NEW t \in Thread, Drop(t) PROVE HeldInv'
    BY <1>18 DEF Drop, Quiet
  <1>19. ASSUME NEW t \in Thread, CloseGuard(t) PROVE HeldInv'
    BY <1>19 DEF CloseGuard
  <1>20. ASSUME NEW t \in Thread, ClosePtr(t) PROVE HeldInv'
    BY <1>20 DEF ClosePtr
  <1>21. ASSUME NEW t \in Thread, CloseEnter(t) PROVE HeldInv'
    BY <1>21 DEF CloseEnter
  <1>22. ASSUME NEW t \in Thread, CloseFree(t) PROVE HeldInv'
    BY <1>22 DEF CloseFree
  <1>23. ASSUME NEW t \in Thread, CloseNull(t) PROVE HeldInv'
    BY <1>23 DEF CloseNull
  <1>24. ASSUME NEW t \in Thread, CloseIter(t) PROVE HeldInv'
    BY <1>24 DEF CloseIter
  <1>25. ASSUME NEW t \in Thread, CloseNext(t) PROVE HeldInv'
    BY <1>25 DEF CloseNext
  <1>26. ASSUME NEW t \in Thread, DiCheck(t) PROVE HeldInv'
    BY <1>26 DEF DiCheck
  <1>27. ASSUME NEW t \in Thread, DiEnter(t) PROVE HeldInv'
    BY <1>27 DEF DiEnter
  <1>28. ASSUME NEW t \in Thread, DiFree(t) PROVE HeldInv'
    BY <1>28 DEF DiFree
  <1>29. ASSUME NEW t \in Thread, DiNull(t) PROVE HeldInv'
    BY <1>29 DEF DiNull
  <1>30. ASSUME NEW t \in Thread, CloseClear(t) PROVE HeldInv'
    BY <1>30 DEF CloseClear
  <1>31. ASSUME NEW t \in Thread, CloseSet(t) PROVE HeldInv'
    BY <1>31 DEF CloseSet
  <1>32. CASE UNCHANGED vars
    BY <1>32 DEF vars
  <1>33. QED
    BY <1>1, <1>2, <1>3, <1>4, <1>5, <1>6, <1>7, <1>8, <1>9, <1>10, <1>11, <1>12, <1>13,
       <1>14, <1>15, <1>16, <1>17, <1>18, <1>19, <1>20, <1>21, <1>22, <1>23, <1>24, <1>25, <1>26,
       <1>27, <1>28, <1>29, <1>30, <1>31, <1>32
    DEF Next, Step, Fetch, UnderLock, Close

(* An object nothing refers to is gone.                                    *)
LEMMA UnreferencedGone ==
  ASSUME Base, DiInv, RefInv, NEW t \in Thread, \A u \in Thread : u # t => pc[u] = "idle",
         di[t] = NoLocals, Cached = {}
  PROVE  \A h \in Handle : handle[h] = "none"
  <1>1. \A u \in Thread : di[u] = NoLocals
    BY DEF DiInv
  <1>2. \A u \in Thread, s \in Site : di[u][s] = NoHandle
    BY <1>1 DEF NoLocals
  <1>3. \A p \in Path : cache[p] = NoHandle
    BY DEF Cached
  <1>4. QED
    BY <1>2, <1>3, SymbolizerAssumption DEF RefInv, Referenced

(* Dropping the driver ends with nothing left.                             *)
LEMMA StepDrop ==
    Base /\ Shared /\ DropInv /\ [Next]_vars => DropInv'
  <1> SUFFICES ASSUME Base, Shared, DropInv, [Next]_vars PROVE DropInv'
    OBVIOUS
  <1>a. /\ pc \in [Thread -> PC] /\ site \in [Thread -> Site] /\ size \in [Thread -> Nat]
        /\ handle \in [Handle -> Object] /\ engine \in Engine
        /\ SiteInv
    BY DEF Base, TypeOK
  <1>b. ASSUME cache' = cache PROVE Cardinality(Cached)' = Cardinality(Cached)
    BY <1>b DEF Cached
  <1>c. DiInv /\ RefInv /\ GoneInv
    BY DEF Shared
  <1>d. ASSUME NEW d PROVE \A h \in Handle : handle[h] = "none" => Reap(handle, cache, d)[h] = "none"
    BY DEF Reap
  <1>e. di \in [Thread -> [Site -> Handle \cup {NoHandle}]]
    BY DEF Base, TypeOK
  <1> USE <1>a
      DEF DropInv, SiteInv, Gone, Quiet, InClose, Goto, Finish, owner, objects, locals, iter,
          Fetching, Locked, Closing, Disposing, Cached, Current
  <1>1. ASSUME NEW t \in Thread, NEW p \in Path, Begin(t, p) PROVE DropInv'
    BY <1>1 DEF Begin
  <1>2. ASSUME NEW t \in Thread, Guard(t) PROVE DropInv'
    BY <1>2 DEF Guard
  <1>3. ASSUME NEW t \in Thread, Cpu(t) PROVE DropInv'
    BY <1>3 DEF Cpu
  <1>4. ASSUME NEW t \in Thread, Acquire(t) PROVE DropInv'
    BY <1>4 DEF Acquire
  <1>5. ASSUME NEW t \in Thread, Lookup(t) PROVE DropInv'
    BY <1>5 DEF Lookup
  <1>6. ASSUME NEW t \in Thread, Open(t) PROVE DropInv'
    BY <1>6 DEF Open
  <1>7. ASSUME NEW t \in Thread, Insert(t) PROVE DropInv'
    BY <1>7 DEF Insert
  <1>8. ASSUME NEW t \in Thread, GetPtr(t) PROVE DropInv'
    BY <1>8 DEF GetPtr
  <1>9. ASSUME NEW t \in Thread, NativeCall(t) PROVE DropInv'
    BY <1>9 DEF NativeCall
  <1>10. ASSUME NEW t \in Thread, Copy(t) PROVE DropInv'
    BY <1>10 DEF Copy
  <1>11. ASSUME NEW t \in Thread, PtrCheck(t) PROVE DropInv'
    BY <1>11 DEF PtrCheck
  <1>12. ASSUME NEW t \in Thread, EnterEngine(t) PROVE DropInv'
    BY <1>12 DEF EnterEngine
  <1>13. ASSUME NEW t \in Thread, EngineCall(t) PROVE DropInv'
    BY <1>13 DEF EngineCall
  <1>14. ASSUME NEW t \in Thread, Frame(t) PROVE DropInv'
    BY <1>14 DEF Frame
  <1>15. ASSUME NEW t \in Thread, MadeFrame(t) PROVE DropInv'
    BY <1>15 DEF MadeFrame
  <1>16. ASSUME NEW t \in Thread, Unwind(t) PROVE DropInv'
    <2>1. Gone => \A h \in Handle : handle'[h] = "none"
      BY <1>16, <1>d DEF Unwind
    <2>2. QED
      BY <1>16, <2>1, <1>b DEF Unwind
  <1>17. ASSUME NEW t \in Thread, CloseBegin(t) PROVE DropInv'
    BY <1>17 DEF CloseBegin
  <1>18. ASSUME NEW t \in Thread, Drop(t) PROVE DropInv'
    BY <1>18 DEF Drop
  <1>19. ASSUME NEW t \in Thread, CloseGuard(t) PROVE DropInv'
    BY <1>19 DEF CloseGuard
  <1>20. ASSUME NEW t \in Thread, ClosePtr(t) PROVE DropInv'
    BY <1>20 DEF ClosePtr
  <1>21. ASSUME NEW t \in Thread, CloseEnter(t) PROVE DropInv'
    BY <1>21 DEF CloseEnter
  <1>22. ASSUME NEW t \in Thread, CloseFree(t) PROVE DropInv'
    BY <1>22 DEF CloseFree
  <1>23. ASSUME NEW t \in Thread, CloseNull(t) PROVE DropInv'
    BY <1>23 DEF CloseNull
  <1>24. ASSUME NEW t \in Thread, CloseIter(t) PROVE DropInv'
    <2>1. CASE Cached = {} /\ ~alive
      <3>1. Gone
        BY <1>24, <1>c, <2>1, UnreferencedGone DEF CloseIter, DiInv, GoneInv
      <3>2. QED
        BY <1>24, <2>1, <3>1, <1>b DEF CloseIter
    <2>2. CASE Cached # {} \/ alive
      BY <1>24, <2>2, <1>b DEF CloseIter
    <2>3. QED
      BY <2>1, <2>2
  <1>25. ASSUME NEW t \in Thread, CloseNext(t) PROVE DropInv'
    <2>1. alive' = alive /\ cache' = cache /\ size' = size /\ engine' = engine
      BY <1>25 DEF CloseNext
    <2>2. SUFFICES ASSUME ~alive PROVE DropInv'
      BY <2>1
    <2>3. size[t] = Cardinality(Cached) /\ engine = "closed"
      BY <1>25, <1>c, <2>2 DEF CloseNext, GoneInv
    <2>4. \E l \in {"c_clear", "d_check"} : pc' = [pc EXCEPT ![t] = l]
      BY <1>25, <2>3 DEF CloseNext
    <2>5. site' = site /\ pc[t] = "c_next"
      BY <1>25 DEF CloseNext
    <2>6. Cardinality(Cached)' = Cardinality(Cached)
      BY <2>1, <1>b
    <2> HIDE DEF Cached
    <2>7. QED
      BY <2>1, <2>2, <2>3, <2>4, <2>5, <2>6
  <1>26. ASSUME NEW t \in Thread, DiCheck(t) PROVE DropInv'
    BY <1>26 DEF DiCheck
  <1>27. ASSUME NEW t \in Thread, DiEnter(t) PROVE DropInv'
    BY <1>27 DEF DiEnter
  <1>28. ASSUME NEW t \in Thread, DiFree(t) PROVE DropInv'
    BY <1>28 DEF DiFree
  <1>29. ASSUME NEW t \in Thread, DiNull(t) PROVE DropInv'
    BY <1>29 DEF DiNull
  <1>30. ASSUME NEW t \in Thread, CloseClear(t) PROVE DropInv'
    <2>1. SUFFICES ASSUME ~alive PROVE DropInv'
      BY <1>30 DEF CloseClear
    <2>2. \A h \in Handle : handle'[h] = "none"
      <3>1. \A u \in Thread, s \in Site : di'[u][s] = NoHandle
        BY <1>30, <1>c, <1>e, <2>1 DEF CloseClear, DiInv, NoLocals
      <3>2. \A p \in Path : cache'[p] = NoHandle
        BY <1>30 DEF CloseClear
      <3>3. Referenced(cache', di') = {}
        BY <3>1, <3>2, SymbolizerAssumption DEF Referenced
      <3>4. QED
        BY <1>30, <3>3 DEF CloseClear, Reap
    <2>3. engine' = "closed"
      BY <1>30, <2>1 DEF CloseClear
    <2>4. /\ pc[t] = "c_clear" /\ pc' = [pc EXCEPT ![t] = "c_set"]
          /\ site' = site /\ alive' = alive
      BY <1>30 DEF CloseClear
    <2> HIDE DEF Cached, Current
    <2>5. QED
      BY <2>1, <2>2, <2>3, <2>4
  <1>31. ASSUME NEW t \in Thread, CloseSet(t) PROVE DropInv'
    BY <1>31 DEF CloseSet
  <1>32. CASE UNCHANGED vars
    BY <1>32 DEF vars
  <1>33. QED
    BY <1>1, <1>2, <1>3, <1>4, <1>5, <1>6, <1>7, <1>8, <1>9, <1>10, <1>11, <1>12, <1>13,
       <1>14, <1>15, <1>16, <1>17, <1>18, <1>19, <1>20, <1>21, <1>22, <1>23, <1>24, <1>25, <1>26,
       <1>27, <1>28, <1>29, <1>30, <1>31, <1>32
    DEF Next, Step, Fetch, UnderLock, Close

LEMMA InitRelease == Init => Release
  <1> SUFFICES ASSUME Init PROVE Release
    OBVIOUS
  <1>1. alive /\ \A t \in Thread : pc[t] = "idle" /\ held[t] = {} /\ result[t] = "none"
    BY DEF Init
  <1>2. QED
    BY <1>1 DEF Release, HeldInv, DropInv, Fetching

LEMMA StepRelease == Base /\ Shared /\ Release /\ [Next]_vars => Release'
  BY StepHeld, StepDrop DEF Release

THEOREM ReleaseInductive == Spec => [](Base /\ Shared /\ Release)
  <1>1. QED
    BY InitBase, StepBase, InitShared, StepShared, InitRelease, StepRelease, PTL DEF Spec

(* Dropping the driver reclaims everything it owns, after whatever earlier *)
(* calls and close() have left behind, in whatever order they ran.         *)
THEOREM DelReclaims == Spec => []ReclaimedByDel
  <1>1. Release => ReclaimedByDel
    BY DEF Release, DropInv, Gone, ReclaimedByDel
  <1>2. QED
    BY <1>1, ReleaseInductive, PTL

(* An outcome is only taken away by the end of the call.                   *)
LEMMA OutcomeKept ==
  ASSUME Base, HeldInv, NEW u \in Thread, NEW r \in Outcome \ {"none"},
         result' = result \/ result' = [result EXCEPT ![u] = r]
  PROVE  \A t \in Thread : result[t] = "ok" => result'[t] # "none"
  BY DEF Base, TypeOK

(* A call that ends well has given back every symbol.                      *)
LEMMA StepGivesBack ==
    Base /\ HeldInv /\ [Next]_vars =>
      [\A t \in Thread : result[t] = "ok" /\ result'[t] = "none" => leaked' = leaked]_vars
  <1> DEFINE Good == \A t \in Thread : result[t] = "ok" /\ result'[t] = "none" => leaked' = leaked
  <1> SUFFICES ASSUME Base, HeldInv, Next PROVE Good
    OBVIOUS
  <1>a. result \in [Thread -> Outcome] /\ held \in [Thread -> SUBSET Alloc]
    BY DEF Base, TypeOK
  <1>b. ASSUME NEW t \in Thread, ~Unwind(t), (\E p \in Path : Begin(t, p)) \/ CloseBegin(t) \/ Drop(t) \/ Step(t)
        PROVE  \E r \in Outcome \ {"none"} : result' = result \/ result' = [result EXCEPT ![t] = r]
    <2> DEFINE Kept == \E r \in Outcome \ {"none"} : result' = result \/ result' = [result EXCEPT ![t] = r]
    <2>0. ASSUME result' = result PROVE Kept
      BY <2>0, OutcomeNames
    <2>1. ASSUME NEW r \in Outcome \ {"none"}, Finish(t, r) PROVE Kept
      BY <2>1 DEF Finish
    <2>2. \/ result' = result
          \/ \E r \in Outcome \ {"none"} : Finish(t, r)
      <3> USE OutcomeNames DEF locals
      <3>1. CASE (\E p \in Path : Begin(t, p)) \/ CloseBegin(t) \/ Drop(t) \/ Guard(t) \/ Cpu(t) \/ Acquire(t)
        BY <3>1 DEF Begin, CloseBegin, Drop, Guard, Cpu, Acquire
      <3>2. CASE Fetch(t)
        BY <3>2 DEF Fetch, Lookup, Open, Insert, GetPtr, NativeCall, Copy
      <3>3. CASE UnderLock(t)
        BY <3>3 DEF UnderLock, PtrCheck, EnterEngine, EngineCall, Frame, MadeFrame
      <3>4. CASE Close(t)
        BY <3>4 DEF Close, CloseGuard, ClosePtr, CloseEnter, CloseFree, CloseNull, CloseIter,
                    CloseNext, CloseClear, CloseSet, DiCheck, DiEnter, DiFree, DiNull
      <3>5. QED
        BY <1>b, <3>1, <3>2, <3>3, <3>4 DEF Step
    <2> HIDE DEF Kept
    <2>3. Kept
      BY <2>0, <2>1, <2>2
    <2>4. QED
      BY <2>3 DEF Kept
  <1>c. ASSUME NEW t \in Thread, Unwind(t) PROVE Good
    <2>1. result' = [result EXCEPT ![t] = "none"] /\ leaked' = leaked \cup (held[t] \ {"error", "symbol"})
      BY <1>c DEF Unwind
    <2>2. result[t] = "ok" => leaked' = leaked
      BY <2>1 DEF HeldInv
    <2>3. \A u \in Thread : u # t => result'[u] = result[u]
      BY <1>a, <2>1
    <2>4. QED
      BY <2>2, <2>3
  <1>d. PICK t \in Thread : (\E p \in Path : Begin(t, p)) \/ CloseBegin(t) \/ Drop(t) \/ Step(t)
    BY DEF Next
  <1>e. QED
    BY <1>b, <1>c, <1>d, OutcomeKept

(* Whatever the other threads do meanwhile.                                *)
THEOREM SymbolsGivenBack == Spec => SuccessFreesSymbols
  <1>1. Base /\ Release /\ [Next]_vars =>
          [\A t \in Thread : result[t] = "ok" /\ result'[t] = "none" => leaked' = leaked]_vars
    BY StepGivesBack DEF Release
  <1>2. QED
    BY <1>1, ReleaseInductive, PTL DEF Spec, SuccessFreesSymbols

-----------------------------------------------------------------------------
(* Part 4: with close() never concurrent with another call.                *)

(* A thread that is inside symbolize() excludes a closing one.             *)
LEMMA CallsExcludeClose ==
  ASSUME SiteInv, Alone, NEW t \in Thread, Working(t) \/ pc[t] = "guard"
  PROVE  NoCloser
  BY DEF SiteInv, Alone, Working, NoCloser, InClose, Fetching, Locked

(* Close waits for silence and keeps it.                                   *)
LEMMA StepAlone == SerialClose /\ Base /\ Shared /\ Serial /\ [Next]_vars => (Alone /\ UsableInv)'
  <1> SUFFICES ASSUME SerialClose /\ Base /\ Shared /\ Serial, [Next]_vars PROVE (Alone /\ UsableInv)'
    OBVIOUS
  <1>a. /\ pc \in [Thread -> PC] /\ site \in [Thread -> Site]
        /\ SerialClose /\ SiteInv /\ Alone /\ UsableInv
    BY DEF Base, TypeOK, Serial
  <1> USE <1>a
      DEF SiteInv, Alone, UsableInv, Working, InClose, Goto, Finish, owner, objects, locals,
          iter, Fetching, Locked, Closing, Site
  <1>1. ASSUME NEW t \in Thread, NEW p \in Path, Begin(t, p) PROVE (Alone /\ UsableInv)'
    BY <1>1 DEF Begin
  <1>2. ASSUME NEW t \in Thread, Guard(t) PROVE (Alone /\ UsableInv)'
    BY <1>2 DEF Guard
  <1>3. ASSUME NEW t \in Thread, Cpu(t) PROVE (Alone /\ UsableInv)'
    BY <1>3 DEF Cpu
  <1>4. ASSUME NEW t \in Thread, Acquire(t) PROVE (Alone /\ UsableInv)'
    BY <1>4 DEF Acquire
  <1>5. ASSUME NEW t \in Thread, Lookup(t) PROVE (Alone /\ UsableInv)'
    BY <1>5 DEF Lookup
  <1>6. ASSUME NEW t \in Thread, Open(t) PROVE (Alone /\ UsableInv)'
    BY <1>6 DEF Open
  <1>7. ASSUME NEW t \in Thread, Insert(t) PROVE (Alone /\ UsableInv)'
    BY <1>7 DEF Insert
  <1>8. ASSUME NEW t \in Thread, GetPtr(t) PROVE (Alone /\ UsableInv)'
    BY <1>8 DEF GetPtr
  <1>9. ASSUME NEW t \in Thread, NativeCall(t) PROVE (Alone /\ UsableInv)'
    BY <1>9 DEF NativeCall
  <1>10. ASSUME NEW t \in Thread, Copy(t) PROVE (Alone /\ UsableInv)'
    BY <1>10 DEF Copy
  <1>11. ASSUME NEW t \in Thread, PtrCheck(t) PROVE (Alone /\ UsableInv)'
    BY <1>11 DEF PtrCheck
  <1>12. ASSUME NEW t \in Thread, EnterEngine(t) PROVE (Alone /\ UsableInv)'
    BY <1>12 DEF EnterEngine
  <1>13. ASSUME NEW t \in Thread, EngineCall(t) PROVE (Alone /\ UsableInv)'
    BY <1>13 DEF EngineCall
  <1>14. ASSUME NEW t \in Thread, Frame(t) PROVE (Alone /\ UsableInv)'
    BY <1>14 DEF Frame
  <1>15. ASSUME NEW t \in Thread, MadeFrame(t) PROVE (Alone /\ UsableInv)'
    BY <1>15 DEF MadeFrame
  <1>16. ASSUME NEW t \in Thread, Unwind(t) PROVE (Alone /\ UsableInv)'
    BY <1>16 DEF Unwind
  <1>17. ASSUME NEW t \in Thread, CloseBegin(t) PROVE (Alone /\ UsableInv)'
    BY <1>17 DEF CloseBegin, Quiet
  <1>18. ASSUME NEW t \in Thread, Drop(t) PROVE (Alone /\ UsableInv)'
    BY <1>18 DEF Drop, Quiet
  <1>19. ASSUME NEW t \in Thread, CloseGuard(t) PROVE (Alone /\ UsableInv)'
    BY <1>19 DEF CloseGuard
  <1>20. ASSUME NEW t \in Thread, ClosePtr(t) PROVE (Alone /\ UsableInv)'
    BY <1>20 DEF ClosePtr
  <1>21. ASSUME NEW t \in Thread, CloseEnter(t) PROVE (Alone /\ UsableInv)'
    BY <1>21 DEF CloseEnter
  <1>22. ASSUME NEW t \in Thread, CloseFree(t) PROVE (Alone /\ UsableInv)'
    BY <1>22 DEF CloseFree
  <1>23. ASSUME NEW t \in Thread, CloseNull(t) PROVE (Alone /\ UsableInv)'
    BY <1>23 DEF CloseNull
  <1>24. ASSUME NEW t \in Thread, CloseIter(t) PROVE (Alone /\ UsableInv)'
    BY <1>24 DEF CloseIter
  <1>25. ASSUME NEW t \in Thread, CloseNext(t) PROVE (Alone /\ UsableInv)'
    BY <1>25 DEF CloseNext
  <1>26. ASSUME NEW t \in Thread, DiCheck(t) PROVE (Alone /\ UsableInv)'
    BY <1>26 DEF DiCheck
  <1>27. ASSUME NEW t \in Thread, DiEnter(t) PROVE (Alone /\ UsableInv)'
    BY <1>27 DEF DiEnter
  <1>28. ASSUME NEW t \in Thread, DiFree(t) PROVE (Alone /\ UsableInv)'
    BY <1>28 DEF DiFree
  <1>29. ASSUME NEW t \in Thread, DiNull(t) PROVE (Alone /\ UsableInv)'
    BY <1>29 DEF DiNull
  <1>30. ASSUME NEW t \in Thread, CloseClear(t) PROVE (Alone /\ UsableInv)'
    BY <1>30 DEF CloseClear
  <1>31. ASSUME NEW t \in Thread, CloseSet(t) PROVE (Alone /\ UsableInv)'
    BY <1>31 DEF CloseSet
  <1>32. CASE UNCHANGED vars
    BY <1>32 DEF vars
  <1>33. QED
    BY <1>1, <1>2, <1>3, <1>4, <1>5, <1>6, <1>7, <1>8, <1>9, <1>10, <1>11, <1>12, <1>13,
       <1>14, <1>15, <1>16, <1>17, <1>18, <1>19, <1>20, <1>21, <1>22, <1>23, <1>24, <1>25, <1>26,
       <1>27, <1>28, <1>29, <1>30, <1>31, <1>32
    DEF Next, Step, Fetch, UnderLock, Close

(* The engine goes away only while its closing thread is alone.            *)
LEMMA StepEngine == SerialClose /\ Base /\ Shared /\ Serial /\ [Next]_vars => EngineInv'
  <1> SUFFICES ASSUME SerialClose /\ Base /\ Shared /\ Serial, [Next]_vars PROVE EngineInv'
    OBVIOUS
  <1>a. /\ pc \in [Thread -> PC] /\ site \in [Thread -> Site]
        /\ SerialClose /\ SiteInv /\ Alone /\ UsableInv /\ EngineInv
    BY DEF Base, TypeOK, Serial
  <1> USE <1>a
      DEF SiteInv, Alone, EngineInv, InClose, NoCloser, Goto, Finish, owner, objects, locals,
          iter, Fetching, Locked, Closing, Site
  <1>1. ASSUME NEW t \in Thread, NEW p \in Path, Begin(t, p) PROVE EngineInv'
    BY <1>1 DEF Begin
  <1>2. ASSUME NEW t \in Thread, Guard(t) PROVE EngineInv'
    BY <1>2 DEF Guard
  <1>3. ASSUME NEW t \in Thread, Cpu(t) PROVE EngineInv'
    BY <1>3 DEF Cpu
  <1>4. ASSUME NEW t \in Thread, Acquire(t) PROVE EngineInv'
    BY <1>4 DEF Acquire
  <1>5. ASSUME NEW t \in Thread, Lookup(t) PROVE EngineInv'
    BY <1>5 DEF Lookup
  <1>6. ASSUME NEW t \in Thread, Open(t) PROVE EngineInv'
    BY <1>6 DEF Open
  <1>7. ASSUME NEW t \in Thread, Insert(t) PROVE EngineInv'
    BY <1>7 DEF Insert
  <1>8. ASSUME NEW t \in Thread, GetPtr(t) PROVE EngineInv'
    BY <1>8 DEF GetPtr
  <1>9. ASSUME NEW t \in Thread, NativeCall(t) PROVE EngineInv'
    BY <1>9 DEF NativeCall
  <1>10. ASSUME NEW t \in Thread, Copy(t) PROVE EngineInv'
    BY <1>10 DEF Copy
  <1>11. ASSUME NEW t \in Thread, PtrCheck(t) PROVE EngineInv'
    BY <1>11 DEF PtrCheck
  <1>12. ASSUME NEW t \in Thread, EnterEngine(t) PROVE EngineInv'
    BY <1>12 DEF EnterEngine
  <1>13. ASSUME NEW t \in Thread, EngineCall(t) PROVE EngineInv'
    BY <1>13 DEF EngineCall
  <1>14. ASSUME NEW t \in Thread, Frame(t) PROVE EngineInv'
    BY <1>14 DEF Frame
  <1>15. ASSUME NEW t \in Thread, MadeFrame(t) PROVE EngineInv'
    BY <1>15 DEF MadeFrame
  <1>16. ASSUME NEW t \in Thread, Unwind(t) PROVE EngineInv'
    BY <1>16 DEF Unwind
  <1>17. ASSUME NEW t \in Thread, CloseBegin(t) PROVE EngineInv'
    BY <1>17 DEF CloseBegin, Quiet
  <1>18. ASSUME NEW t \in Thread, Drop(t) PROVE EngineInv'
    BY <1>18 DEF Drop, Quiet
  <1>19. ASSUME NEW t \in Thread, CloseGuard(t) PROVE EngineInv'
    BY <1>19 DEF CloseGuard
  <1>20. ASSUME NEW t \in Thread, ClosePtr(t) PROVE EngineInv'
    <2>1. engine \in Engine
      BY DEF Base, TypeOK
    <2>2. engine # "dangling"
      BY <1>20 DEF ClosePtr
    <2>3. QED
      BY <1>20, <2>1, <2>2 DEF ClosePtr, Engine
  <1>21. ASSUME NEW t \in Thread, CloseEnter(t) PROVE EngineInv'
    BY <1>21 DEF CloseEnter
  <1>22. ASSUME NEW t \in Thread, CloseFree(t) PROVE EngineInv'
    BY <1>22 DEF CloseFree
  <1>23. ASSUME NEW t \in Thread, CloseNull(t) PROVE EngineInv'
    BY <1>23 DEF CloseNull
  <1>24. ASSUME NEW t \in Thread, CloseIter(t) PROVE EngineInv'
    BY <1>24 DEF CloseIter
  <1>25. ASSUME NEW t \in Thread, CloseNext(t) PROVE EngineInv'
    <2>1. /\ pc[t] = "c_next" /\ UNCHANGED <<closed, alive, engine, site>>
          /\ \E l \in {"c_clear", "d_check"} : Goto(t, l)
      BY <1>25 DEF CloseNext, OpenInv, Disposed, Serial
    <2>2. QED
      BY <2>1
  <1>26. ASSUME NEW t \in Thread, DiCheck(t) PROVE EngineInv'
    BY <1>26 DEF DiCheck
  <1>27. ASSUME NEW t \in Thread, DiEnter(t) PROVE EngineInv'
    <2>1. /\ pc[t] = "d_enter" /\ UNCHANGED <<closed, alive, engine, site>> /\ Goto(t, "d_free")
      BY <1>27 DEF DiEnter, OpenInv, Disposed, Serial
    <2>2. QED
      BY <2>1
  <1>28. ASSUME NEW t \in Thread, DiFree(t) PROVE EngineInv'
    BY <1>28 DEF DiFree
  <1>29. ASSUME NEW t \in Thread, DiNull(t) PROVE EngineInv'
    BY <1>29 DEF DiNull
  <1>30. ASSUME NEW t \in Thread, CloseClear(t) PROVE EngineInv'
    BY <1>30 DEF CloseClear
  <1>31. ASSUME NEW t \in Thread, CloseSet(t) PROVE EngineInv'
    BY <1>31 DEF CloseSet
  <1>32. CASE UNCHANGED vars
    BY <1>32 DEF vars, Engine
  <1>33. QED
    BY <1>1, <1>2, <1>3, <1>4, <1>5, <1>6, <1>7, <1>8, <1>9, <1>10, <1>11, <1>12, <1>13,
       <1>14, <1>15, <1>16, <1>17, <1>18, <1>19, <1>20, <1>21, <1>22, <1>23, <1>24, <1>25, <1>26,
       <1>27, <1>28, <1>29, <1>30, <1>31, <1>32
    DEF Next, Step, Fetch, UnderLock, Close

(* A call of symbolize() cannot break OpenInv as long as it only creates    *)
(* open objects and drops references.                                      *)
LEMMA CallKeepsOpen ==
  ASSUME OpenInv, NoCloser, NoCloser', SiteInv', closed' = closed,
         \A h \in Handle : \/ handle'[h] \in {handle[h], "none"}
                           \/ ~closed /\ handle'[h] = "open"
  PROVE  OpenInv'
  <1>1. \A h \in Handle : handle'[h] \in {"none", "open"}
    BY DEF OpenInv
  <1>2. \A t \in Thread : ~InClose(t)' /\ pc'[t] \notin {"c_next", "c_set"} \cup Disposing
    BY DEF NoCloser, SiteInv, InClose, Closing, Disposing
  <1>3. closed' => \A h \in Handle : handle'[h] = "none"
    BY DEF OpenInv
  <1>4. \A t \in Thread : Disposed(t)'
    BY <1>2 DEF Disposed, Disposing
  <1>5. QED
    BY <1>1, <1>3, <1>4 DEF OpenInv

(* With the other threads idle only the closing one has to be looked at.   *)
LEMMA ClosingKeepsOpen ==
  ASSUME NEW t \in Thread, \A u \in Thread : u # t => pc'[u] = "idle", InClose(t)',
         pc'[t] \in Starting => \A h \in Handle : handle'[h] \in {"none", "open"},
         Disposed(t)',
         closed' => \A h \in Handle : handle'[h] = "none"
  PROVE  OpenInv'
  <1>1. \A u \in Thread : Disposed(u)'
    BY DEF Disposed, Disposing
  <1>2. ~NoCloser'
    BY DEF NoCloser
  <1>3. \A u \in Thread : pc'[u] \in Starting => u = t
    BY DEF Starting
  <1>4. QED
    BY <1>1, <1>2, <1>3 DEF OpenInv

(* The closing thread is the only one with something to show for.          *)
LEMMA ClosingAlone ==
  ASSUME SiteInv, Alone, pc \in [Thread -> PC], NEW t \in Thread, InClose(t)
  PROVE  /\ \A u \in Thread : u # t => pc[u] = "idle"
         /\ ~NoCloser
  BY DEF Alone, NoCloser

(* Without a closing thread's locals only the dict keeps objects alive.    *)
LEMMA OnlyCached ==
  ASSUME DiInv, RefInv, Alone, NoHandle \notin Handle, NEW t \in Thread, InClose(t),
         di[t] = NoLocals, NEW h \in Handle, handle[h] # "none"
  PROVE  \E p \in Path : cache[p] = h
  <1>1. \A u \in Thread : di[u] = NoLocals
    BY DEF DiInv, Alone
  <1>2. QED
    BY <1>1 DEF RefInv, Referenced, NoLocals

(* DebugInfo objects are disposed of one by one, each path once.           *)
LEMMA StepOpen == SerialClose /\ Base /\ Shared /\ Serial /\ [Next]_vars => OpenInv'
  <1> SUFFICES ASSUME SerialClose /\ Base /\ Shared /\ Serial, [Next]_vars PROVE OpenInv'
    OBVIOUS
  <1>a. /\ pc \in [Thread -> PC] /\ site \in [Thread -> Site]
        /\ di \in [Thread -> [Site -> Handle \cup {NoHandle}]]
        /\ cache \in [Path -> Handle \cup {NoHandle}] /\ handle \in [Handle -> Object]
        /\ todo \in [Thread -> SUBSET Path] /\ size \in [Thread -> Nat]
    BY DEF Base, TypeOK
  <1>b. /\ SerialClose /\ NoHandle \notin Handle
        /\ SiteInv /\ DiInv /\ RefInv /\ CacheInv
        /\ Alone /\ UsableInv /\ EngineInv /\ OpenInv
    BY SymbolizerAssumption DEF Base, Shared, Serial
  <1>c. SiteInv'
    BY StepControl
  <1> USE <1>a, <1>b, <1>c DEF Finish, owner, objects, locals, iter
  <1>1. ASSUME NEW t \in Thread, NEW p \in Path, Begin(t, p) PROVE OpenInv'
    <2>1. NoCloser
      BY <1>1 DEF Begin, NoCloser
    <2>2. NoCloser' /\ UNCHANGED closed
      BY <1>1, <2>1 DEF Begin, NoCloser, InClose
    <2>3. UNCHANGED handle
      BY <1>1 DEF Begin
    <2>4. QED
      BY <2>1, <2>2, <2>3, CallKeepsOpen
  <1>2. ASSUME NEW t \in Thread, Guard(t) PROVE OpenInv'
    <2>1. NoCloser
      BY <1>2, CallsExcludeClose DEF Guard, Working, Fetching, Locked
    <2>2. NoCloser' /\ UNCHANGED closed
      BY <1>2, <2>1 DEF Guard, NoCloser, InClose
    <2>3. UNCHANGED handle
      BY <1>2 DEF Guard
    <2>4. QED
      BY <2>1, <2>2, <2>3, CallKeepsOpen
  <1>3. ASSUME NEW t \in Thread, Cpu(t) PROVE OpenInv'
    <2>1. NoCloser
      BY <1>3, CallsExcludeClose DEF Cpu, Working, Fetching, Locked
    <2>2. NoCloser' /\ UNCHANGED closed
      BY <1>3, <2>1 DEF Cpu, NoCloser, InClose
    <2>3. UNCHANGED handle
      BY <1>3 DEF Cpu
    <2>4. QED
      BY <2>1, <2>2, <2>3, CallKeepsOpen
  <1>4. ASSUME NEW t \in Thread, Acquire(t) PROVE OpenInv'
    <2>1. NoCloser
      BY <1>4, CallsExcludeClose DEF Acquire, Working, Fetching, Locked
    <2>2. NoCloser' /\ UNCHANGED closed
      BY <1>4, <2>1 DEF Acquire, NoCloser, InClose
    <2>3. UNCHANGED handle
      BY <1>4 DEF Acquire
    <2>4. QED
      BY <2>1, <2>2, <2>3, CallKeepsOpen
  <1>5. ASSUME NEW t \in Thread, Lookup(t) PROVE OpenInv'
    <2>1. NoCloser
      BY <1>5, CallsExcludeClose DEF Lookup, Working, Fetching, Locked
    <2>2. NoCloser' /\ UNCHANGED closed
      BY <1>5, <2>1 DEF Lookup, NoCloser, InClose
    <2>3. UNCHANGED handle
      BY <1>5 DEF Lookup
    <2>4. QED
      BY <2>1, <2>2, <2>3, CallKeepsOpen
  <1>6. ASSUME NEW t \in Thread, Open(t) PROVE OpenInv'
    <2>1. NoCloser
      BY <1>6, CallsExcludeClose DEF Open, Working, Fetching, Locked
    <2>2. NoCloser' /\ UNCHANGED closed
      BY <1>6, <2>1 DEF Open, NoCloser, InClose
    <2>3. ~closed /\ \A h \in Handle : handle'[h] \in {handle[h], "open"}
      BY <1>6 DEF Open, UsableInv, Working, Fetching
    <2>4. QED
      BY <2>1, <2>2, <2>3, CallKeepsOpen
  <1>7. ASSUME NEW t \in Thread, Insert(t) PROVE OpenInv'
    <2>1. NoCloser
      BY <1>7, CallsExcludeClose DEF Insert, Working, Fetching, Locked
    <2>2. NoCloser' /\ UNCHANGED closed
      BY <1>7, <2>1 DEF Insert, NoCloser, InClose
    <2>3. \A h \in Handle : handle'[h] \in {handle[h], "none"}
      BY <1>7 DEF Insert, Reap
    <2>4. QED
      BY <2>1, <2>2, <2>3, CallKeepsOpen
  <1>8. ASSUME NEW t \in Thread, GetPtr(t) PROVE OpenInv'
    <2>1. NoCloser
      BY <1>8, CallsExcludeClose DEF GetPtr, Working, Fetching, Locked
    <2>2. NoCloser' /\ UNCHANGED closed
      BY <1>8, <2>1 DEF GetPtr, NoCloser, InClose
    <2>3. UNCHANGED handle
      BY <1>8 DEF GetPtr
    <2>4. QED
      BY <2>1, <2>2, <2>3, CallKeepsOpen
  <1>9. ASSUME NEW t \in Thread, NativeCall(t) PROVE OpenInv'
    <2>1. NoCloser
      BY <1>9, CallsExcludeClose DEF NativeCall, Working, Fetching, Locked
    <2>2. NoCloser' /\ UNCHANGED closed
      BY <1>9, <2>1 DEF NativeCall, NoCloser, InClose
    <2>3. UNCHANGED handle
      BY <1>9 DEF NativeCall
    <2>4. QED
      BY <2>1, <2>2, <2>3, CallKeepsOpen
  <1>10. ASSUME NEW t \in Thread, Copy(t) PROVE OpenInv'
    <2>1. NoCloser
      BY <1>10, CallsExcludeClose DEF Copy, Working, Fetching, Locked
    <2>2. NoCloser' /\ UNCHANGED closed
      BY <1>10, <2>1 DEF Copy, NoCloser, InClose
    <2>3. UNCHANGED handle
      BY <1>10 DEF Copy
    <2>4. QED
      BY <2>1, <2>2, <2>3, CallKeepsOpen
  <1>11. ASSUME NEW t \in Thread, PtrCheck(t) PROVE OpenInv'
    <2>1. NoCloser
      BY <1>11, CallsExcludeClose DEF PtrCheck, Working, Fetching, Locked
    <2>2. NoCloser' /\ UNCHANGED closed
      BY <1>11, <2>1 DEF PtrCheck, NoCloser, InClose
    <2>3. UNCHANGED handle
      BY <1>11 DEF PtrCheck
    <2>4. QED
      BY <2>1, <2>2, <2>3, CallKeepsOpen
  <1>12. ASSUME NEW t \in Thread, EnterEngine(t) PROVE OpenInv'
    <2>1. NoCloser
      BY <1>12, CallsExcludeClose DEF EnterEngine, Working, Fetching, Locked
    <2>2. NoCloser' /\ UNCHANGED closed
      BY <1>12, <2>1 DEF EnterEngine, NoCloser, InClose
    <2>3. UNCHANGED handle
      BY <1>12 DEF EnterEngine
    <2>4. QED
      BY <2>1, <2>2, <2>3, CallKeepsOpen
  <1>13. ASSUME NEW t \in Thread, EngineCall(t) PROVE OpenInv'
    <2>1. NoCloser
      BY <1>13, CallsExcludeClose DEF EngineCall, Working, Fetching, Locked
    <2>2. NoCloser' /\ UNCHANGED closed
      BY <1>13, <2>1 DEF EngineCall, NoCloser, InClose
    <2>3. UNCHANGED handle
      BY <1>13 DEF EngineCall
    <2>4. QED
      BY <2>1, <2>2, <2>3, CallKeepsOpen
  <1>14. ASSUME NEW t \in Thread, Frame(t) PROVE OpenInv'
    <2>1. NoCloser
      BY <1>14, CallsExcludeClose DEF Frame, Working, Fetching, Locked
    <2>2. NoCloser' /\ UNCHANGED closed
      BY <1>14, <2>1 DEF Frame, NoCloser, InClose
    <2>3. UNCHANGED handle
      BY <1>14 DEF Frame
    <2>4. QED
      BY <2>1, <2>2, <2>3, CallKeepsOpen
  <1>15. ASSUME NEW t \in Thread, MadeFrame(t) PROVE OpenInv'
    <2>1. NoCloser
      BY <1>15, CallsExcludeClose DEF MadeFrame, Working, Fetching, Locked
    <2>2. NoCloser' /\ UNCHANGED closed
      BY <1>15, <2>1 DEF MadeFrame, NoCloser, InClose
    <2>3. \A h \in Handle : handle'[h] \in {handle[h], "none"}
      BY <1>15 DEF MadeFrame, Reap
    <2>4. QED
      BY <2>1, <2>2, <2>3, CallKeepsOpen
  <1>16. ASSUME NEW t \in Thread, Unwind(t) PROVE OpenInv'
    <2>1. \A h \in Handle : handle'[h] \in {handle[h], "none"}
      BY <1>16 DEF Unwind, Reap
    <2>2. UNCHANGED closed /\ pc[t] = "unwind" /\ site' = [site EXCEPT ![t] = "slide"]
          /\ Goto(t, "idle")
      BY <1>16 DEF Unwind
    <2>3. CASE NoCloser
      BY <2>1, <2>2, <2>3, CallKeepsOpen DEF NoCloser, InClose
    <2>4. CASE InClose(t)
      <3>1. \A u \in Thread : u # t => pc[u] = "idle"
        BY <2>4, ClosingAlone
      <3>2. \A h \in Handle : handle'[h] = "none"
        BY <2>1, <2>2, <2>4 DEF OpenInv, Disposed
      <3>3. QED
        BY <2>2, <3>1, <3>2 DEF OpenInv, Disposed, Disposing, Goto
    <2>5. QED
      BY <2>2, <2>3, <2>4 DEF NoCloser, Alone
  <1>17. ASSUME NEW t \in Thread, CloseBegin(t) PROVE OpenInv'
    <2>1. Quiet /\ UNCHANGED <<closed, handle>> /\ \E l \in {"c_guard", "c_ptr"} : Goto(t, l)
      BY <1>17 DEF CloseBegin
    <2>2. NoCloser
      BY <2>1 DEF Quiet, NoCloser, InClose, SiteInv
    <2>3. QED
      BY <2>1, <2>2 DEF OpenInv, Disposed, Quiet, Starting, Disposing, Goto
  <1>18. ASSUME NEW t \in Thread, Drop(t) PROVE OpenInv'
    <2>1. Quiet /\ UNCHANGED <<closed, handle>> /\ \E l \in {"c_guard", "c_ptr"} : Goto(t, l)
      BY <1>18 DEF Drop
    <2>2. NoCloser
      BY <2>1 DEF Quiet, NoCloser, InClose, SiteInv
    <2>3. QED
      BY <2>1, <2>2 DEF OpenInv, Disposed, Quiet, Starting, Disposing, Goto
  <1>19. ASSUME NEW t \in Thread, CloseGuard(t) PROVE OpenInv'
    <2>1. pc[t] = "c_guard" /\ InClose(t)
      BY <1>19 DEF CloseGuard, SiteInv, InClose, Closing
    <2>2. \A u \in Thread : u # t => pc[u] = "idle"
      BY <2>1, ClosingAlone
    <2>3. QED
      BY <1>19, <2>1, <2>2 DEF CloseGuard, OpenInv, Disposed, Starting, Disposing, Goto, objects
  <1>20. ASSUME NEW t \in Thread, ClosePtr(t) PROVE OpenInv'
    <2>1. pc[t] = "c_ptr" /\ InClose(t)
      BY <1>20 DEF ClosePtr, SiteInv, InClose, Closing
    <2>2. \A u \in Thread : u # t => pc[u] = "idle"
      BY <2>1, ClosingAlone
    <2>3. QED
      BY <1>20, <2>1, <2>2 DEF ClosePtr, OpenInv, Disposed, Starting, Disposing, Goto, owner, objects
  <1>21. ASSUME NEW t \in Thread, CloseEnter(t) PROVE OpenInv'
    <2>1. pc[t] = "c_enter" /\ InClose(t)
      BY <1>21 DEF CloseEnter, SiteInv, InClose, Closing
    <2>2. \A u \in Thread : u # t => pc[u] = "idle"
      BY <2>1, ClosingAlone
    <2>3. Goto(t, "c_free") /\ UNCHANGED <<closed, handle>>
      BY <1>21, <2>1 DEF CloseEnter, EngineInv, owner, objects
    <2>4. QED
      BY <2>1, <2>2, <2>3 DEF OpenInv, Disposed, Starting, Disposing, Goto
  <1>22. ASSUME NEW t \in Thread, CloseFree(t) PROVE OpenInv'
    <2>1. pc[t] = "c_free" /\ InClose(t)
      BY <1>22 DEF CloseFree, SiteInv, InClose, Closing
    <2>2. \A u \in Thread : u # t => pc[u] = "idle"
      BY <2>1, ClosingAlone
    <2>3. QED
      BY <1>22, <2>1, <2>2 DEF CloseFree, OpenInv, Disposed, Starting, Disposing, Goto, objects
  <1>23. ASSUME NEW t \in Thread, CloseNull(t) PROVE OpenInv'
    <2>1. pc[t] = "c_null" /\ InClose(t)
      BY <1>23 DEF CloseNull, SiteInv, InClose, Closing
    <2>2. \A u \in Thread : u # t => pc[u] = "idle"
      BY <2>1, ClosingAlone
    <2>3. QED
      BY <1>23, <2>1, <2>2 DEF CloseNull, OpenInv, Disposed, Starting, Disposing, Goto, objects
  <1>24. ASSUME NEW t \in Thread, CloseIter(t) PROVE OpenInv'
    <2>1. pc[t] = "c_iter" /\ InClose(t)
      BY <1>24 DEF CloseIter, SiteInv, InClose, Closing
    <2>2. \A u \in Thread : u # t => pc[u] = "idle"
      BY <2>1, ClosingAlone
    <2>3. UNCHANGED <<closed, cache, handle, site>>
      BY <1>24 DEF CloseIter, owner, objects, locals
    <2>4. \A h \in Handle : handle[h] # "none" => \E p \in Cached : cache[p] = h
      BY <2>1, OnlyCached DEF DiInv, Cached
    <2>5. \A h \in Handle : handle[h] \in {"none", "open"}
      BY <2>1 DEF OpenInv, Starting
    <2>6. CASE Cached = {}
      BY <1>24, <2>1, <2>2, <2>3, <2>4, <2>6 DEF CloseIter, OpenInv, Disposed, Starting, Disposing, Goto
    <2>7. CASE Cached # {}
      <3>1. Goto(t, "c_next") /\ todo'[t] = Cached /\ size'[t] = Cardinality(Cached)
        BY <1>24, <2>7 DEF CloseIter
      <3>2. \A p \in Cached : handle[cache[p]] = "open"
        BY <2>5 DEF Cached, RefInv, Referenced
      <3>3. Disposed(t)'
        BY <2>3, <3>1, <3>2 DEF Disposed, Disposing, Goto, Cached
      <3>4. closed => \A h \in Handle : handle'[h] = "none"
        BY <2>3 DEF OpenInv
      <3>5. QED
        BY <2>1, <2>2, <2>3, <3>1, <3>3, <3>4, ClosingKeepsOpen DEF Goto, InClose, Starting
    <2>8. QED
      BY <2>6, <2>7
  <1>25. ASSUME NEW t \in Thread, CloseNext(t) PROVE OpenInv'
    <2>1. pc[t] = "c_next" /\ InClose(t)
      BY <1>25 DEF CloseNext, SiteInv, InClose, Closing
    <2>2. \A u \in Thread : u # t => pc[u] = "idle"
      BY <2>1, ClosingAlone
    <2>3. /\ size[t] = Cardinality(Cached) /\ UNCHANGED <<closed, cache, site, size>>
          /\ \A p \in todo[t] \cap Cached : handle[cache[p]] = "open"
      BY <1>25, <2>1 DEF CloseNext, OpenInv, Disposed
    <2>4. CASE Goto(t, "c_clear") /\ UNCHANGED handle
      <3>1. Disposed(t)'
        BY <2>4 DEF Disposed, Disposing, Goto
      <3>2. closed => \A h \in Handle : handle'[h] = "none"
        BY <2>4 DEF OpenInv
      <3>3. QED
        BY <2>1, <2>2, <2>3, <2>4, <3>1, <3>2, ClosingKeepsOpen DEF Goto, InClose, Starting
    <2>5. ASSUME NEW p \in todo[t] \cap Cached, todo' = [todo EXCEPT ![t] = @ \ {p}],
                 Bind(t, "close", cache[p]), handle' = Reap(handle, cache, di'),
                 Goto(t, "d_check")
          PROVE  OpenInv'
      <3>1. /\ pc'[t] = "d_check" /\ \A u \in Thread : u # t => pc'[u] = "idle"
            /\ site'[t] = "close" /\ Current(t)' = cache[p] /\ todo'[t] = todo[t] \ {p}
        BY <2>1, <2>2, <2>3, <2>5 DEF Goto, Bind, Current, InClose
      <3>2. \A q \in todo'[t] \cap Cached : handle'[cache[q]] = "open"
        BY <2>3, <2>5, <3>1 DEF Reap, Referenced, Cached
      <3>3. handle'[cache[p]] = "open"
        BY <2>3, <2>5 DEF Reap, Referenced, Cached
      <3>4. \A q \in todo'[t] : cache[q] # cache[p]
        BY <3>1, <2>5 DEF CacheInv, Cached
      <3>5. closed => \A h \in Handle : handle'[h] = "none"
        BY <2>5 DEF OpenInv, Reap
      <3>6. Cached' = Cached
        BY <2>3 DEF Cached
      <3>7. Disposed(t)'
        BY <2>3, <3>1, <3>2, <3>3, <3>4, <3>6 DEF Disposed, Disposing
      <3>8. QED
        BY <2>3, <3>1, <3>5, <3>7, ClosingKeepsOpen DEF InClose, Starting
    <2>6. QED
      BY <1>25, <2>3, <2>4, <2>5 DEF CloseNext
  <1>26. ASSUME NEW t \in Thread, DiCheck(t) PROVE OpenInv'
    <2>1. pc[t] = "d_check" /\ InClose(t)
      BY <1>26 DEF DiCheck, SiteInv, InClose, Closing
    <2>2. \A u \in Thread : u # t => pc[u] = "idle"
      BY <2>1, ClosingAlone
    <2>3. Goto(t, "d_enter") /\ UNCHANGED <<closed, cache, handle, site, di, todo, size>>
      BY <1>26, <2>1 DEF DiCheck, OpenInv, Disposed, owner, objects, locals, iter
    <2>4. Cached' = Cached /\ Current(t)' = Current(t)
      BY <2>3 DEF Cached, Current
    <2>5. Disposed(t)'
      BY <2>1, <2>3, <2>4 DEF OpenInv, Disposed, Disposing, Goto
    <2>6. QED
      BY <2>1, <2>2, <2>3, <2>5, ClosingKeepsOpen DEF OpenInv, Goto, InClose, Starting
  <1>27. ASSUME NEW t \in Thread, DiEnter(t) PROVE OpenInv'
    <2>1. pc[t] = "d_enter" /\ InClose(t)
      BY <1>27 DEF DiEnter, SiteInv, InClose, Closing
    <2>2. \A u \in Thread : u # t => pc[u] = "idle"
      BY <2>1, ClosingAlone
    <2>3. Goto(t, "d_free") /\ UNCHANGED <<closed, cache, handle, site, di, todo, size>>
      BY <1>27, <2>1 DEF DiEnter, OpenInv, Disposed, owner, objects, iter
    <2>4. Cached' = Cached /\ Current(t)' = Current(t)
      BY <2>3 DEF Cached, Current
    <2>5. Disposed(t)'
      BY <2>1, <2>3, <2>4 DEF OpenInv, Disposed, Disposing, Goto
    <2>6. QED
      BY <2>1, <2>2, <2>3, <2>5, ClosingKeepsOpen DEF OpenInv, Goto, InClose, Starting
  <1>28. ASSUME NEW t \in Thread, DiFree(t) PROVE OpenInv'
    <2>1. pc[t] = "d_free" /\ InClose(t)
      BY <1>28 DEF DiFree, SiteInv, InClose, Closing
    <2>2. \A u \in Thread : u # t => pc[u] = "idle"
      BY <2>1, ClosingAlone
    <2>3. /\ Goto(t, "d_null") /\ UNCHANGED <<closed, cache, site, di, todo, size>>
          /\ \A h \in Handle : h # Current(t) => handle'[h] = handle[h]
      BY <1>28 DEF DiFree, owner, locals, iter
    <2>4. ~closed
      BY <2>1 DEF OpenInv, Disposed, DiInv, RefInv, Referenced, Current
    <2>5. /\ size'[t] = Cardinality(Cached) /\ Cached' = Cached /\ Current(t)' = Current(t)
          /\ \A p \in todo[t] \cap Cached : handle[cache[p]] = "open"
          /\ \A p \in todo[t] : cache[p] # Current(t)
      BY <2>1, <2>3 DEF OpenInv, Disposed, Disposing, Cached, Current
    <2>6. \A p \in todo'[t] \cap Cached : handle'[cache[p]] = "open"
      BY <2>3, <2>5 DEF Cached
    <2>7. Disposed(t)'
      BY <2>1, <2>3, <2>5, <2>6 DEF Disposed, Disposing, Goto
    <2>8. QED
      BY <2>1, <2>2, <2>3, <2>4, <2>7, ClosingKeepsOpen DEF Goto, InClose, Starting
  <1>29. ASSUME NEW t \in Thread, DiNull(t) PROVE OpenInv'
    <2>1. pc[t] = "d_null" /\ InClose(t)
      BY <1>29 DEF DiNull, SiteInv, InClose, Closing
    <2>2. \A u \in Thread : u # t => pc[u] = "idle"
      BY <2>1, ClosingAlone
    <2>3. /\ Goto(t, "c_next") /\ UNCHANGED <<closed, cache, site, di, todo, size>>
          /\ \A h \in Handle : h # Current(t) => handle'[h] = handle[h]
      BY <1>29 DEF DiNull, owner, locals, iter
    <2>4. ~closed
      BY <2>1 DEF OpenInv, Disposed, DiInv, RefInv, Referenced, Current
    <2>5. /\ size'[t] = Cardinality(Cached) /\ Cached' = Cached /\ Current(t)' = Current(t)
          /\ \A p \in todo[t] \cap Cached : handle[cache[p]] = "open"
          /\ \A p \in todo[t] : cache[p] # Current(t)
      BY <2>1, <2>3 DEF OpenInv, Disposed, Disposing, Cached, Current
    <2>6. \A p \in todo'[t] \cap Cached : handle'[cache[p]] = "open"
      BY <2>3, <2>5 DEF Cached
    <2>7. Disposed(t)'
      BY <2>1, <2>3, <2>5, <2>6 DEF Disposed, Disposing, Goto
    <2>8. QED
      BY <2>1, <2>2, <2>3, <2>4, <2>7, ClosingKeepsOpen DEF Goto, InClose, Starting
  <1>30. ASSUME NEW t \in Thread, CloseClear(t) PROVE OpenInv'
    <2>1. pc[t] = "c_clear" /\ InClose(t)
      BY <1>30 DEF CloseClear, SiteInv, InClose, Closing
    <2>2. \A u \in Thread : u # t => pc[u] = "idle"
      BY <2>1, ClosingAlone
    <2>3. Referenced(cache', di') = {}
      <3>1. \A u \in Thread : di'[u] = NoLocals
        BY <1>30, <2>2 DEF CloseClear, DiInv
      <3>2. \A p \in Path : cache'[p] = NoHandle
        BY <1>30 DEF CloseClear
      <3>3. QED
        BY <3>1, <3>2 DEF Referenced, NoLocals
    <2>4. \A h \in Handle : handle'[h] = "none"
      BY <1>30, <2>3 DEF CloseClear, Reap
    <2>5. Goto(t, "c_set") /\ UNCHANGED <<closed, site>>
      BY <1>30 DEF CloseClear, owner, locals
    <2>6. QED
      BY <2>2, <2>4, <2>5 DEF OpenInv, Disposed, Starting, Disposing, Goto
  <1>31. ASSUME NEW t \in Thread, CloseSet(t) PROVE OpenInv'
    <2>1. pc[t] = "c_set" /\ InClose(t)
      BY <1>31 DEF CloseSet, SiteInv, InClose, Closing
    <2>2. \A u \in Thread : u # t => pc[u] = "idle"
      BY <2>1, ClosingAlone
    <2>3. \A h \in Handle : handle'[h] = "none"
      BY <1>31, <2>1 DEF CloseSet, OpenInv, Disposed, objects
    <2>4. Goto(t, "unwind")
      BY <1>31 DEF CloseSet, Finish
    <2>5. QED
      BY <2>2, <2>3, <2>4 DEF OpenInv, Disposed, Starting, Disposing, Goto
  <1>32. CASE UNCHANGED vars
    <2>1. /\ Cached' = Cached
          /\ \A t \in Thread : Current(t)' = Current(t) /\ InClose(t)' = InClose(t)
          /\ UNCHANGED <<closed, cache, handle, pc, todo, size>>
      BY <1>32 DEF vars, Cached, Current, InClose
    <2>2. \A t \in Thread : Disposed(t)'
      BY <2>1 DEF OpenInv, Disposed
    <2>3. QED
      BY <2>1, <2>2 DEF OpenInv, NoCloser
  <1>33. QED
    BY <1>1, <1>2, <1>3, <1>4, <1>5, <1>6, <1>7, <1>8, <1>9, <1>10, <1>11, <1>12, <1>13,
       <1>14, <1>15, <1>16, <1>17, <1>18, <1>19, <1>20, <1>21, <1>22, <1>23, <1>24, <1>25, <1>26,
       <1>27, <1>28, <1>29, <1>30, <1>31, <1>32
    DEF Next, Step, Fetch, UnderLock, Close

(* The accidents of the implementation stay away.                          *)
LEMMA StepOutcome == SerialClose /\ Base /\ Shared /\ Serial /\ [Next]_vars => NoAccidents'
  <1> SUFFICES ASSUME SerialClose /\ Base /\ Shared /\ Serial, [Next]_vars PROVE NoAccidents'
    OBVIOUS
  <1>a. /\ pc \in [Thread -> PC] /\ result \in [Thread -> Outcome]
        /\ SiteInv /\ DiInv /\ Alone /\ UsableInv /\ EngineInv /\ OpenInv
        /\ NoAccidents
    BY DEF Base, TypeOK, Shared, Serial
  <1> USE <1>a DEF NoAccidents, Internal, Finish, owner, objects, locals, iter
  <1>1. ASSUME NEW t \in Thread, NEW p \in Path, Begin(t, p) PROVE NoAccidents'
    BY <1>1 DEF Begin
  <1>2. ASSUME NEW t \in Thread, Guard(t) PROVE NoAccidents'
    BY <1>2 DEF Guard
  <1>3. ASSUME NEW t \in Thread, Cpu(t) PROVE NoAccidents'
    BY <1>3 DEF Cpu
  <1>4. ASSUME NEW t \in Thread, Acquire(t) PROVE NoAccidents'
    BY <1>4 DEF Acquire
  <1>5. ASSUME NEW t \in Thread, Lookup(t) PROVE NoAccidents'
    BY <1>5 DEF Lookup
  <1>6. ASSUME NEW t \in Thread, Open(t) PROVE NoAccidents'
    BY <1>6 DEF Open
  <1>7. ASSUME NEW t \in Thread, Insert(t) PROVE NoAccidents'
    BY <1>7 DEF Insert
  <1>8. ASSUME NEW t \in Thread, GetPtr(t) PROVE NoAccidents'
    <2>1. NoCloser
      BY <1>8, CallsExcludeClose DEF GetPtr, Working, Fetching
    <2>2. Current(t) \in Handle
      BY <1>8 DEF GetPtr, DiInv
    <2>3. handle[Current(t)] # "closed"
      BY <2>1, <2>2 DEF OpenInv
    <2>4. QED
      BY <1>8, <2>3 DEF GetPtr
  <1>9. ASSUME NEW t \in Thread, NativeCall(t) PROVE NoAccidents'
    BY <1>9 DEF NativeCall
  <1>10. ASSUME NEW t \in Thread, Copy(t) PROVE NoAccidents'
    BY <1>10 DEF Copy
  <1>11. ASSUME NEW t \in Thread, PtrCheck(t) PROVE NoAccidents'
    <2>1. NoCloser /\ ~closed /\ alive
      BY <1>11, CallsExcludeClose DEF PtrCheck, Working, Locked, UsableInv
    <2>2. QED
      BY <1>11, <2>1 DEF PtrCheck, EngineInv
  <1>12. ASSUME NEW t \in Thread, EnterEngine(t) PROVE NoAccidents'
    <2>1. NoCloser /\ ~closed /\ alive
      BY <1>12, CallsExcludeClose DEF EnterEngine, Working, Locked, UsableInv
    <2>2. QED
      BY <1>12, <2>1 DEF EnterEngine, EngineInv
  <1>13. ASSUME NEW t \in Thread, EngineCall(t) PROVE NoAccidents'
    BY <1>13, EngineCallEffect DEF EngineCall
  <1>14. ASSUME NEW t \in Thread, Frame(t) PROVE NoAccidents'
    BY <1>14 DEF Frame
  <1>15. ASSUME NEW t \in Thread, MadeFrame(t) PROVE NoAccidents'
    BY <1>15 DEF MadeFrame
  <1>16. ASSUME NEW t \in Thread, Unwind(t) PROVE NoAccidents'
    BY <1>16 DEF Unwind
  <1>17. ASSUME NEW t \in Thread, CloseBegin(t) PROVE NoAccidents'
    BY <1>17 DEF CloseBegin
  <1>18. ASSUME NEW t \in Thread, Drop(t) PROVE NoAccidents'
    BY <1>18 DEF Drop
  <1>19. ASSUME NEW t \in Thread, CloseGuard(t) PROVE NoAccidents'
    BY <1>19 DEF CloseGuard
  <1>20. ASSUME NEW t \in Thread, ClosePtr(t) PROVE NoAccidents'
    BY <1>20 DEF ClosePtr
  <1>21. ASSUME NEW t \in Thread, CloseEnter(t) PROVE NoAccidents'
    BY <1>21 DEF CloseEnter, EngineInv
  <1>22. ASSUME NEW t \in Thread, CloseFree(t) PROVE NoAccidents'
    BY <1>22 DEF CloseFree
  <1>23. ASSUME NEW t \in Thread, CloseNull(t) PROVE NoAccidents'
    BY <1>23 DEF CloseNull
  <1>24. ASSUME NEW t \in Thread, CloseIter(t) PROVE NoAccidents'
    BY <1>24 DEF CloseIter
  <1>25. ASSUME NEW t \in Thread, CloseNext(t) PROVE NoAccidents'
    BY <1>25 DEF CloseNext, OpenInv, Disposed
  <1>26. ASSUME NEW t \in Thread, DiCheck(t) PROVE NoAccidents'
    BY <1>26 DEF DiCheck
  <1>27. ASSUME NEW t \in Thread, DiEnter(t) PROVE NoAccidents'
    BY <1>27 DEF DiEnter, OpenInv, Disposed
  <1>28. ASSUME NEW t \in Thread, DiFree(t) PROVE NoAccidents'
    BY <1>28 DEF DiFree
  <1>29. ASSUME NEW t \in Thread, DiNull(t) PROVE NoAccidents'
    BY <1>29 DEF DiNull
  <1>30. ASSUME NEW t \in Thread, CloseClear(t) PROVE NoAccidents'
    BY <1>30 DEF CloseClear
  <1>31. ASSUME NEW t \in Thread, CloseSet(t) PROVE NoAccidents'
    BY <1>31 DEF CloseSet
  <1>32. CASE UNCHANGED vars
    BY <1>32 DEF vars
  <1>33. QED
    BY <1>1, <1>2, <1>3, <1>4, <1>5, <1>6, <1>7, <1>8, <1>9, <1>10, <1>11, <1>12, <1>13,
       <1>14, <1>15, <1>16, <1>17, <1>18, <1>19, <1>20, <1>21, <1>22, <1>23, <1>24, <1>25, <1>26,
       <1>27, <1>28, <1>29, <1>30, <1>31, <1>32
    DEF Next, Step, Fetch, UnderLock, Close

LEMMA InitSerial == Init => Serial
  <1> SUFFICES ASSUME Init PROVE Serial
    OBVIOUS
  <1>1. \A t \in Thread : pc[t] = "idle" /\ ~InClose(t) /\ result[t] = "none"
    BY DEF Init, InClose
  <1>2. ~closed /\ engine = "open" /\ \A h \in Handle : handle[h] = "none"
    BY DEF Init
  <1>3. Alone /\ UsableInv /\ EngineInv
    BY <1>1, <1>2 DEF Alone, UsableInv, Working, EngineInv, Fetching, Locked
  <1>4. OpenInv
    BY <1>1, <1>2 DEF OpenInv, Disposed, Disposing
  <1>5. QED
    BY <1>1, <1>3, <1>4 DEF Serial, NoAccidents, Internal

LEMMA StepInv == IInv /\ [Next]_vars => IInv'
  BY StepBase, StepShared, StepRelease, StepAlone, StepEngine, StepOpen, StepOutcome DEF IInv, Serial

(* The whole invariant, for both kinds of caller.                          *)
THEOREM Inductive == Spec => []IInv
  <1>1. Init => IInv
    BY InitBase, InitShared, InitRelease, InitSerial DEF IInv
  <1>2. QED
    BY <1>1, StepInv, PTL DEF Spec

LEMMA IInvImplies ==
  SerialClose /\ IInv => NoUseAfterFree /\ NoDoubleFree /\ QuietHandles /\ NoAccidents
  <1> SUFFICES ASSUME SerialClose, IInv
               PROVE  NoUseAfterFree /\ NoDoubleFree /\ QuietHandles /\ NoAccidents
    OBVIOUS
  <1> USE DEF IInv
  <1>a. /\ SiteInv /\ Alone /\ UsableInv /\ EngineInv /\ OpenInv /\ DiInv /\ RefInv /\ CacheInv
        /\ NoAccidents /\ NoHandle \notin Handle
    BY SymbolizerAssumption DEF Base, Shared, Serial
  <1>1. ASSUME NEW t \in Thread, Working(t) PROVE NoCloser /\ ~closed /\ alive
    BY <1>a, <1>1, CallsExcludeClose DEF UsableInv
  <1>2. NoUseAfterFree
    <2>1. ASSUME NEW t \in Thread, pc[t] = "engine" PROVE engine = "open"
      BY <1>a, <1>1, <2>1 DEF EngineInv, Working, Locked
    <2>2. ASSUME NEW t \in Thread, pc[t] \in {"native", "copy"} PROVE handle[Current(t)] = "open"
      <3>1. Current(t) \in Handle /\ \E u \in Thread, s \in Site : di[u][s] = Current(t)
        BY <1>a, <2>2 DEF DiInv, SiteInv, Current, Fetching, Site
      <3>2. handle[Current(t)] # "none"
        BY <1>a, <3>1 DEF RefInv, Referenced
      <3>3. QED
        BY <1>a, <1>1, <2>2, <3>1, <3>2 DEF OpenInv, Working, Fetching
    <2>3. QED
      BY <2>1, <2>2 DEF NoUseAfterFree
  <1>3. NoDoubleFree
    BY <1>a DEF NoDoubleFree, EngineInv, OpenInv, Disposed
  <1>4. QuietHandles
    <2> SUFFICES ASSUME Quiet PROVE /\ \A h \in Handle : handle[h] # "none" =>
                                         /\ ~closed /\ handle[h] = "open"
                                         /\ \E p \in Path : cache[p] = h
                                    /\ \A p, q \in Path :
                                         cache[p] = cache[q] /\ cache[p] # NoHandle => p = q
      BY DEF QuietHandles
    <2>1. NoCloser
      BY <1>a DEF Quiet, NoCloser, SiteInv, InClose
    <2>2. \A t \in Thread, s \in Site : di[t][s] = NoHandle
      BY <1>a DEF Quiet, DiInv, NoLocals
    <2>3. QED
      BY <1>a, <2>1, <2>2 DEF OpenInv, RefInv, Referenced, CacheInv
  <1>5. QED
    BY <1>a, <1>2, <1>3, <1>4

(* Without overlapping close() no foreign call sees a freed object.        *)
THEOREM MemorySafe == SerialClose => (Spec => []NoUseAfterFree)
  <1>1. SUFFICES ASSUME SerialClose PROVE Spec => []NoUseAfterFree
    OBVIOUS
  <1>2. IInv => NoUseAfterFree
    BY <1>1, IInvImplies
  <1>3. QED
    BY Inductive, <1>2, PTL

(* Without overlapping close() every native object is freed once.          *)
THEOREM FreedOnce == SerialClose => (Spec => []NoDoubleFree)
  <1>1. SUFFICES ASSUME SerialClose PROVE Spec => []NoDoubleFree
    OBVIOUS
  <1>2. IInv => NoDoubleFree
    BY <1>1, IInvImplies
  <1>3. QED
    BY Inductive, <1>2, PTL

(* Without overlapping close() no call ends in an accident of the          *)
(* implementation, and only a closed driver says that it is closed.        *)
THEOREM AccidentFree == SerialClose => (Spec => []NoAccidents)
  <1>1. SUFFICES ASSUME SerialClose PROVE Spec => []NoAccidents
    OBVIOUS
  <1>2. IInv => NoAccidents
    BY <1>1, IInvImplies
  <1>3. QED
    BY Inductive, <1>2, PTL

(* Without overlapping close() an idle driver holds one usable DebugInfo   *)
(* per path at most, and none once it is closed.                           *)
THEOREM QuietHandlesUsable == SerialClose => (Spec => []QuietHandles)
  <1>1. SUFFICES ASSUME SerialClose PROVE Spec => []QuietHandles
    OBVIOUS
  <1>2. IInv => QuietHandles
    BY <1>1, IInvImplies
  <1>3. QED
    BY Inductive, <1>2, PTL

-----------------------------------------------------------------------------
(* Part 5: the driver implements the ownership protocol of Resources when  *)
(* close() does not overlap another call.                                  *)

NativeVars == <<NativeLive, NativeUsers>>
AtNative == {"engine", "native", "copy"}

(* What the protocol needs to know of the states before and after a step.  *)
Safe == NoUseAfterFree /\ EngineExclusive

(* What a step of thread t leaves to the other threads.                    *)
Others(t) == \A u \in Thread : u # t => pc'[u] = pc[u] /\ Current(u)' = Current(u)

LEMMA SameUsers ==
  ASSUME \A t \in Thread, r \in Native : Inside(t, r)' <=> Inside(t, r)
  PROVE  NativeUsers' = NativeUsers
  BY DEF NativeUsers

LEMMA OtherUsers ==
  ASSUME NEW t \in Thread, Others(t)
  PROVE  \A u \in Thread, r \in Native : u # t => (Inside(u, r)' <=> Inside(u, r))
  BY DEF Others, Inside

(* Only objects without a user can disappear, or the next state would have *)
(* a use of a freed object.                                                *)
LEMMA OnlyUnusedFreed ==
  ASSUME NoUseAfterFree', NativeUsers' = NativeUsers, NativeLive' \subseteq NativeLive
  PROVE  [Res!Next]_NativeVars
  <1> DEFINE S == NativeLive \ NativeLive'
  <1>1. S \subseteq Native /\ S \subseteq NativeLive /\ NativeLive' = NativeLive \ S
    BY DEF NativeLive, Native
  <1>2. ASSUME NEW r \in S PROVE NativeUsers[r] = {}
    <2>1. NativeUsers[r] = {t \in Thread : Inside(t, r)'}
      BY <1>1 DEF NativeUsers
    <2>2. \A t \in Thread : Inside(t, r)' => r \in NativeLive'
      BY <1>1 DEF Inside, NoUseAfterFree, NativeLive
    <2>3. QED
      BY <2>1, <2>2
  <1>3. Res!Destroy(S)
    BY <1>1, <1>2 DEF Res!Destroy
  <1>4. QED
    BY <1>1, <1>3 DEF Res!Next

(* A step that neither enters nor leaves native code and opens nothing.    *)
LEMMA OutsideStep ==
  ASSUME NEW t \in Thread, Others(t), pc[t] \notin AtNative, pc'[t] \notin AtNative,
         NoUseAfterFree', engine' = "open" => engine = "open",
         \A h \in Handle : handle'[h] = "open" => handle[h] = "open"
  PROVE  [Res!Next]_NativeVars
  <1>1. NativeUsers' = NativeUsers
    BY OtherUsers, SameUsers DEF Inside, AtNative
  <1>2. NativeLive' \subseteq NativeLive
    BY DEF NativeLive
  <1>3. QED
    BY <1>1, <1>2, OnlyUnusedFreed

LEMMA EnterStep ==
  ASSUME NEW t \in Thread, NEW r \in Native, Others(t), pc[t] \notin AtNative,
         \A s \in Native : Inside(t, s)' <=> s = r,
         NativeLive' = NativeLive, r \in NativeLive,
         r = "engine" => \A u \in Thread : ~Inside(u, r)
  PROVE  Res!Next
  <1>1. \A s \in Native : ~Inside(t, s)
    BY DEF Inside, AtNative
  <1>2. NativeUsers' = [NativeUsers EXCEPT ![r] = @ \cup {t}]
    <2>1. \A s \in Native : NativeUsers'[s] = IF s = r THEN NativeUsers[s] \cup {t}
                                                       ELSE NativeUsers[s]
      BY <1>1, OtherUsers DEF NativeUsers
    <2>2. QED
      BY <2>1 DEF NativeUsers
  <1>3. r = "engine" => NativeUsers[r] = {}
    BY DEF NativeUsers
  <1>4. Res!Enter(t, r)
    BY <1>2, <1>3 DEF Res!Enter
  <1>5. QED
    BY <1>4 DEF Res!Next

LEMMA LeaveStep ==
  ASSUME NEW t \in Thread, NEW r \in Native, Others(t), pc'[t] \notin AtNative,
         \A s \in Native : Inside(t, s) <=> s = r, NativeLive' = NativeLive
  PROVE  Res!Next
  <1>1. \A s \in Native : ~Inside(t, s)'
    BY DEF Inside, AtNative
  <1>2. NativeUsers' = [NativeUsers EXCEPT ![r] = @ \ {t}]
    <2>1. \A s \in Native : NativeUsers'[s] = IF s = r THEN NativeUsers[s] \ {t}
                                                       ELSE NativeUsers[s]
      BY <1>1, OtherUsers DEF NativeUsers
    <2>2. QED
      BY <2>1 DEF NativeUsers
  <1>3. t \in NativeUsers[r]
    BY DEF NativeUsers
  <1>4. Res!Leave(t, r)
    BY <1>2, <1>3 DEF Res!Leave
  <1>5. QED
    BY <1>4 DEF Res!Next

(* The calling thread runs inside the object its local names.              *)
LEMMA InsideCurrent ==
  ASSUME DiInv, NEW t \in Thread, pc[t] \in {"native", "copy"}
  PROVE  /\ Current(t) \in Native
         /\ \A s \in Native : Inside(t, s) <=> s = Current(t)
  BY SymbolizerAssumption DEF DiInv, Inside, Native

(* Every step of the driver is a step of the protocol or invisible to it.  *)
LEMMA StepRefines ==
  IInv /\ Safe /\ Safe' /\ [Next]_vars => [Res!Next]_NativeVars
  <1> SUFFICES ASSUME IInv, Safe, Safe', [Next]_vars PROVE [Res!Next]_NativeVars
    OBVIOUS
  <1>a. /\ pc \in [Thread -> PC] /\ site \in [Thread -> Site]
        /\ di \in [Thread -> [Site -> Handle \cup {NoHandle}]] /\ handle \in [Handle -> Object]
        /\ "engine" \notin Handle
        /\ SiteInv /\ LockInv /\ DiInv /\ RefInv
    BY SymbolizerAssumption DEF IInv, Base, TypeOK, Shared
  <1> USE <1>a
      DEF Safe, Goto, Finish, Bind, owner, objects, locals, iter
  <1>1. ASSUME NEW t \in Thread, NEW p \in Path, Begin(t, p) PROVE [Res!Next]_NativeVars
    <2>1. Others(t) /\ pc[t] \notin AtNative /\ pc'[t] \notin AtNative
      BY <1>1 DEF Begin, Others, Current, AtNative
    <2>2. /\ engine' = "open" => engine = "open"
          /\ \A h \in Handle : handle'[h] = "open" => handle[h] = "open"
      BY <1>1 DEF Begin
    <2>3. QED
      BY <2>1, <2>2, OutsideStep
  <1>2. ASSUME NEW t \in Thread, Guard(t) PROVE [Res!Next]_NativeVars
    <2>1. Others(t) /\ pc[t] \notin AtNative /\ pc'[t] \notin AtNative
      BY <1>2 DEF Guard, Others, Current, AtNative
    <2>2. /\ engine' = "open" => engine = "open"
          /\ \A h \in Handle : handle'[h] = "open" => handle[h] = "open"
      BY <1>2 DEF Guard
    <2>3. QED
      BY <2>1, <2>2, OutsideStep
  <1>3. ASSUME NEW t \in Thread, Cpu(t) PROVE [Res!Next]_NativeVars
    <2>1. Others(t) /\ pc[t] \notin AtNative /\ pc'[t] \notin AtNative
      BY <1>3 DEF Cpu, Others, Current, AtNative
    <2>2. /\ engine' = "open" => engine = "open"
          /\ \A h \in Handle : handle'[h] = "open" => handle[h] = "open"
      BY <1>3 DEF Cpu
    <2>3. QED
      BY <2>1, <2>2, OutsideStep
  <1>4. ASSUME NEW t \in Thread, Acquire(t) PROVE [Res!Next]_NativeVars
    <2>1. Others(t) /\ pc[t] \notin AtNative /\ pc'[t] \notin AtNative
      BY <1>4 DEF Acquire, Others, Current, AtNative
    <2>2. /\ engine' = "open" => engine = "open"
          /\ \A h \in Handle : handle'[h] = "open" => handle[h] = "open"
      BY <1>4 DEF Acquire
    <2>3. QED
      BY <2>1, <2>2, OutsideStep
  <1>5. ASSUME NEW t \in Thread, Lookup(t) PROVE [Res!Next]_NativeVars
    <2>1. Others(t) /\ pc[t] \notin AtNative /\ pc'[t] \notin AtNative
      BY <1>5 DEF Lookup, Others, Current, AtNative
    <2>2. /\ engine' = "open" => engine = "open"
          /\ \A h \in Handle : handle'[h] = "open" => handle[h] = "open"
      BY <1>5 DEF Lookup
    <2>3. QED
      BY <2>1, <2>2, OutsideStep
  <1>6. ASSUME NEW t \in Thread, Open(t) PROVE [Res!Next]_NativeVars
    <2>1. Others(t) /\ pc[t] \notin AtNative /\ pc'[t] \notin AtNative
      BY <1>6 DEF Open, Others, Current, AtNative
    <2>2. CASE UNCHANGED handle
      BY <1>6, <2>1, <2>2, OutsideStep DEF Open
    <2>3. ASSUME NEW h \in Handle, handle[h] = "none", handle' = [handle EXCEPT ![h] = "open"]
          PROVE  Res!Next
      <3>1. NativeUsers' = NativeUsers
        BY <2>1, OtherUsers, SameUsers DEF Inside, AtNative
      <3>2. NativeLive' = NativeLive \cup {h} /\ h \notin NativeLive
        BY <1>6, <2>3 DEF Open, NativeLive
      <3>3. Res!Create(h)
        BY <3>1, <3>2 DEF Res!Create
      <3>4. QED
        BY <3>3 DEF Res!Next, Native
    <2>4. QED
      BY <1>6, <2>2, <2>3 DEF Open
  <1>7. ASSUME NEW t \in Thread, Insert(t) PROVE [Res!Next]_NativeVars
    <2>1. Others(t) /\ pc[t] \notin AtNative /\ pc'[t] \notin AtNative
      BY <1>7 DEF Insert, Others, Current, AtNative
    <2>2. /\ engine' = "open" => engine = "open"
          /\ \A h \in Handle : handle'[h] = "open" => handle[h] = "open"
      BY <1>7 DEF Insert, Reap
    <2>3. QED
      BY <2>1, <2>2, OutsideStep
  <1>8. ASSUME NEW t \in Thread, GetPtr(t) PROVE [Res!Next]_NativeVars
    <2>1. Others(t) /\ pc[t] \notin AtNative /\ UNCHANGED <<engine, handle, di, site>>
      BY <1>8 DEF GetPtr, Others, Current, AtNative
    <2>2. CASE pc'[t] \notin AtNative
      BY <2>1, <2>2, OutsideStep
    <2>3. CASE pc'[t] = "native"
      <3>1. Current(t)' = Current(t)
        BY <2>1 DEF Current
      <3>2. Current(t) \in Handle
        BY <1>8 DEF GetPtr, DiInv
      <3>3. handle[Current(t)] = "open"
        BY <2>1, <2>3, <3>1 DEF NoUseAfterFree
      <3>4. \A s \in Native : Inside(t, s)' <=> s = Current(t)
        BY <2>3, <3>1, <3>2 DEF Inside, Native
      <3>5. Current(t) \in NativeLive /\ NativeLive' = NativeLive /\ Current(t) # "engine"
        BY <2>1, <3>2, <3>3 DEF NativeLive
      <3>6. QED
        BY <2>1, <3>2, <3>4, <3>5, EnterStep DEF Native
    <2>4. QED
      BY <1>8, <2>2, <2>3 DEF GetPtr, AtNative
  <1>9. ASSUME NEW t \in Thread, NativeCall(t) PROVE [Res!Next]_NativeVars
    <2>1. /\ Others(t) /\ pc[t] = "native" /\ UNCHANGED <<engine, handle, di, site>>
          /\ pc'[t] \in {"copy", "made", "unwind"}
      BY <1>9 DEF NativeCall, Others, Current
    <2>2. NativeLive' = NativeLive /\ Current(t)' = Current(t)
      BY <2>1 DEF NativeLive, Current
    <2>3. CASE pc'[t] = "copy"
      <3>1. NativeUsers' = NativeUsers
        BY <2>1, <2>2, <2>3, OtherUsers, SameUsers DEF Inside
      <3>2. QED
        BY <2>2, <3>1 DEF NativeVars
    <2>4. CASE pc'[t] # "copy"
      BY <2>1, <2>2, <2>4, InsideCurrent, LeaveStep DEF AtNative
    <2>5. QED
      BY <2>3, <2>4
  <1>10. ASSUME NEW t \in Thread, Copy(t) PROVE [Res!Next]_NativeVars
    <2>1. /\ Others(t) /\ pc[t] = "copy" /\ UNCHANGED <<engine, handle>> /\ pc'[t] \notin AtNative
      BY <1>10 DEF Copy, Others, Current, AtNative
    <2>2. NativeLive' = NativeLive
      BY <2>1 DEF NativeLive
    <2>3. QED
      BY <2>1, <2>2, InsideCurrent, LeaveStep
  <1>11. ASSUME NEW t \in Thread, PtrCheck(t) PROVE [Res!Next]_NativeVars
    <2>1. Others(t) /\ pc[t] \notin AtNative /\ pc'[t] \notin AtNative
      BY <1>11 DEF PtrCheck, Others, Current, AtNative
    <2>2. /\ engine' = "open" => engine = "open"
          /\ \A h \in Handle : handle'[h] = "open" => handle[h] = "open"
      BY <1>11 DEF PtrCheck
    <2>3. QED
      BY <2>1, <2>2, OutsideStep
  <1>12. ASSUME NEW t \in Thread, EnterEngine(t) PROVE [Res!Next]_NativeVars
    <2>1. Others(t) /\ pc[t] \notin AtNative /\ UNCHANGED <<engine, handle>>
      BY <1>12 DEF EnterEngine, Others, Current, AtNative
    <2>2. CASE pc'[t] \notin AtNative
      BY <2>1, <2>2, OutsideStep
    <2>3. CASE pc'[t] = "engine"
      <3>1. NativeLive' = NativeLive /\ "engine" \in NativeLive
        BY <2>1, <2>3 DEF NoUseAfterFree, NativeLive
      <3>2. \A u \in Thread : pc[u] # "engine"
        BY <2>1, <2>3 DEF EngineExclusive, Others, AtNative
      <3>3. \A s \in Native : Inside(t, s)' <=> s = "engine"
        BY <2>3 DEF Inside
      <3>4. QED
        BY <2>1, <3>1, <3>2, <3>3, EnterStep DEF Inside, Native
    <2>4. QED
      BY <1>12, <2>2, <2>3 DEF EnterEngine, AtNative
  <1>13. ASSUME NEW t \in Thread, EngineCall(t) PROVE [Res!Next]_NativeVars
    <2>1. /\ Others(t) /\ pc[t] = "engine" /\ pc'[t] \notin AtNative
          /\ UNCHANGED <<engine, handle>>
      BY <1>13, EngineCallEffect DEF EngineCall, Others, Current, AtNative
    <2>2. \A s \in Native : Inside(t, s) <=> s = "engine"
      BY <2>1 DEF Inside
    <2>3. NativeLive' = NativeLive
      BY <2>1 DEF NativeLive
    <2>4. QED
      BY <2>1, <2>2, <2>3, LeaveStep DEF Native
  <1>14. ASSUME NEW t \in Thread, Frame(t) PROVE [Res!Next]_NativeVars
    <2>1. Others(t) /\ pc[t] \notin AtNative /\ pc'[t] \notin AtNative
      BY <1>14 DEF Frame, Others, Current, AtNative
    <2>2. /\ engine' = "open" => engine = "open"
          /\ \A h \in Handle : handle'[h] = "open" => handle[h] = "open"
      BY <1>14 DEF Frame
    <2>3. QED
      BY <2>1, <2>2, OutsideStep
  <1>15. ASSUME NEW t \in Thread, MadeFrame(t) PROVE [Res!Next]_NativeVars
    <2>1. Others(t) /\ pc[t] \notin AtNative /\ pc'[t] \notin AtNative
      BY <1>15 DEF MadeFrame, Others, Current, AtNative
    <2>2. /\ engine' = "open" => engine = "open"
          /\ \A h \in Handle : handle'[h] = "open" => handle[h] = "open"
      BY <1>15 DEF MadeFrame, Reap
    <2>3. QED
      BY <2>1, <2>2, OutsideStep
  <1>16. ASSUME NEW t \in Thread, Unwind(t) PROVE [Res!Next]_NativeVars
    <2>1. Others(t) /\ pc[t] \notin AtNative /\ pc'[t] \notin AtNative
      BY <1>16 DEF Unwind, Others, Current, AtNative
    <2>2. /\ engine' = "open" => engine = "open"
          /\ \A h \in Handle : handle'[h] = "open" => handle[h] = "open"
      BY <1>16 DEF Unwind, Reap
    <2>3. QED
      BY <2>1, <2>2, OutsideStep
  <1>17. ASSUME NEW t \in Thread, CloseBegin(t) PROVE [Res!Next]_NativeVars
    <2>1. Others(t) /\ pc[t] \notin AtNative /\ pc'[t] \notin AtNative
      BY <1>17 DEF CloseBegin, Others, Current, AtNative
    <2>2. /\ engine' = "open" => engine = "open"
          /\ \A h \in Handle : handle'[h] = "open" => handle[h] = "open"
      BY <1>17 DEF CloseBegin
    <2>3. QED
      BY <2>1, <2>2, OutsideStep
  <1>18. ASSUME NEW t \in Thread, Drop(t) PROVE [Res!Next]_NativeVars
    <2>1. Others(t) /\ pc[t] \notin AtNative /\ pc'[t] \notin AtNative
      BY <1>18 DEF Drop, Others, Current, AtNative, Quiet
    <2>2. /\ engine' = "open" => engine = "open"
          /\ \A h \in Handle : handle'[h] = "open" => handle[h] = "open"
      BY <1>18 DEF Drop
    <2>3. QED
      BY <2>1, <2>2, OutsideStep
  <1>19. ASSUME NEW t \in Thread, CloseGuard(t) PROVE [Res!Next]_NativeVars
    <2>1. Others(t) /\ pc[t] \notin AtNative /\ pc'[t] \notin AtNative
      BY <1>19 DEF CloseGuard, Others, Current, AtNative
    <2>2. /\ engine' = "open" => engine = "open"
          /\ \A h \in Handle : handle'[h] = "open" => handle[h] = "open"
      BY <1>19 DEF CloseGuard
    <2>3. QED
      BY <2>1, <2>2, OutsideStep
  <1>20. ASSUME NEW t \in Thread, ClosePtr(t) PROVE [Res!Next]_NativeVars
    <2>1. Others(t) /\ pc[t] \notin AtNative /\ pc'[t] \notin AtNative
      BY <1>20 DEF ClosePtr, Others, Current, AtNative
    <2>2. /\ engine' = "open" => engine = "open"
          /\ \A h \in Handle : handle'[h] = "open" => handle[h] = "open"
      BY <1>20 DEF ClosePtr
    <2>3. QED
      BY <2>1, <2>2, OutsideStep
  <1>21. ASSUME NEW t \in Thread, CloseEnter(t) PROVE [Res!Next]_NativeVars
    <2>1. Others(t) /\ pc[t] \notin AtNative /\ pc'[t] \notin AtNative
      BY <1>21 DEF CloseEnter, Others, Current, AtNative
    <2>2. /\ engine' = "open" => engine = "open"
          /\ \A h \in Handle : handle'[h] = "open" => handle[h] = "open"
      BY <1>21 DEF CloseEnter
    <2>3. QED
      BY <2>1, <2>2, OutsideStep
  <1>22. ASSUME NEW t \in Thread, CloseFree(t) PROVE [Res!Next]_NativeVars
    <2>1. Others(t) /\ pc[t] \notin AtNative /\ pc'[t] \notin AtNative
      BY <1>22 DEF CloseFree, Others, Current, AtNative
    <2>2. /\ engine' = "open" => engine = "open"
          /\ \A h \in Handle : handle'[h] = "open" => handle[h] = "open"
      BY <1>22 DEF CloseFree
    <2>3. QED
      BY <2>1, <2>2, OutsideStep
  <1>23. ASSUME NEW t \in Thread, CloseNull(t) PROVE [Res!Next]_NativeVars
    <2>1. Others(t) /\ pc[t] \notin AtNative /\ pc'[t] \notin AtNative
      BY <1>23 DEF CloseNull, Others, Current, AtNative
    <2>2. /\ engine' = "open" => engine = "open"
          /\ \A h \in Handle : handle'[h] = "open" => handle[h] = "open"
      BY <1>23 DEF CloseNull
    <2>3. QED
      BY <2>1, <2>2, OutsideStep
  <1>24. ASSUME NEW t \in Thread, CloseIter(t) PROVE [Res!Next]_NativeVars
    <2>1. Others(t) /\ pc[t] \notin AtNative /\ pc'[t] \notin AtNative
      BY <1>24 DEF CloseIter, Others, Current, AtNative
    <2>2. /\ engine' = "open" => engine = "open"
          /\ \A h \in Handle : handle'[h] = "open" => handle[h] = "open"
      BY <1>24 DEF CloseIter
    <2>3. QED
      BY <2>1, <2>2, OutsideStep
  <1>25. ASSUME NEW t \in Thread, CloseNext(t) PROVE [Res!Next]_NativeVars
    <2>1. Others(t) /\ pc[t] \notin AtNative /\ pc'[t] \notin AtNative
      BY <1>25 DEF CloseNext, Others, Current, AtNative
    <2>2. /\ engine' = "open" => engine = "open"
          /\ \A h \in Handle : handle'[h] = "open" => handle[h] = "open"
      BY <1>25 DEF CloseNext, Reap
    <2>3. QED
      BY <2>1, <2>2, OutsideStep
  <1>26. ASSUME NEW t \in Thread, DiCheck(t) PROVE [Res!Next]_NativeVars
    <2>1. Others(t) /\ pc[t] \notin AtNative /\ pc'[t] \notin AtNative
      BY <1>26 DEF DiCheck, Others, Current, AtNative
    <2>2. /\ engine' = "open" => engine = "open"
          /\ \A h \in Handle : handle'[h] = "open" => handle[h] = "open"
      BY <1>26 DEF DiCheck
    <2>3. QED
      BY <2>1, <2>2, OutsideStep
  <1>27. ASSUME NEW t \in Thread, DiEnter(t) PROVE [Res!Next]_NativeVars
    <2>1. Others(t) /\ pc[t] \notin AtNative /\ pc'[t] \notin AtNative
      BY <1>27 DEF DiEnter, Others, Current, AtNative
    <2>2. /\ engine' = "open" => engine = "open"
          /\ \A h \in Handle : handle'[h] = "open" => handle[h] = "open"
      BY <1>27 DEF DiEnter
    <2>3. QED
      BY <2>1, <2>2, OutsideStep
  <1>28. ASSUME NEW t \in Thread, DiFree(t) PROVE [Res!Next]_NativeVars
    <2>1. Others(t) /\ pc[t] \notin AtNative /\ pc'[t] \notin AtNative
      BY <1>28 DEF DiFree, Others, Current, AtNative
    <2>2. /\ engine' = "open" => engine = "open"
          /\ \A h \in Handle : handle'[h] = "open" => handle[h] = "open"
      BY <1>28 DEF DiFree
    <2>3. QED
      BY <2>1, <2>2, OutsideStep
  <1>29. ASSUME NEW t \in Thread, DiNull(t) PROVE [Res!Next]_NativeVars
    <2>1. Others(t) /\ pc[t] \notin AtNative /\ pc'[t] \notin AtNative
      BY <1>29 DEF DiNull, Others, Current, AtNative
    <2>2. /\ engine' = "open" => engine = "open"
          /\ \A h \in Handle : handle'[h] = "open" => handle[h] = "open"
      BY <1>29 DEF DiNull
    <2>3. QED
      BY <2>1, <2>2, OutsideStep
  <1>30. ASSUME NEW t \in Thread, CloseClear(t) PROVE [Res!Next]_NativeVars
    <2>1. Others(t) /\ pc[t] \notin AtNative /\ pc'[t] \notin AtNative
      BY <1>30 DEF CloseClear, Others, Current, AtNative
    <2>2. /\ engine' = "open" => engine = "open"
          /\ \A h \in Handle : handle'[h] = "open" => handle[h] = "open"
      BY <1>30 DEF CloseClear, Reap
    <2>3. QED
      BY <2>1, <2>2, OutsideStep
  <1>31. ASSUME NEW t \in Thread, CloseSet(t) PROVE [Res!Next]_NativeVars
    <2>1. Others(t) /\ pc[t] \notin AtNative /\ pc'[t] \notin AtNative
      BY <1>31 DEF CloseSet, Others, Current, AtNative
    <2>2. /\ engine' = "open" => engine = "open"
          /\ \A h \in Handle : handle'[h] = "open" => handle[h] = "open"
      BY <1>31 DEF CloseSet
    <2>3. QED
      BY <2>1, <2>2, OutsideStep
  <1>32. CASE UNCHANGED vars
    <2>1. UNCHANGED <<pc, di, site, handle, engine>>
      BY <1>32 DEF vars
    <2>2. \A t \in Thread, r \in Native : Inside(t, r)' <=> Inside(t, r)
      BY <2>1 DEF Inside, Current
    <2>3. QED
      BY <2>1, <2>2, SameUsers DEF NativeVars, NativeLive
  <1>33. QED
    BY <1>1, <1>2, <1>3, <1>4, <1>5, <1>6, <1>7, <1>8, <1>9, <1>10, <1>11, <1>12, <1>13,
       <1>14, <1>15, <1>16, <1>17, <1>18, <1>19, <1>20, <1>21, <1>22, <1>23, <1>24, <1>25, <1>26,
       <1>27, <1>28, <1>29, <1>30, <1>31, <1>32
    DEF Next, Step, Fetch, UnderLock, Close

LEMMA InitRefines == Init => Res!Init
  BY SymbolizerAssumption DEF Init, Res!Init, NativeLive, NativeUsers, Inside, Native

(* The refinement: the driver keeps what module Resources promises.        *)
THEOREM Implements == SerialClose => (Spec => ImplementsResources)
  <1>1. SUFFICES ASSUME SerialClose PROVE Spec => ImplementsResources
    OBVIOUS
  <1>2. IInv /\ Safe /\ Safe' /\ [Next]_vars => [Res!Next]_<<NativeLive, NativeUsers>>
    BY StepRefines DEF NativeVars
  <1>3. IInv => Safe
    BY <1>1, IInvImplies, BaseImplies DEF IInv, Safe
  <1>4. QED
    BY <1>2, <1>3, InitRefines, Inductive, PTL DEF Spec, ImplementsResources, Res!Spec, Res!rvars

=============================================================================
