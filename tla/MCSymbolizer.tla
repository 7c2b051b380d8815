---------------------------- MODULE MCSymbolizer ----------------------------
(* Instances of the driver for TLC.                                        *)
EXTENDS SymbolizerInvariant, TLC

(* Threads, paths and object identities are interchangeable.               *)
Symmetry == Permutations(Thread) \cup Permutations(Handle) \cup Permutations(Path)

(* What later steps depend on: no guard and no property of the runs with   *)
(* this view (but for its type) reads `leaked`, and a thread that is idle  *)
(* or closing is given a new path before its path is read again. Every     *)
(* step also moves a program counter, so that two states with the same     *)
(* view have the same futures but for these two.                           *)
Steering ==
  <<owner, objects, pc, di, iter, site, frames, held, result,
    [t \in Thread |-> IF pc[t] = "idle" \/ InClose(t) THEN NoThread ELSE path[t]]>>

=============================================================================
