------------------------------ MODULE MCImages ------------------------------
(* Every input over two UUIDs and two bundles with up to three files.      *)
EXTENDS Images

(* Search path n is a bundle with at most n files.                         *)
Files(n) ==
  UNION {[S -> SUBSET Uuid \cup {Unreadable}] : S \in {N \in SUBSET Name : Cardinality(N) <= n}}

MCInit ==
  /\ binary \in [Uuid -> BOOLEAN]
  /\ named \in SUBSET (SearchPath \X Uuid)
  /\ content \in {f \in [SearchPath -> Files(PathCount)] : \A n \in SearchPath : f[n] \in Files(n)}
  /\ Start

MCSpec == MCInit /\ [][Next]_vars

=============================================================================
