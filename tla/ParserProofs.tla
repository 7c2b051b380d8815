------------------------------ MODULE ParserProofs -----------------------------
(* The parser for names of any length: what the procedures of the grammar find   *)
(* and leave on the stack of nodes, and what has an index when it returns.       *)
EXTENDS SwiftProperties, Extremes, SequenceTheorems

--------------------------------------------------------------------------------
(* Sequences of anything.                                                        *)

LEMMA IsSeqIn ==
    ASSUME NEW s, IsSeq(s)
    PROVE  /\ s \in Seq({s[i] : i \in 1..Len(s)})
           /\ Len(s) \in Nat /\ DOMAIN s = 1..Len(s)
  <1> DEFINE S == {s[i] : i \in 1..Len(s)}
  <1>1. Len(s) \in Nat /\ s = [i \in 1..Len(s) |-> s[i]]
    BY DEF IsSeq
  <1>2. s \in [1..Len(s) -> S]
    BY <1>1
  <1>3. s \in Seq(S)
    BY <1>1, <1>2
  <1>4. QED
    BY <1>1, <1>3

LEMMA SeqIs ==
    ASSUME NEW S, NEW s \in Seq(S)
    PROVE  IsSeq(s)
  BY DEF IsSeq

LEMMA AppendIs ==
    ASSUME NEW s, NEW x, IsSeq(s)
    PROVE  /\ IsSeq(Append(s, x)) /\ Len(Append(s, x)) = Len(s) + 1
           /\ Append(s, x)[Len(s) + 1] = x
           /\ \A i \in 1..Len(s) : Append(s, x)[i] = s[i]
  <1> DEFINE S == {s[i] : i \in 1..Len(s)} \cup {x}
  <1>1. s \in Seq({s[i] : i \in 1..Len(s)})
    BY IsSeqIn
  <1>2. s \in Seq(S) /\ x \in S
    <2>1. {s[i] : i \in 1..Len(s)} \subseteq S
      OBVIOUS
    <2>2. x \in S
      OBVIOUS
    <2> HIDE DEF S
    <2>3. QED
      BY <1>1, <2>1, <2>2, SeqMonotonic
  <1> HIDE DEF S
  <1>3. Append(s, x) \in Seq(S)
    BY <1>2
  <1>4. IsSeq(Append(s, x))
    BY <1>3, SeqIs
  <1>5. QED
    BY <1>2, <1>4

LEMMA SubIs ==
    ASSUME NEW s, IsSeq(s), NEW m \in Nat, NEW n \in Nat, 1 <= m, m <= n + 1, n <= Len(s)
    PROVE  /\ IsSeq(SubSeq(s, m, n)) /\ Len(SubSeq(s, m, n)) = n - m + 1
           /\ \A i \in 1..(n - m + 1) : SubSeq(s, m, n)[i] = s[m + i - 1]
  <1>1. PICK S : s \in Seq(S)
    BY IsSeqIn
  <1>2. SubSeq(s, m, n) = [i \in 1..(n - m + 1) |-> s[i + m - 1]]
    BY <1>1
  <1>3. SubSeq(s, m, n) \in Seq(S)
    BY <1>1
  <1>4. IsSeq(SubSeq(s, m, n))
    BY <1>3, SeqIs
  <1>5. QED
    BY <1>1, <1>2, <1>4

LEMMA PrefixIs ==
    ASSUME NEW s, IsSeq(s), NEW n \in Nat, n <= Len(s)
    PROVE  /\ IsSeq(SubSeq(s, 1, n)) /\ Len(SubSeq(s, 1, n)) = n
           /\ \A i \in 1..n : SubSeq(s, 1, n)[i] = s[i]
  <1>1. /\ IsSeq(SubSeq(s, 1, n)) /\ Len(SubSeq(s, 1, n)) = n - 1 + 1
        /\ \A i \in 1..(n - 1 + 1) : SubSeq(s, 1, n)[i] = s[1 + i - 1]
    BY SubIs
  <1>2. n - 1 + 1 = n /\ \A i \in 1..n : 1 + i - 1 = i
    OBVIOUS
  <1>3. QED
    BY <1>1, <1>2

LEMMA TailIs ==
    ASSUME NEW s, IsSeq(s), Len(s) > 0
    PROVE  /\ IsSeq(Tail(s)) /\ Len(Tail(s)) = Len(s) - 1
           /\ \A i \in 1..(Len(s) - 1) : Tail(s)[i] = s[i + 1]
  <1>1. PICK S : s \in Seq(S)
    BY IsSeqIn
  <1>2. Tail(s) \in Seq(S)
    BY <1>1
  <1>3. IsSeq(Tail(s))
    BY <1>2, SeqIs
  <1>4. QED
    BY <1>1, <1>3

LEMMA ConcatIs ==
    ASSUME NEW s, NEW t, IsSeq(s), IsSeq(t)
    PROVE  /\ IsSeq(s \o t) /\ Len(s \o t) = Len(s) + Len(t)
           /\ \A i \in 1..Len(s) : (s \o t)[i] = s[i]
           /\ \A i \in 1..Len(t) : (s \o t)[Len(s) + i] = t[i]
  <1>1. PICK S : s \in Seq(S)
    BY IsSeqIn
  <1>2. PICK U : t \in Seq(U)
    BY IsSeqIn
  <1> DEFINE V == S \cup U
  <1>3. s \in Seq(V) /\ t \in Seq(V)
    <2>1. S \subseteq V /\ U \subseteq V
      OBVIOUS
    <2> HIDE DEF V
    <2>2. QED
      BY <1>1, <1>2, <2>1, SeqMonotonic
  <1> HIDE DEF V
  <1>4. s \o t \in Seq(V)
    BY <1>3
  <1>5. IsSeq(s \o t)
    BY <1>4, SeqIs
  <1>6. QED
    BY <1>3, <1>5

--------------------------------------------------------------------------------
(* What has been remembered.                                                     *)

\* A node and all its parts have an index in K, where they need one: they are in a set
\* that is closed under the children.
Closed(C) == \A u \in C : Nodes(u.kids) \subseteq C
Known(t, K) ==
    \E C : t \in C /\ Closed(C) /\ \A u \in C : Indexed(u) => u \in K

LEMMA KnownMonotone ==
    ASSUME NEW t, NEW K, NEW L, K \subseteq L, Known(t, K)
    PROVE  Known(t, L)
  BY DEF Known

LEMMA KnownParts ==
    ASSUME NEW t, NEW K, Known(t, K)
    PROVE  /\ Indexed(t) => t \in K
           /\ \A u \in Nodes(t.kids) : Known(u, K)
  BY DEF Known, Closed

LEMMA KnownByParts ==
    ASSUME NEW t, NEW K, Indexed(t) => t \in K, \A u \in Nodes(t.kids) : Known(u, K)
    PROVE  Known(t, K)
  <1> DEFINE About(u) == CHOOSE C : u \in C /\ Closed(C) /\ \A w \in C : Indexed(w) => w \in K
             all == {t} \cup UNION {About(u) : u \in Nodes(t.kids)}
  <1>1. \A u \in Nodes(t.kids) :
          u \in About(u) /\ Closed(About(u)) /\ \A w \in About(u) : Indexed(w) => w \in K
    BY DEF Known
  <1> HIDE DEF About
  <1>2. Nodes(t.kids) \subseteq all
    BY <1>1
  <1>3. ASSUME NEW w \in all PROVE Nodes(w.kids) \subseteq all /\ (Indexed(w) => w \in K)
    <2>1. CASE w = t
      BY <1>2, <2>1
    <2>2. CASE w # t
      <3>1. PICK u \in Nodes(t.kids) : w \in About(u)
        BY <2>2
      <3>2. Nodes(w.kids) \subseteq About(u) /\ (Indexed(w) => w \in K)
        BY <1>1, <3>1 DEF Closed
      <3>3. QED
        BY <3>2
    <2>3. QED
      BY <2>1, <2>2
  <1>4. t \in all
    OBVIOUS
  <1> HIDE DEF all
  <1>5. QED
    BY <1>3, <1>4 DEF Known, Closed

\* The recursive function of Subtrees(), up to a depth.
Wider(S) == S \cup UNION {Nodes(part.kids) : part \in S}
IsReach(g, t, n) == g = [d \in 0..n |-> IF d = 0 THEN {t} ELSE Wider(g[d - 1])]

LEMMA ReachExists ==
    ASSUME NEW t
    PROVE  \A n \in Nat : \E g : IsReach(g, t, n)
  <1> DEFINE Missing == {n \in Nat : ~ \E g : IsReach(g, t, n)}
  <1>1. SUFFICES ASSUME Missing # {} PROVE FALSE
    OBVIOUS
  <1>2. PICK n \in Missing : \A other \in Missing : n <= other
    BY <1>1, MinOfNat
  <1>3. CASE n = 0
    <2>1. IsReach([d \in 0..0 |-> {t}], t, 0)
      BY DEF IsReach
    <2>2. QED
      BY <1>2, <1>3, <2>1
  <1>4. CASE n # 0
    <2>1. n \in Nat /\ n - 1 \in Nat /\ n - 1 \notin Missing
      BY <1>2, <1>4
    <2>2. PICK g : IsReach(g, t, n - 1)
      BY <2>1
    <2> DEFINE h == [d \in 0..n |-> IF d = 0 THEN {t} ELSE Wider(g[d - 1])]
    <2>3. \A d \in 0..(n - 1) : h[d] = g[d]
      <3> SUFFICES ASSUME NEW d \in 0..(n - 1) PROVE h[d] = g[d]
        OBVIOUS
      <3>1. d \in 0..n
        BY <2>1
      <3>2. h[d] = IF d = 0 THEN {t} ELSE Wider(g[d - 1])
        BY <3>1
      <3>3. g[d] = IF d = 0 THEN {t} ELSE Wider(g[d - 1])
        BY <2>2 DEF IsReach
      <3> HIDE DEF h
      <3>4. QED
        BY <3>2, <3>3
    <2>4. \A d \in 0..n : d # 0 => h[d - 1] = g[d - 1]
      <3> HIDE DEF h
      <3>1. \A d \in 0..n : d # 0 => d - 1 \in 0..(n - 1)
        BY <2>1
      <3>2. QED
        BY <2>3, <3>1
    <2>5. IsReach(h, t, n)
      BY <2>4 DEF IsReach
    <2>6. QED
      BY <1>2, <2>5
  <1>5. QED
    BY <1>3, <1>4

LEMMA ReachAgrees ==
    ASSUME NEW t, NEW g, NEW h, NEW m \in Nat, NEW n \in Nat, NEW k \in Nat, k <= m, k <= n,
           IsReach(g, t, m), IsReach(h, t, n)
    PROVE  g[k] = h[k]
  <1> DEFINE Bad == {d \in 0..k : g[d] # h[d]}
  <1>1. SUFFICES ASSUME Bad # {} PROVE FALSE
    OBVIOUS
  <1>2. PICK d \in Bad : \A other \in Bad : d <= other
    <2>1. Bad \in SUBSET Nat
      OBVIOUS
    <2> HIDE DEF Bad
    <2>2. QED
      BY <1>1, <2>1, MinOfNat
  <1>3. d \in 0..k /\ d \in 0..m /\ d \in 0..n /\ g[d] # h[d]
    OBVIOUS
  <1>4. d # 0
    BY <1>3 DEF IsReach
  <1>5. d - 1 \in 0..k /\ d - 1 \notin Bad
    BY <1>2, <1>3, <1>4
  <1>6. g[d - 1] = h[d - 1]
    BY <1>5
  <1>7. g[d] = Wider(g[d - 1]) /\ h[d] = Wider(h[d - 1])
    BY <1>3, <1>4 DEF IsReach
  <1>8. QED
    BY <1>3, <1>6, <1>7

LEMMA SubtreesIn ==
    ASSUME NEW t, NEW C, Closed(C), Nodes(t.kids) \subseteq C
    PROVE  Subtrees(t) \subseteq {t} \cup C
  <1> DEFINE reach(i) == CHOOSE g : IsReach(g, t, i)
             all == [d \in Nat |-> reach(d)[d]]
             Recursive(f) == f = [d \in Nat |-> IF d = 0 THEN {t} ELSE Wider(f[d - 1])]
             upTo == CHOOSE f : Recursive(f)
  <1>1. \A d \in Nat : IsReach(reach(d), t, d)
    BY ReachExists
  <1>2. \A d \in Nat : all[d] = IF d = 0 THEN {t} ELSE Wider(all[d - 1])
    <2> SUFFICES ASSUME NEW d \in Nat
                 PROVE  all[d] = IF d = 0 THEN {t} ELSE Wider(all[d - 1])
      OBVIOUS
    <2>1. IsReach(reach(d), t, d) /\ all[d] = reach(d)[d] /\ d \in 0..d
      BY <1>1
    <2>2. CASE d = 0
      <3> HIDE DEF reach, all
      <3>1. QED
        BY <2>1, <2>2 DEF IsReach
    <2>3. CASE d # 0
      <3>1. d - 1 \in Nat /\ d - 1 <= d /\ d - 1 <= d - 1
        BY <2>3
      <3>2. IsReach(reach(d - 1), t, d - 1) /\ all[d - 1] = reach(d - 1)[d - 1]
        BY <1>1, <3>1
      <3> HIDE DEF reach, all
      <3>3. reach(d)[d - 1] = reach(d - 1)[d - 1]
        BY <2>1, <3>1, <3>2, ReachAgrees
      <3>4. reach(d)[d] = Wider(reach(d)[d - 1])
        BY <2>1, <2>3 DEF IsReach
      <3>5. QED
        BY <2>1, <2>3, <3>2, <3>3, <3>4
    <2>4. QED
      BY <2>2, <2>3
  <1>3. Recursive(all)
    <2>1. all = [d \in Nat |-> all[d]]
      OBVIOUS
    <2> HIDE DEF all
    <2>2. QED
      BY <1>2, <2>1
  <1>4. Recursive(upTo)
    <2> HIDE DEF all, Recursive
    <2>1. QED
      BY <1>3
  <1>5. Subtrees(t) = upTo[Depth]
    BY DEF Subtrees, Wider
  <1> HIDE DEF upTo, all, reach
  <1> DEFINE Bad == {d \in Nat : ~(upTo[d] \subseteq {t} \cup C)}
  <1>6. SUFFICES ASSUME Bad # {} PROVE FALSE
    BY <1>5, DepthAssumption
  <1>7. PICK d \in Bad : \A other \in Bad : d <= other
    <2> HIDE DEF Recursive
    <2>1. QED
      BY <1>6, MinOfNat
  <1>8. d # 0 /\ d - 1 \in Nat /\ upTo[d] = Wider(upTo[d - 1])
    <2>1. upTo = [e \in Nat |-> IF e = 0 THEN {t} ELSE Wider(upTo[e - 1])]
      BY <1>4
    <2>2. \A e \in Nat : upTo[e] = IF e = 0 THEN {t} ELSE Wider(upTo[e - 1])
      BY <2>1
    <2>3. upTo[0] = {t}
      BY <2>2
    <2>4. d \in Nat /\ ~(upTo[d] \subseteq {t} \cup C)
      BY <1>7
    <2>5. d # 0
      BY <2>3, <2>4
    <2>6. QED
      BY <2>2, <2>4, <2>5
  <1>9. upTo[d - 1] \subseteq {t} \cup C
    <2>1. d - 1 \notin Bad
      BY <1>7, <1>8
    <2>2. QED
      BY <1>8, <2>1
  <1>10. Wider(upTo[d - 1]) \subseteq {t} \cup C
    BY <1>9 DEF Wider, Closed
  <1>11. QED
    BY <1>7, <1>8, <1>10

\* What is known is known in all its parts.
LEMMA KnownSubtrees ==
    ASSUME NEW t, NEW K, Known(t, K), NEW part \in Subtrees(t), Indexed(part)
    PROVE  part \in K
  <1>1. PICK C : t \in C /\ Closed(C) /\ \A u \in C : Indexed(u) => u \in K
    BY DEF Known
  <1>2. Subtrees(t) \subseteq {t} \cup C
    <2>1. Nodes(t.kids) \subseteq C
      BY <1>1 DEF Closed
    <2>2. QED
      BY <1>1, <2>1, SubtreesIn
  <1>3. QED
    BY <1>1, <1>2

\* The same of the proper parts of a node whose children are known.
LEMMA KnownBelow ==
    ASSUME NEW t, NEW K, \A u \in Nodes(t.kids) : Known(u, K),
           NEW part \in Subtrees(t) \ {t}, Indexed(part)
    PROVE  part \in K
  <1>1. Known(t, K \cup {t})
    BY KnownByParts, KnownMonotone
  <1>2. part \in K \cup {t}
    BY <1>1, KnownSubtrees
  <1>3. QED
    BY <1>2

--------------------------------------------------------------------------------
(* Nodes of a sort.                                                              *)

Formed(t) == t = Node(t.kind, t.has, t.text, t.index, t.kids) /\ IsSeq(t.kids)

\* The node is of the sort when the nodes in K have been remembered.
Suits(t, s, K) ==
    /\ Formed(t) /\ s \in Sorts
    /\ s = "leaf" => t.kids = <<>> /\ t.kind \notin Substitutable /\ t.index \in Nat
    /\ s = "plain" => t.kind \notin Substitutable /\ Known(t, K)
    /\ s = "node" => Known(t, K)
    /\ s = "fresh" => \A u \in Nodes(t.kids) : Known(u, K)
    /\ s = "header" => t.kind \in Specializations
    /\ s = "headed" => t.kind = "Global" /\ \A u \in Nodes(t.kids) : u.kind \in Headers_
    /\ s = "global" => t.kind = "Global"
                       /\ \A u \in Nodes(t.kids) : u.kind \in Headers_ \/ Known(u, K)

LEMMA NoKids == Nodes(<<>>) = {}
  BY DEF Nodes

LEMMA LeafKnown ==
    ASSUME NEW t, NEW K, t.kids = <<>>, t.kind \notin Substitutable
    PROVE  Known(t, K)
  <1>1. ~Indexed(t)
    BY DEF Indexed
  <1>2. Nodes(t.kids) = {}
    BY NoKids
  <1>3. QED
    BY <1>1, <1>2, KnownByParts

LEMMA NodeIs ==
    ASSUME NEW kind, NEW has, NEW text, NEW index, NEW kids, IsSeq(kids)
    PROVE  LET t == Node(kind, has, text, index, kids)
           IN /\ Formed(t) /\ t.kind = kind /\ t.has = has /\ t.text = text
              /\ t.index = index /\ t.kids = kids
  BY DEF Node, Formed

LEMMA EmptyIs == IsSeq(<<>>)
  <1>1. <<>> \in Seq({})
    OBVIOUS
  <1>2. QED
    BY <1>1, SeqIs

LEMMA PairIs ==
    ASSUME NEW x, NEW y
    PROVE  IsSeq(<<x, y>>) /\ Nodes(<<x, y>>) = {x, y}
  <1>1. <<x, y>> \in Seq({x, y})
    OBVIOUS
  <1>2. IsSeq(<<x, y>>)
    BY <1>1, SeqIs
  <1>3. DOMAIN <<x, y>> = {1, 2}
    OBVIOUS
  <1>4. QED
    BY <1>2, <1>3 DEF Nodes

\* A standard node needs no index, nor does anything in it.
LEMMA StandardKnown ==
    ASSUME NEW t \in StandardNodes, NEW K
    PROVE  Formed(t) /\ Known(t, K)
  <1>1. ~Indexed(t)
    BY DEF Indexed
  <1>2. \A x \in {Stdlib, ObjC, Clang} : Formed(x) /\ Known(x, K)
    <2>1. SUFFICES ASSUME NEW x \in {Stdlib, ObjC, Clang}
                   PROVE  Formed(x) /\ Known(x, K)
      OBVIOUS
    <2>2. x \in StandardNodes
      BY DEF StandardNodes
    <2>3. ~Indexed(x)
      BY <2>2 DEF Indexed
    <2>4. Formed(x) /\ x.kids = <<>>
      BY <2>1, EmptyIs, NodeIs DEF Stdlib, ObjC, Clang, TextLeaf
    <2>5. QED
      BY <2>3, <2>4, NoKids, KnownByParts
  <1>3. CASE t \in {Stdlib, ObjC, Clang}
    BY <1>2, <1>3
  <1>4. CASE t \notin {Stdlib, ObjC, Clang}
    <2>1. PICK kind, name : t = createSwiftType(kind, name)
      BY <1>4 DEF StandardNodes
    <2> DEFINE text == TextLeaf("Identifier", <<name>>)
    <2>2. Formed(t) /\ t.kids = <<Stdlib, text>>
      BY <2>1, PairIs, NodeIs DEF createSwiftType
    <2>3. Nodes(t.kids) = {Stdlib, text}
      BY <2>2, PairIs
    <2>4. text.kids = <<>> /\ text.kind \notin Substitutable
      BY EmptyIs, NodeIs DEF TextLeaf, Substitutable, Nominals
    <2>5. Known(text, K)
      BY <2>4, LeafKnown
    <2> HIDE DEF text
    <2>6. QED
      BY <1>1, <1>2, <2>2, <2>3, <2>5, KnownByParts
  <1>5. QED
    BY <1>3, <1>4

\* A node that is pushed is of its sort, whatever has been remembered.
LEMMA PushSuits ==
    ASSUME NEW t, NEW K, SortOf(t) \in Sorts
    PROVE  Suits(t, SortOf(t), K)
  <1>1. CASE t \in StandardNodes
    <2>1. SortOf(t) = "node"
      BY <1>1 DEF SortOf
    <2>2. QED
      BY <1>1, <2>1, StandardKnown DEF Suits
  <1>2. CASE t \notin StandardNodes
    <2>1. IsLeaf(t) /\ t.kind \notin Substitutable
      BY <1>2 DEF SortOf, Sorts
    <2>2. Formed(t) /\ t.kids = <<>> /\ t.index \in Nat
      BY <2>1, EmptyIs, NodeIs DEF IsLeaf
    <2>3. Nodes(t.kids) = {}
      BY <2>2, NoKids
    <2>4. \/ SortOf(t) = "headed" /\ t.kind = "Global"
          \/ SortOf(t) = "header" /\ t.kind \in Specializations
          \/ SortOf(t) = "leaf"
      BY <1>2, <2>1 DEF SortOf
    <2>5. QED
      BY <2>1, <2>2, <2>3, <2>4 DEF Suits, Sorts
  <1>3. QED
    BY <1>1, <1>2

LEMMA WidensTransitive ==
    ASSUME NEW s, NEW t, NEW u, Widens(s, t), Widens(t, u)
    PROVE  Widens(s, u)
  BY DEF Widens

LEMMA WidensReflexive ==
    ASSUME NEW s \in Sorts
    PROVE  Widens(s, s)
  BY DEF Widens

LEMMA SuitsWider ==
    ASSUME NEW t, NEW r, NEW s, NEW K, Suits(t, r, K), Widens(r, s)
    PROVE  Suits(t, s, K)
  <1>1. CASE r = s
    BY <1>1
  <1>2. CASE r = "leaf" /\ s \in {"plain", "node", "fresh"}
    <2>1. t.kids = <<>> /\ t.kind \notin Substitutable /\ Formed(t)
      BY <1>2 DEF Suits
    <2>2. Known(t, K) /\ Nodes(t.kids) = {}
      BY <2>1, LeafKnown, NoKids
    <2>3. QED
      BY <1>2, <2>1, <2>2 DEF Suits, Sorts
  <1>3. CASE r \in {"plain", "node"} /\ s \in {"node", "fresh"}
    <2>1. Known(t, K) /\ Formed(t)
      BY <1>3 DEF Suits
    <2>2. \A u \in Nodes(t.kids) : Known(u, K)
      BY <2>1, KnownParts
    <2>3. QED
      BY <1>3, <2>1, <2>2 DEF Suits, Sorts
  <1>4. CASE r = "headed" /\ s = "global"
    BY <1>4 DEF Suits, Sorts
  <1>5. QED
    BY <1>1, <1>2, <1>3, <1>4 DEF Widens

LEMMA SuitsLater ==
    ASSUME NEW t, NEW s, NEW K, NEW L, Suits(t, s, K), K \subseteq L
    PROVE  Suits(t, s, L)
  BY KnownMonotone DEF Suits

\* addChild() to a formed node.
LEMMA ChildAdded ==
    ASSUME NEW t, NEW u, Formed(t)
    PROVE  LET added == addChild(t, u)
           IN /\ Formed(added) /\ added.kind = t.kind
              /\ Nodes(added.kids) = Nodes(t.kids) \cup {u}
  <1> DEFINE added == addChild(t, u)
             kids == Append(t.kids, u)
  <1>1. added = Node(t.kind, t.has, t.text, t.index, kids)
    BY DEF Formed, Node, addChild
  <1>2. /\ IsSeq(kids) /\ Len(kids) = Len(t.kids) + 1 /\ kids[Len(t.kids) + 1] = u
        /\ \A i \in 1..Len(t.kids) : kids[i] = t.kids[i]
    BY AppendIs DEF Formed
  <1>3. DOMAIN t.kids = 1..Len(t.kids) /\ Len(t.kids) \in Nat
    BY IsSeqIn DEF Formed
  <1>4. DOMAIN kids = 1..(Len(t.kids) + 1)
    BY <1>2, IsSeqIn
  <1> HIDE DEF kids
  <1>5. Nodes(kids) = Nodes(t.kids) \cup {u}
    BY <1>2, <1>3, <1>4 DEF Nodes
  <1>6. Formed(added) /\ added.kind = t.kind /\ added.kids = kids
    BY <1>1, <1>2, NodeIs
  <1>7. QED
    BY <1>5, <1>6

--------------------------------------------------------------------------------
(* Nodes and steps.                                                              *)

Suited(vals, X, K) == Len(vals) = Len(X) /\ \A i \in 1..Len(X) : Suits(vals[i], X[i], K)

\* A guard that resumes finds the nodes again that were there when it was set.
Resumes(step) == step.op = "guard" /\ step.failing = "resume"
GuardsHold(do, T, F) ==
    \A g \in 1..Len(do) : Resumes(do[g]) =>
        /\ do[g].depth \in Nat
        /\ \A j \in 1..g : /\ j < g => do[g].depth <= F[j]
                           /\ do[g].depth <= Len(T[j])
                           /\ \A i \in 1..do[g].depth : Widens(T[j][i], T[g + 1][i])

\* What there is to do takes the nodes there are to one tree.
Track(do, vals, K, T, F) ==
    /\ Typed(do, T, F) /\ GuardsHold(do, T, F)
    /\ T[Len(do) + 1] = <<"global">>
    /\ Suited(vals, T[1], K)

LEMMA StackFacts ==
    ASSUME NEW X \in Seq(Sorts)
    PROVE  Len(X) \in Nat /\ \A i \in 1..Len(X) : X[i] \in Sorts /\ Widens(X[i], X[i])
  BY WidensReflexive

LEMMA TypedFacts ==
    ASSUME NEW do, NEW T, NEW F, Typed(do, T, F)
    PROVE  /\ IsSeq(do) /\ Len(do) \in Nat
           /\ \A i \in 1..(Len(do) + 1) : T[i] \in Seq(Sorts) /\ Len(T[i]) \in Nat
           /\ \A i \in 1..Len(do) : F[i] \in Nat /\ StepTyped(do[i], F[i], T[i], T[i + 1])
  BY StackFacts DEF Typed, IsSeq

\* The first m steps are done or given up.
LEMMA Dropped ==
    ASSUME NEW do, NEW vals, NEW vals2, NEW K, NEW L, NEW T, NEW F, Track(do, vals, K, T, F),
           NEW m \in 0..Len(do), Suited(vals2, T[m + 1], L),
           NEW do2, IsSeq(do2), Len(do2) = Len(do) - m,
           \A i \in 1..(Len(do) - m) : do2[i] = do[m + i]
    PROVE  \E T2, F2 : Track(do2, vals2, L, T2, F2)
  <1> DEFINE n == Len(do) - m
             T2 == [i \in 1..(n + 1) |-> T[m + i]]
             F2 == [i \in 1..n |-> F[m + i]]
  <1>1. /\ Len(do) \in Nat
        /\ \A i \in 1..(Len(do) + 1) : T[i] \in Seq(Sorts)
        /\ \A i \in 1..Len(do) : F[i] \in Nat /\ StepTyped(do[i], F[i], T[i], T[i + 1])
    BY TypedFacts DEF Track
  <1>2. n \in Nat /\ m \in Nat /\ Len(do2) = n
    BY <1>1
  <1>3. \A i \in 1..(n + 1) : m + i \in 1..(Len(do) + 1) /\ T2[i] = T[m + i]
    BY <1>1, <1>2
  <1>4. \A i \in 1..n : /\ m + i \in 1..Len(do) /\ F2[i] = F[m + i] /\ do2[i] = do[m + i]
                        /\ i \in 1..(n + 1) /\ i + 1 \in 1..(n + 1) /\ m + (i + 1) = (m + i) + 1
    BY <1>1, <1>2
  <1>5. T2 \in [1..(n + 1) -> Seq(Sorts)] /\ F2 \in [1..n -> Nat]
    BY <1>1, <1>3, <1>4
  <1> HIDE DEF T2, F2
  <1>6. ASSUME NEW i \in 1..n PROVE StepTyped(do2[i], F2[i], T2[i], T2[i + 1])
    <2>1. StepTyped(do[m + i], F[m + i], T[m + i], T[(m + i) + 1])
      BY <1>1, <1>4
    <2>2. T2[i] = T[m + i]
      BY <1>3, <1>4
    <2>3. T2[i + 1] = T[(m + i) + 1]
      BY <1>3, <1>4
    <2>4. do2[i] = do[m + i] /\ F2[i] = F[m + i]
      BY <1>4
    <2>5. QED
      BY <2>1, <2>2, <2>3, <2>4
  <1>7. Typed(do2, T2, F2)
    BY <1>2, <1>5, <1>6 DEF Typed
  <1>8. GuardsHold(do2, T2, F2)
    <2>1. SUFFICES ASSUME NEW g \in 1..n, Resumes(do2[g])
                   PROVE  /\ do2[g].depth \in Nat
                          /\ \A j \in 1..g : /\ j < g => do2[g].depth <= F2[j]
                                             /\ do2[g].depth <= Len(T2[j])
                                             /\ \A i \in 1..do2[g].depth :
                                                    Widens(T2[j][i], T2[g + 1][i])
      BY <1>2 DEF GuardsHold
    <2>2. m + g \in 1..Len(do) /\ do2[g] = do[m + g] /\ T2[g + 1] = T[(m + g) + 1]
      BY <1>3, <1>4
    <2>3. /\ do[m + g].depth \in Nat
          /\ \A j \in 1..(m + g) : /\ j < m + g => do[m + g].depth <= F[j]
                                   /\ do[m + g].depth <= Len(T[j])
                                   /\ \A i \in 1..do[m + g].depth :
                                          Widens(T[j][i], T[(m + g) + 1][i])
      BY <2>1, <2>2 DEF Track, GuardsHold
    <2>4. SUFFICES ASSUME NEW j \in 1..g
                   PROVE  /\ j < g => do2[g].depth <= F2[j]
                          /\ do2[g].depth <= Len(T2[j])
                          /\ \A i \in 1..do2[g].depth : Widens(T2[j][i], T2[g + 1][i])
      BY <2>2, <2>3
    <2>5. /\ m + j \in 1..(m + g) /\ (j < g => m + j < m + g) /\ T2[j] = T[m + j]
          /\ F2[j] = F[m + j]
      <3>1. j \in 1..n /\ j \in 1..(n + 1)
        BY <1>2
      <3>2. T2[j] = T[m + j] /\ F2[j] = F[m + j]
        BY <1>3, <1>4, <3>1
      <3>3. QED
        BY <1>2, <3>2
    <2>6. QED
      BY <2>2, <2>3, <2>5
  <1>9. T2[n + 1] = <<"global">>
    <2>1. m + (n + 1) = Len(do) + 1 /\ n + 1 \in 1..(n + 1)
      BY <1>1, <1>2
    <2>2. QED
      BY <1>3, <2>1 DEF Track
  <1>10. Suited(vals2, T2[1], L)
    BY <1>2, <1>3
  <1>11. QED
    BY <1>2, <1>7, <1>8, <1>9, <1>10 DEF Track

\* What a step takes from the stack.
LEMMA Taken ==
    ASSUME NEW vals, NEW K, NEW X \in Seq(Sorts), NEW Y, Suited(vals, X, K), NEW f \in Nat,
           NEW sig, Matches(sig, f, X, Y)
    PROVE  /\ Len(vals) = f + Len(sig.takes) /\ Len(sig.takes) \in Nat
           /\ \A i \in 1..Len(sig.takes) : Suits(vals[f + i], sig.takes[i], K)
  <1>1. Len(X) = f + Len(sig.takes) /\ Len(sig.takes) \in Nat
    BY DEF Matches, IsSeq
  <1>2. ASSUME NEW i \in 1..Len(sig.takes) PROVE Suits(vals[f + i], sig.takes[i], K)
    <2>1. f + i \in 1..Len(X)
      BY <1>1
    <2>2. Suits(vals[f + i], X[f + i], K) /\ Widens(X[f + i], sig.takes[i])
      BY <2>1 DEF Suited, Matches
    <2>3. QED
      BY <2>2, SuitsWider
  <1>3. QED
    BY <1>1, <1>2 DEF Suited

\* What it leaves there.
LEMMA Left ==
    ASSUME NEW vals, NEW K, NEW X \in Seq(Sorts), NEW Y \in Seq(Sorts), Suited(vals, X, K),
           NEW f \in Nat, NEW sig, Matches(sig, f, X, Y),
           NEW L, K \subseteq L \/ f = 0,
           NEW vals2, Len(vals2) = f + Len(sig.leaves),
           \A i \in 1..f : vals2[i] = vals[i],
           \A i \in 1..Len(sig.leaves) : Suits(vals2[f + i], sig.leaves[i], L)
    PROVE  Suited(vals2, Y, L)
  <1>1. /\ Len(Y) = f + Len(sig.leaves) /\ Len(sig.leaves) \in Nat
        /\ Len(X) = f + Len(sig.takes) /\ Len(sig.takes) \in Nat
    BY DEF Matches, IsSeq
  <1>2. ASSUME NEW i \in 1..Len(Y) PROVE Suits(vals2[i], Y[i], L)
    <2>1. CASE i <= f
      <3>1. i \in 1..f /\ i \in 1..Len(X)
        BY <1>1, <2>1
      <3>2. Suits(vals[i], X[i], K) /\ Widens(X[i], Y[i]) /\ vals2[i] = vals[i]
        BY <3>1 DEF Suited, Matches
      <3>3. K \subseteq L
        BY <2>1
      <3>4. QED
        BY <3>2, <3>3, SuitsWider, SuitsLater
    <2>2. CASE i > f
      <3>1. i - f \in 1..Len(sig.leaves) /\ f + (i - f) = i
        BY <1>1, <2>2
      <3>2. Suits(vals2[i], sig.leaves[i - f], L) /\ Widens(sig.leaves[i - f], Y[i])
        BY <3>1 DEF Matches
      <3>3. QED
        BY <3>2, SuitsWider
    <2>3. QED
      BY <2>1, <2>2
  <1>3. QED
    BY <1>1, <1>2 DEF Suited

\* A step becomes others that do the same: they leave alone what it leaves alone.
LEMMA Spliced ==
    ASSUME NEW do, NEW vals, NEW K, NEW T, NEW F, Track(do, vals, K, T, F), Len(do) > 0,
           NEW do1, NEW S, NEW G, Typed(do1, S, G), GuardsHold(do1, S, G),
           S[Len(do1) + 1] = T[2], Suited(vals, S[1], K),
           \A j \in 1..Len(do1) : /\ F[1] <= G[j] /\ F[1] <= Len(S[j])
                                  /\ \A i \in 1..F[1] : Widens(S[j][i], T[2][i])
    PROVE  \E T2, F2 : Track(do1 \o Tail(do), vals, K, T2, F2)
  <1> DEFINE n == Len(do1)
             r == Len(do) - 1
             do2 == do1 \o Tail(do)
             T2 == [j \in 1..(n + r + 1) |-> IF j <= n THEN S[j] ELSE T[(j - n) + 1]]
             F2 == [j \in 1..(n + r) |-> IF j <= n THEN G[j] ELSE F[(j - n) + 1]]
  <1>1. /\ IsSeq(do) /\ Len(do) \in Nat
        /\ \A i \in 1..(Len(do) + 1) : T[i] \in Seq(Sorts) /\ Len(T[i]) \in Nat
        /\ \A i \in 1..Len(do) : F[i] \in Nat /\ StepTyped(do[i], F[i], T[i], T[i + 1])
    BY TypedFacts DEF Track
  <1>2. /\ IsSeq(do1) /\ n \in Nat
        /\ \A i \in 1..(n + 1) : S[i] \in Seq(Sorts) /\ Len(S[i]) \in Nat
        /\ \A i \in 1..n : G[i] \in Nat /\ StepTyped(do1[i], G[i], S[i], S[i + 1])
    BY TypedFacts
  <1>3. r \in Nat /\ F[1] \in Nat
    BY <1>1
  <1>4. /\ IsSeq(do2) /\ Len(do2) = n + r
        /\ \A i \in 1..n : do2[i] = do1[i]
        /\ \A i \in 1..r : do2[n + i] = do[i + 1]
    BY <1>1, <1>2, TailIs, ConcatIs
  <1>5. \A i \in 1..n : do2[i] = do1[i] /\ T2[i] = S[i] /\ F2[i] = G[i] /\ i \in 1..(n + 1)
    BY <1>2, <1>3, <1>4
  <1>6. \A i \in 1..(r + 1) : T2[n + i] = T[i + 1]
    BY <1>2, <1>3
  <1>7. \A i \in 1..r : do2[n + i] = do[i + 1] /\ F2[n + i] = F[i + 1]
    BY <1>2, <1>3, <1>4
  <1>8. T2[n + 1] = S[n + 1]
    BY <1>2, <1>3, <1>6
  <1>9. T2 \in [1..(n + r + 1) -> Seq(Sorts)]
    <2>1. SUFFICES ASSUME NEW j \in 1..(n + r + 1)
                   PROVE  (IF j <= n THEN S[j] ELSE T[(j - n) + 1]) \in Seq(Sorts)
      OBVIOUS
    <2>2. CASE j <= n
      <3>1. j \in 1..(n + 1)
        BY <1>2, <2>2
      <3>2. QED
        BY <1>2, <2>2, <3>1
    <2>3. CASE ~(j <= n)
      <3>1. (j - n) + 1 \in 1..(Len(do) + 1)
        BY <1>1, <1>2, <1>3, <2>3
      <3>2. QED
        BY <1>1, <2>3, <3>1
    <2>4. QED
      BY <2>2, <2>3
  <1>10. F2 \in [1..(n + r) -> Nat]
    <2>1. SUFFICES ASSUME NEW j \in 1..(n + r)
                   PROVE  (IF j <= n THEN G[j] ELSE F[(j - n) + 1]) \in Nat
      OBVIOUS
    <2>2. CASE j <= n
      <3>1. j \in 1..n
        BY <1>2, <2>2
      <3>2. QED
        BY <1>2, <2>2, <3>1
    <2>3. CASE ~(j <= n)
      <3>1. (j - n) + 1 \in 1..Len(do)
        BY <1>1, <1>2, <1>3, <2>3
      <3>2. QED
        BY <1>1, <2>3, <3>1
    <2>4. QED
      BY <2>2, <2>3
  <1> HIDE DEF T2, F2, do2
  <1>11. ASSUME NEW i \in 1..(n + r) PROVE StepTyped(do2[i], F2[i], T2[i], T2[i + 1])
    <2>1. CASE i <= n
      <3>1. i \in 1..n /\ i + 1 \in 1..(n + 1)
        BY <1>2, <2>1
      <3>2. T2[i + 1] = S[i + 1]
        <4>1. CASE i + 1 <= n
          <5>1. i + 1 \in 1..n
            BY <1>2, <3>1, <4>1
          <5>2. QED
            BY <1>5, <5>1
        <4>2. CASE ~(i + 1 <= n)
          <5>1. i = n
            BY <1>2, <3>1, <4>2
          <5>2. QED
            BY <1>8, <5>1
        <4>3. QED
          BY <4>1, <4>2
      <3>3. do2[i] = do1[i] /\ T2[i] = S[i] /\ F2[i] = G[i]
        BY <1>5, <3>1
      <3>4. StepTyped(do1[i], G[i], S[i], S[i + 1])
        BY <1>2, <3>1
      <3>5. QED
        BY <3>2, <3>3, <3>4
    <2>2. CASE ~(i <= n)
      <3>1. PICK k \in 1..r : i = n + k
        <4>1. i - n \in 1..r /\ i = n + (i - n)
          BY <1>2, <1>3, <2>2
        <4>2. QED
          BY <4>1
      <3>2. k \in 1..(r + 1) /\ k + 1 \in 1..(r + 1) /\ i + 1 = n + (k + 1)
            /\ k + 1 \in 1..Len(do)
        BY <1>1, <1>2, <1>3, <3>1
      <3>3. T2[i] = T[k + 1]
        BY <1>6, <3>1, <3>2
      <3>4. T2[i + 1] = T[(k + 1) + 1]
        BY <1>6, <3>2
      <3>5. do2[i] = do[k + 1] /\ F2[i] = F[k + 1]
        BY <1>7, <3>1
      <3>6. StepTyped(do[k + 1], F[k + 1], T[k + 1], T[(k + 1) + 1])
        BY <1>1, <3>2
      <3>7. QED
        BY <3>3, <3>4, <3>5, <3>6
    <2>3. QED
      BY <2>1, <2>2
  <1>12. Typed(do2, T2, F2)
    <2>1. n + r \in Nat
      BY <1>2, <1>3
    <2>2. QED
      BY <1>4, <1>9, <1>10, <1>11, <2>1 DEF Typed
  <1>13. GuardsHold(do2, T2, F2)
    <2>1. SUFFICES ASSUME NEW g \in 1..(n + r), Resumes(do2[g])
                   PROVE  /\ do2[g].depth \in Nat
                          /\ \A j \in 1..g : /\ j < g => do2[g].depth <= F2[j]
                                             /\ do2[g].depth <= Len(T2[j])
                                             /\ \A i \in 1..do2[g].depth :
                                                    Widens(T2[j][i], T2[g + 1][i])
      BY <1>4 DEF GuardsHold
    <2>2. CASE g <= n
      <3>1. g \in 1..n /\ do2[g] = do1[g] /\ 1..g \subseteq 1..n
        BY <1>2, <1>5, <2>2
      <3>2. T2[g + 1] = S[g + 1]
        <4>1. CASE g + 1 <= n
          <5>1. g + 1 \in 1..n
            BY <1>2, <3>1, <4>1
          <5>2. QED
            BY <1>5, <5>1
        <4>2. CASE ~(g + 1 <= n)
          <5>1. g = n
            BY <1>2, <3>1, <4>2
          <5>2. QED
            BY <1>8, <5>1
        <4>3. QED
          BY <4>1, <4>2
      <3>3. \A j \in 1..g : T2[j] = S[j] /\ F2[j] = G[j]
        BY <1>5, <3>1
      <3>4. /\ do1[g].depth \in Nat
            /\ \A j \in 1..g : /\ j < g => do1[g].depth <= G[j]
                               /\ do1[g].depth <= Len(S[j])
                               /\ \A i \in 1..do1[g].depth : Widens(S[j][i], S[g + 1][i])
        BY <2>1, <3>1 DEF GuardsHold
      <3>5. QED
        BY <3>1, <3>2, <3>3, <3>4
    <2>3. CASE ~(g <= n)
      <3>1. PICK k \in 1..r : g = n + k
        <4>1. g - n \in 1..r /\ g = n + (g - n)
          BY <1>2, <1>3, <2>3
        <4>2. QED
          BY <4>1
      <3>2. /\ k + 1 \in 1..(r + 1) /\ g + 1 = n + (k + 1) /\ k + 1 \in 1..Len(do)
            /\ 1 \in 1..(k + 1) /\ 2 \in 1..(k + 1) /\ 1 < k + 1
        BY <1>1, <1>2, <1>3, <3>1
      <3>3. do2[g] = do[k + 1] /\ T2[g + 1] = T[(k + 1) + 1]
        BY <1>6, <1>7, <3>1, <3>2
      <3> DEFINE depth == do2[g].depth
      <3>4. /\ depth \in Nat
            /\ \A j \in 1..(k + 1) : /\ j < k + 1 => depth <= F[j]
                                     /\ depth <= Len(T[j])
                                     /\ \A i \in 1..depth : Widens(T[j][i], T[(k + 1) + 1][i])
        BY <2>1, <3>2, <3>3 DEF GuardsHold, Track
      <3> HIDE DEF depth
      <3>5. depth <= F[1] /\ \A i \in 1..depth : Widens(T[2][i], T2[g + 1][i])
        BY <3>2, <3>3, <3>4
      <3>6. ASSUME NEW j \in 1..g
            PROVE  /\ j < g => depth <= F2[j]
                   /\ depth <= Len(T2[j])
                   /\ \A i \in 1..depth : Widens(T2[j][i], T2[g + 1][i])
        <4>1. CASE j <= n
          <5>1. j \in 1..n /\ j \in 1..(n + 1)
            BY <1>2, <4>1
          <5>2. T2[j] = S[j] /\ F2[j] = G[j]
            BY <1>5, <5>1
          <5>3. /\ F[1] <= G[j] /\ F[1] <= Len(S[j]) /\ G[j] \in Nat /\ Len(S[j]) \in Nat
                /\ \A i \in 1..F[1] : Widens(S[j][i], T[2][i])
            BY <1>2, <5>1
          <5>4. 1..depth \subseteq 1..F[1]
            BY <1>3, <3>4, <3>5
          <5>5. depth <= F2[j] /\ depth <= Len(T2[j])
            BY <1>3, <3>4, <3>5, <5>2, <5>3
          <5>6. \A i \in 1..depth : Widens(T2[j][i], T2[g + 1][i])
            BY <3>5, <5>2, <5>3, <5>4, WidensTransitive
          <5>7. QED
            BY <5>5, <5>6
        <4>2. CASE ~(j <= n)
          <5>1. PICK m \in 1..r : j = n + m /\ m <= k
            <6>1. j - n \in 1..r /\ j = n + (j - n) /\ j - n <= k
              BY <1>2, <1>3, <3>1, <4>2
            <6>2. QED
              BY <6>1
          <5>2. m \in 1..(r + 1) /\ m + 1 \in 1..(k + 1) /\ (j < g => m + 1 < k + 1)
            BY <1>2, <1>3, <3>1, <5>1
          <5>3. T2[j] = T[m + 1] /\ F2[j] = F[m + 1]
            BY <1>6, <1>7, <5>1, <5>2
          <5>4. QED
            BY <3>3, <3>4, <5>2, <5>3
        <4>3. QED
          BY <4>1, <4>2
      <3>7. QED
        BY <3>4, <3>6 DEF depth
    <2>4. QED
      BY <2>2, <2>3
  <1>14. T2[(n + r) + 1] = <<"global">>
    <2>1. r + 1 \in 1..(r + 1) /\ (n + r) + 1 = n + (r + 1) /\ (r + 1) + 1 = Len(do) + 1
      BY <1>1, <1>2, <1>3
    <2>2. QED
      BY <1>6, <2>1 DEF Track
  <1>15. Suited(vals, T2[1], K)
    <2>1. T2[1] = S[1]
      <3>1. CASE n = 0
        BY <1>8, <3>1
      <3>2. CASE n # 0
        <4>1. 1 \in 1..n
          BY <1>2, <3>2
        <4>2. QED
          BY <1>5, <4>1
      <3>3. QED
        BY <3>1, <3>2
    <2>2. QED
      BY <2>1
  <1>16. Track(do2, vals, K, T2, F2)
    BY <1>4, <1>12, <1>13, <1>14, <1>15 DEF Track
  <1>17. QED
    BY <1>16 DEF do2

\* A step does the same further up on the stack.
LEMMA Raised ==
    ASSUME NEW sig, NEW low \in Nat, NEW X0 \in Seq(Sorts), NEW Y0 \in Seq(Sorts),
           Matches(sig, low, X0, Y0),
           NEW f \in Nat, NEW X, NEW Y, Len(X) = f + Len(X0), Len(Y) = f + Len(Y0),
           \A i \in 1..f : Widens(X[i], Y[i]),
           \A i \in 1..Len(X0) : X[f + i] = X0[i],
           \A i \in 1..Len(Y0) : Widens(Y0[i], Y[f + i])
    PROVE  Matches(sig, f + low, X, Y)
  <1>1. /\ IsSeq(sig.takes) /\ IsSeq(sig.leaves)
        /\ Len(sig.takes) \in Nat /\ Len(sig.leaves) \in Nat
        /\ Len(X0) = low + Len(sig.takes) /\ Len(Y0) = low + Len(sig.leaves)
        /\ \A i \in 1..low : Widens(X0[i], Y0[i])
        /\ \A i \in 1..Len(sig.takes) : Widens(X0[low + i], sig.takes[i])
        /\ \A i \in 1..Len(sig.leaves) : Widens(sig.leaves[i], Y0[low + i])
    BY DEF Matches, IsSeq
  <1> DEFINE m == Len(sig.takes)
             n == Len(sig.leaves)
  <1>0. m \in Nat /\ n \in Nat /\ Len(X0) = low + m /\ Len(Y0) = low + n
    BY <1>1
  <1>2. Len(X) = (f + low) + m /\ Len(Y) = (f + low) + n
    <2> HIDE DEF m, n
    <2>1. QED
      BY <1>0
  <1>3. ASSUME NEW i \in 1..(f + low) PROVE Widens(X[i], Y[i])
    <2>1. CASE i <= f
      BY <2>1
    <2>2. CASE ~(i <= f)
      <3>1. PICK k \in 1..low : i = f + k
        <4>1. i - f \in 1..low /\ i = f + (i - f)
          BY <2>2
        <4>2. QED
          BY <4>1
      <3>2. k \in 1..Len(X0) /\ k \in 1..Len(Y0)
        BY <1>1
      <3>3. X[i] = X0[k] /\ Widens(X0[k], Y0[k]) /\ Widens(Y0[k], Y[i])
        BY <1>1, <3>1, <3>2
      <3>4. QED
        BY <3>3, WidensTransitive
    <2>3. QED
      BY <2>1, <2>2
  <1>4. ASSUME NEW i \in 1..Len(sig.takes) PROVE Widens(X[(f + low) + i], sig.takes[i])
    <2>1. low + i \in 1..Len(X0) /\ f + (low + i) = (f + low) + i
      BY <1>1
    <2>2. X[(f + low) + i] = X0[low + i]
      BY <2>1
    <2>3. QED
      BY <1>1, <2>2
  <1>5. ASSUME NEW i \in 1..Len(sig.leaves) PROVE Widens(sig.leaves[i], Y[(f + low) + i])
    <2>1. low + i \in 1..Len(Y0) /\ f + (low + i) = (f + low) + i
      <3>1. i \in 1..n
        OBVIOUS
      <3> HIDE DEF n
      <3>2. QED
        BY <1>0, <3>1
    <2>2. Widens(Y0[low + i], Y[(f + low) + i])
      BY <2>1
    <2>3. QED
      BY <1>1, <2>2, WidensTransitive
  <1>6. QED
    BY <1>1, <1>2, <1>3, <1>4, <1>5 DEF Matches

\* A procedure, or the case of a switch, instead of its call.
LEMMA Unfolded ==
    ASSUME NEW do, NEW vals, NEW K, NEW T, NEW F, Track(do, vals, K, T, F), Len(do) > 0,
           NEW sig, Matches(sig, F[1], T[1], T[2]),
           NEW do1, RowTyped(do1, sig.takes, sig.leaves),
           \A i \in 1..Len(do1) : do1[i].op # "guard" /\ (AtRoot(do1[i]) => F[1] = 0)
    PROVE  \E T2, F2 : Track(do1 \o Tail(do), vals, K, T2, F2)
  <1>1. PICK T0, F0 : TypedBetween(do1, sig.takes, sig.leaves, T0, F0)
    BY DEF RowTyped
  <1> DEFINE n == Len(do1)
             f == F[1]
             Lifted(X) == [i \in 1..(f + Len(X)) |-> IF i <= f THEN T[2][i] ELSE X[i - f]]
             S == [j \in 1..(n + 1) |-> IF j = n + 1 THEN T[2] ELSE Lifted(T0[j])]
             G == [j \in 1..n |-> f + F0[j]]
  <1>2. /\ Len(do) \in Nat /\ f \in Nat /\ T[1] \in Seq(Sorts) /\ T[2] \in Seq(Sorts)
        /\ Len(T[1]) \in Nat /\ Len(T[2]) \in Nat
    <2>1. Len(do) \in Nat
      BY TypedFacts DEF Track
    <2>2. 1 \in 1..Len(do) /\ 1 \in 1..(Len(do) + 1) /\ 2 \in 1..(Len(do) + 1)
      BY <2>1
    <2>3. QED
      BY <2>1, <2>2, TypedFacts DEF Track
  <1>3. /\ n \in Nat /\ IsSeq(do1)
        /\ \A i \in 1..(n + 1) : T0[i] \in Seq(Sorts) /\ Len(T0[i]) \in Nat
        /\ \A i \in 1..n : F0[i] \in Nat /\ StepTyped(do1[i], F0[i], T0[i], T0[i + 1])
    BY <1>1, TypedFacts DEF TypedBetween
  <1>4. /\ Len(sig.takes) \in Nat /\ Len(sig.leaves) \in Nat
        /\ Len(T[1]) = f + Len(sig.takes) /\ Len(T[2]) = f + Len(sig.leaves)
        /\ \A i \in 1..f : Widens(T[1][i], T[2][i]) /\ T[2][i] \in Sorts
        /\ \A i \in 1..Len(sig.takes) : Widens(T[1][f + i], sig.takes[i])
        /\ \A i \in 1..Len(sig.leaves) : Widens(sig.leaves[i], T[2][f + i])
    <2>1. Len(sig.takes) \in Nat /\ Len(sig.leaves) \in Nat /\ Len(T[2]) = f + Len(sig.leaves)
      BY DEF Matches, IsSeq
    <2>2. 1..f \subseteq 1..Len(T[2])
      BY <1>2, <2>1
    <2>3. QED
      BY <1>2, <2>1, <2>2 DEF Matches
  <1>5. /\ Len(T0[1]) = Len(sig.takes) /\ Len(T0[n + 1]) = Len(sig.leaves)
        /\ \A i \in 1..Len(sig.takes) : Widens(sig.takes[i], T0[1][i])
        /\ \A i \in 1..Len(sig.leaves) : Widens(T0[n + 1][i], sig.leaves[i])
    BY <1>1 DEF TypedBetween, AllWiden
  <1>6. ASSUME NEW X \in Seq(Sorts)
        PROVE  /\ Lifted(X) \in Seq(Sorts) /\ Len(Lifted(X)) = f + Len(X)
               /\ \A i \in 1..f : Lifted(X)[i] = T[2][i]
               /\ \A i \in 1..Len(X) : Lifted(X)[f + i] = X[i]
    <2>1. Len(X) \in Nat
      OBVIOUS
    <2>2. ASSUME NEW i \in 1..(f + Len(X))
          PROVE  (IF i <= f THEN T[2][i] ELSE X[i - f]) \in Sorts
      <3>1. CASE i <= f
        BY <1>2, <1>4, <2>1, <3>1
      <3>2. CASE ~(i <= f)
        <4>1. i - f \in 1..Len(X)
          BY <1>2, <2>1, <3>2
        <4>2. X[i - f] \in Sorts
          BY <4>1
        <4>3. QED
          BY <3>2, <4>2
      <3>3. QED
        BY <3>1, <3>2
    <2>3. f + Len(X) \in Nat
      BY <1>2, <2>1
    <2>4. Lifted(X) \in [1..(f + Len(X)) -> Sorts]
      BY <2>2
    <2>5. Lifted(X) \in Seq(Sorts) /\ Len(Lifted(X)) = f + Len(X)
      <3> HIDE DEF Lifted
      <3>1. QED
        BY <2>3, <2>4
    <2>6. \A i \in 1..f : Lifted(X)[i] = T[2][i]
      BY <1>2, <2>1
    <2>7. \A i \in 1..Len(X) : Lifted(X)[f + i] = X[i]
      BY <1>2, <2>1
    <2>8. QED
      BY <2>5, <2>6, <2>7
  <1> HIDE DEF Lifted
  <1>7. S[n + 1] = T[2] /\ \A j \in 1..n : S[j] = Lifted(T0[j]) /\ G[j] = f + F0[j]
    BY <1>3
  <1>8. S \in [1..(n + 1) -> Seq(Sorts)] /\ G \in [1..n -> Nat]
    <2>1. ASSUME NEW j \in 1..(n + 1)
          PROVE  (IF j = n + 1 THEN T[2] ELSE Lifted(T0[j])) \in Seq(Sorts)
      BY <1>2, <1>3, <1>6
    <2>2. ASSUME NEW j \in 1..n PROVE f + F0[j] \in Nat
      BY <1>2, <1>3
    <2>3. QED
      BY <2>1, <2>2
  <1> HIDE DEF S, G
  <1>9. ASSUME NEW j \in 1..(n + 1)
        PROVE  /\ Len(S[j]) = f + Len(T0[j]) /\ Len(T0[j]) \in Nat
               /\ \A i \in 1..f : S[j][i] = T[2][i]
               /\ \A i \in 1..Len(T0[j]) : Widens(T0[j][i], S[j][f + i])
    <2>1. CASE j = n + 1
      <3>1. \A i \in 1..Len(sig.leaves) : Widens(T0[n + 1][i], T[2][f + i])
        BY <1>4, <1>5, WidensTransitive
      <3>2. QED
        BY <1>3, <1>4, <1>5, <1>7, <2>1, <3>1
    <2>2. CASE j # n + 1
      <3>1. j \in 1..n
        BY <1>3, <2>2
      <3>2. S[j] = Lifted(T0[j]) /\ T0[j] \in Seq(Sorts)
        BY <1>3, <1>7, <3>1
      <3>3. \A i \in 1..Len(T0[j]) : Widens(T0[j][i], T0[j][i])
        BY <3>2, StackFacts
      <3>4. /\ Len(Lifted(T0[j])) = f + Len(T0[j])
            /\ \A i \in 1..f : Lifted(T0[j])[i] = T[2][i]
            /\ \A i \in 1..Len(T0[j]) : Lifted(T0[j])[f + i] = T0[j][i]
        BY <1>6, <3>2
      <3>5. Len(T0[j]) \in Nat
        BY <1>3
      <3>6. QED
        BY <3>2, <3>3, <3>4, <3>5
    <2>3. QED
      BY <2>1, <2>2
  <1>10. ASSUME NEW j \in 1..n PROVE StepTyped(do1[j], G[j], S[j], S[j + 1])
    <2>1. j \in 1..(n + 1) /\ j + 1 \in 1..(n + 1)
      BY <1>3
    <2>2. StepTyped(do1[j], F0[j], T0[j], T0[j + 1]) /\ F0[j] \in Nat
      BY <1>3
    <2>3. T0[j] \in Seq(Sorts) /\ T0[j + 1] \in Seq(Sorts)
      BY <1>3, <2>1
    <2>4. \A i \in 1..f : Widens(S[j][i], S[j + 1][i])
      BY <1>4, <1>9, <2>1, WidensReflexive
    <2>5. \A i \in 1..Len(T0[j]) : S[j][f + i] = T0[j][i]
      <3>1. \A i \in 1..Len(T0[j]) : Lifted(T0[j])[f + i] = T0[j][i]
        BY <1>6, <2>3
      <3>2. S[j] = Lifted(T0[j])
        BY <1>7
      <3>3. QED
        BY <3>1, <3>2
    <2>6. Len(S[j]) = f + Len(T0[j]) /\ Len(S[j + 1]) = f + Len(T0[j + 1])
      BY <1>9, <2>1
    <2>7. \A i \in 1..Len(T0[j + 1]) : Widens(T0[j + 1][i], S[j + 1][f + i])
      BY <1>9, <2>1
    <2>8. ASSUME NEW g, Matches(g, F0[j], T0[j], T0[j + 1])
          PROVE  Matches(g, f + F0[j], S[j], S[j + 1])
      BY <1>2, <2>2, <2>3, <2>4, <2>5, <2>6, <2>7, <2>8, Raised
    <2>9. G[j] = f + F0[j] /\ (AtRoot(do1[j]) => f = 0)
      BY <1>7
    <2>10. do1[j].op \notin Ending =>
               \E k \in 1..Len(Signatures(do1[j])) :
                   Matches(Signatures(do1[j])[k], G[j], S[j], S[j + 1])
      BY <2>2, <2>8, <2>9 DEF StepTyped
    <2>11. AtRoot(do1[j]) => G[j] = 0
      BY <1>2, <2>2, <2>9 DEF StepTyped
    <2>12. do1[j].op # "guard"
      OBVIOUS
    <2>13. QED
      BY <2>10, <2>11, <2>12 DEF StepTyped
  <1>11. Typed(do1, S, G)
    BY <1>3, <1>8, <1>10 DEF Typed
  <1>12. GuardsHold(do1, S, G)
    BY DEF GuardsHold, Resumes
  <1>13. Suited(vals, S[1], K)
    <2>1. 1 \in 1..(n + 1)
      BY <1>3
    <2>2. Len(S[1]) = Len(T[1])
      BY <1>4, <1>5, <1>9, <2>1
    <2>3. ASSUME NEW i \in 1..Len(T[1]) PROVE Widens(T[1][i], S[1][i])
      <3>1. CASE i <= f
        BY <1>4, <1>9, <2>1, <3>1
      <3>2. CASE ~(i <= f)
        <4>1. PICK k \in 1..Len(sig.takes) : i = f + k
          <5>1. i - f \in 1..Len(sig.takes) /\ i = f + (i - f)
            BY <1>2, <1>4, <3>2
          <5>2. QED
            BY <5>1
        <4>2. Widens(T[1][i], sig.takes[k])
          BY <1>4, <4>1
        <4>3. Widens(sig.takes[k], T0[1][k]) /\ k \in 1..Len(T0[1])
          BY <1>5, <4>1
        <4>4. Widens(T0[1][k], S[1][i])
          BY <1>9, <2>1, <4>1, <4>3
        <4>5. QED
          BY <4>2, <4>3, <4>4, WidensTransitive
      <3>3. QED
        BY <3>1, <3>2
    <2>4. Suited(vals, T[1], K)
      BY DEF Track
    <2>5. QED
      BY <2>2, <2>3, <2>4, SuitsWider DEF Suited
  <1>14. ASSUME NEW j \in 1..n
         PROVE  /\ f <= G[j] /\ f <= Len(S[j])
                /\ \A i \in 1..f : Widens(S[j][i], T[2][i])
    <2>1. j \in 1..(n + 1)
      BY <1>3
    <2>2. f <= G[j]
      <3>1. G[j] = f + F0[j] /\ F0[j] \in Nat /\ f \in Nat
        BY <1>2, <1>3, <1>7
      <3> HIDE DEF f
      <3>2. QED
        BY <3>1
    <2>3. f <= Len(S[j])
      BY <1>2, <1>9, <2>1
    <2>4. QED
      BY <1>4, <1>9, <2>1, <2>2, <2>3, WidensReflexive
  <1> HIDE DEF n, f
  <1>15. QED
    BY <1>7, <1>11, <1>12, <1>13, <1>14, Spliced DEF n, f

--------------------------------------------------------------------------------
(* Signatures.                                                                   *)

LEMMA OneIs ==
    ASSUME NEW x
    PROVE  IsSeq(<<x>>) /\ Len(<<x>>) = 1 /\ <<x>>[1] = x
  <1>1. <<x>> \in Seq({x})
    OBVIOUS
  <1>2. QED
    BY <1>1, SeqIs

LEMMA OneSignature ==
    ASSUME NEW step, NEW f, NEW X, NEW Y, StepTyped(step, f, X, Y), step.op \notin Ending,
           NEW sig, Signatures(step) = <<sig>>
    PROVE  Matches(sig, f, X, Y)
  <1>1. PICK k \in 1..Len(Signatures(step)) : Matches(Signatures(step)[k], f, X, Y)
    BY DEF StepTyped
  <1>2. k = 1 /\ <<sig>>[1] = sig
    BY <1>1
  <1>3. QED
    BY <1>1, <1>2

\* The step itself, and the stacks around it.
LEMMA FirstStep ==
    ASSUME NEW do, NEW vals, NEW K, NEW T, NEW F, Track(do, vals, K, T, F), Len(do) > 0
    PROVE  /\ Len(do) \in Nat /\ F[1] \in Nat /\ T[1] \in Seq(Sorts) /\ T[2] \in Seq(Sorts)
           /\ Len(T[1]) \in Nat /\ Len(T[2]) \in Nat
           /\ StepTyped(do[1], F[1], T[1], T[2])
           /\ Suited(vals, T[1], K)
  <1>1. Len(do) \in Nat
    BY TypedFacts DEF Track
  <1>2. 1 \in 1..Len(do) /\ 1 \in 1..(Len(do) + 1) /\ 2 \in 1..(Len(do) + 1) /\ 1 + 1 = 2
    BY <1>1
  <1>3. QED
    BY <1>1, <1>2, TypedFacts DEF Track

LEMMA RunMatches ==
    ASSUME NEW proc, NEW f \in Nat, NEW X, NEW Y, Matches(OfProcedure(proc), f, X, Y),
           AtRoot(Run(proc)) => f = 0
    PROVE  StepTyped(Run(proc), f, X, Y)
  <1>1. Run(proc).op = "run" /\ Run(proc).proc = proc
    BY DEF Run
  <1>2. Signatures(Run(proc)) = <<OfProcedure(proc)>>
    BY <1>1 DEF Signatures
  <1>3. 1 \in 1..Len(<<OfProcedure(proc)>>) /\ <<OfProcedure(proc)>>[1] = OfProcedure(proc)
    OBVIOUS
  <1>4. QED
    BY <1>1, <1>2, <1>3 DEF StepTyped

Guard(failing, depth, then) ==
    [op |-> "guard", failing |-> failing, depth |-> depth, then |-> then]

LEMMA DerefMatches ==
    ASSUME NEW failing, NEW depth, NEW then, failing # "resume", NEW Y \in Seq(Sorts)
    PROVE  StepTyped(Guard(failing, depth, then), Len(Y), Y, Y)
  <1> DEFINE guard == Guard(failing, depth, then)
             sig == From(<<>>, <<>>)
  <1>1. guard.op = "guard" /\ guard.failing = failing
    BY DEF Guard
  <1> HIDE DEF guard
  <1>2. Signatures(guard) = <<sig>>
    BY <1>1 DEF Signatures
  <1>3. sig.takes = <<>> /\ sig.leaves = <<>>
    BY DEF From
  <1>4. Len(<<>>) = 0 /\ 1 \in 1..Len(<<sig>>) /\ <<sig>>[1] = sig
    OBVIOUS
  <1> HIDE DEF sig
  <1>5. Matches(sig, Len(Y), Y, Y)
    <2>1. Len(Y) \in Nat /\ \A i \in 1..Len(Y) : Widens(Y[i], Y[i])
      BY StackFacts
    <2>2. QED
      BY <1>3, <1>4, <2>1, EmptyIs DEF Matches
  <1>6. ~AtRoot(guard) /\ guard.failing # "resume"
    BY <1>1 DEF AtRoot
  <1>7. QED
    BY <1>2, <1>4, <1>5, <1>6 DEF StepTyped, guard

LEMMA ResumeMatches ==
    ASSUME NEW then, NEW X \in Seq(Sorts), NEW Y \in Seq(Sorts), NEW f \in Nat,
           Matches(Same("plain"), f, X, Y)
    PROVE  /\ Len(X) = f + 1 /\ Len(Y) = f + 1
           /\ \A i \in 1..(f + 1) : Widens(X[i], Y[i])
           /\ StepTyped(Guard("resume", f + 1, then), f, Append(X, "node"), Y)
  <1> DEFINE guard == Guard("resume", f + 1, then)
             sig == From(<<"plain", "node">>, <<"plain">>)
             Z == Append(X, "node")
  <1>1. guard.op = "guard" /\ guard.failing = "resume" /\ guard.depth = f + 1
    BY DEF Guard
  <1>2. Same("plain").takes = <<"plain">> /\ Same("plain").leaves = <<"plain">>
    BY DEF Same, From
  <1>3. /\ Len(X) = f + 1 /\ Len(Y) = f + 1
        /\ \A i \in 1..f : Widens(X[i], Y[i])
        /\ Widens(X[f + 1], "plain") /\ Widens("plain", Y[f + 1])
    <2>1. Len(<<"plain">>) = 1 /\ <<"plain">>[1] = "plain" /\ 1 \in 1..1
      OBVIOUS
    <2>2. QED
      BY <1>2, <2>1 DEF Matches
  <1>4. \A i \in 1..(f + 1) : Widens(X[i], Y[i])
    <2>1. Widens(X[f + 1], Y[f + 1])
      BY <1>3, WidensTransitive
    <2>2. QED
      BY <1>3, <2>1
  <1>5. Signatures(guard) = <<sig>>
    <2> HIDE DEF guard
    <2>1. QED
      BY <1>1 DEF Signatures
  <1>6. sig.takes = <<"plain", "node">> /\ sig.leaves = <<"plain">>
    BY DEF From
  <1>7. 1 \in 1..Len(<<sig>>) /\ <<sig>>[1] = sig
    OBVIOUS
  <1>8. /\ Len(Z) = f + 2 /\ Z[f + 2] = "node"
        /\ \A i \in 1..(f + 1) : Z[i] = X[i]
    BY <1>3
  <1> HIDE DEF sig, guard, Z
  <1>9. Matches(sig, f, Z, Y)
    <2>1. /\ Len(<<"plain", "node">>) = 2 /\ <<"plain", "node">>[1] = "plain"
          /\ <<"plain", "node">>[2] = "node" /\ Len(<<"plain">>) = 1 /\ <<"plain">>[1] = "plain"
      OBVIOUS
    <2>2. IsSeq(<<"plain", "node">>) /\ IsSeq(<<"plain">>)
      BY OneIs, PairIs
    <2>3. \A i \in 1..f : Widens(Z[i], Y[i])
      BY <1>3, <1>8
    <2>4. ASSUME NEW i \in 1..2 PROVE Widens(Z[f + i], <<"plain", "node">>[i])
      <3>1. Widens("node", "node")
        BY WidensReflexive DEF Sorts
      <3>2. f + 1 \in 1..(f + 1)
        OBVIOUS
      <3>3. QED
        BY <1>3, <1>8, <2>1, <3>1, <3>2
    <2>5. ASSUME NEW i \in 1..1 PROVE Widens(<<"plain">>[i], Y[f + i])
      BY <1>3, <2>1
    <2>6. QED
      BY <1>3, <1>6, <1>8, <2>1, <2>2, <2>3, <2>4, <2>5 DEF Matches
  <1>10. ~AtRoot(guard)
    BY <1>1 DEF AtRoot
  <1>11. StepTyped(guard, f, Z, Y)
    BY <1>1, <1>3, <1>5, <1>7, <1>9, <1>10 DEF StepTyped
  <1>12. QED
    BY <1>3, <1>4, <1>11 DEF guard, Z

\* Run() of a procedure whose failure is handled, and the guard behind it.
LEMMA TryUnfolded ==
    ASSUME NEW do, NEW vals, NEW K, NEW T, NEW F, Track(do, vals, K, T, F), Len(do) > 0,
           do[1].op = "try", Sound(do[1])
    PROVE  \E T2, F2 :
             Track(<<Run(do[1].proc), Guard(do[1].failing, Len(vals), do[1].then)>> \o Tail(do),
                   vals, K, T2, F2)
  <1> DEFINE step == do[1]
             run == Run(step.proc)
             guard == Guard(step.failing, Len(vals), step.then)
             do1 == <<run, guard>>
             f == F[1]
             node == New1("node")
  <1>1. /\ F[1] \in Nat /\ T[1] \in Seq(Sorts) /\ T[2] \in Seq(Sorts)
        /\ Len(T[1]) \in Nat /\ Len(T[2]) \in Nat
        /\ StepTyped(step, f, T[1], T[2]) /\ Suited(vals, T[1], K)
    BY FirstStep
  <1>2. OfProcedure(step.proc) = node /\ step.failing \in {"deref", "resume"}
    BY DEF Sound
  <1>3. Signatures(step) = <<IF step.failing = "resume" THEN Same("plain") ELSE node>>
    BY <1>2 DEF Signatures
  <1>4. Matches(IF step.failing = "resume" THEN Same("plain") ELSE node, f, T[1], T[2])
    <2> step.op \notin Ending
      BY DEF Ending
    <2> HIDE DEF node, f, step
    <2>1. QED
      BY <1>1, <1>3, OneSignature
  <1>5. ~AtRoot(run)
    <2>1. run.op = "run" /\ run.proc = step.proc
      BY DEF Run
    <2>2. node.takes = <<>>
      BY DEF New1, From
    <2>3. step.proc \notin {"Headers", "AfterHeader"}
      <3>1. From(<<"headed">>, <<"global">>).takes = <<"headed">> /\ <<"headed">> # <<>>
        BY DEF From
      <3>2. step.proc \in {"Headers", "AfterHeader"} =>
                OfProcedure(step.proc) = From(<<"headed">>, <<"global">>)
        BY DEF OfProcedure
      <3>3. QED
        BY <1>2, <2>2, <3>1, <3>2
    <2>4. step.proc # "TopLevel"
      <3>1. node.leaves = <<"node">> /\ New1("global").leaves = <<"global">>
        BY DEF New1, From
      <3>2. <<"node">> # <<"global">>
        <4>1. <<"node">>[1] = "node" /\ <<"global">>[1] = "global"
          OBVIOUS
        <4>2. QED
          BY <4>1
      <3>3. step.proc = "TopLevel" => OfProcedure(step.proc) = New1("global")
        BY DEF OfProcedure
      <3>4. QED
        BY <1>2, <3>1, <3>2, <3>3
    <2>5. QED
      BY <2>1, <2>3, <2>4 DEF AtRoot
  <1>6. /\ IsSeq(do1) /\ Len(do1) = 2 /\ do1[1] = run /\ do1[2] = guard
    BY PairIs
  <1>7. node.takes = <<>> /\ node.leaves = <<"node">>
    BY DEF New1, From
  <1> DEFINE Goal == \E T2, F2 : Track(do1 \o Tail(do), vals, K, T2, F2)
  <1>8. ASSUME NEW X1 \in Seq(Sorts), NEW f1 \in Nat, NEW f2 \in Nat,
               StepTyped(run, f1, T[1], X1), StepTyped(guard, f2, X1, T[2]),
               f <= f1, f <= f2, f <= Len(T[1]), f <= Len(X1),
               \A i \in 1..f : Widens(T[1][i], T[2][i]) /\ Widens(X1[i], T[2][i]),
               step.failing = "resume" =>
                   /\ Len(vals) \in Nat /\ Len(vals) <= f1 /\ Len(vals) <= Len(T[1])
                   /\ Len(vals) <= Len(X1)
                   /\ \A i \in 1..Len(vals) : Widens(T[1][i], T[2][i]) /\ Widens(X1[i], T[2][i])
        PROVE  Goal
    <2> DEFINE S == [j \in 1..3 |-> IF j = 1 THEN T[1] ELSE IF j = 2 THEN X1 ELSE T[2]]
               G == [j \in 1..2 |-> IF j = 1 THEN f1 ELSE f2]
    <2>1. S[1] = T[1] /\ S[2] = X1 /\ S[3] = T[2] /\ G[1] = f1 /\ G[2] = f2
      OBVIOUS
    <2>2. S \in [1..3 -> Seq(Sorts)] /\ G \in [1..2 -> Nat]
      BY <1>1
    <2> HIDE DEF S, G, do1, run, guard, step, f
    <2>3. Typed(do1, S, G)
      <3>1. \A i \in 1..2 : StepTyped(do1[i], G[i], S[i], S[i + 1])
        BY <1>6, <1>8, <2>1
      <3>2. Len(do1) + 1 = 3
        BY <1>6
      <3>3. QED
        BY <1>6, <2>2, <3>1, <3>2 DEF Typed
    <2>4. GuardsHold(do1, S, G)
      <3>1. ~Resumes(run)
        BY DEF Resumes, run, Run
      <3>2. Resumes(guard) => step.failing = "resume"
        BY DEF Resumes, guard, Guard
      <3>3. guard.depth = Len(vals)
        BY DEF guard, Guard
      <3>4. ASSUME Resumes(do1[2])
            PROVE  /\ do1[2].depth \in Nat
                   /\ \A j \in 1..2 : /\ j < 2 => do1[2].depth <= G[j]
                                      /\ do1[2].depth <= Len(S[j])
                                      /\ \A i \in 1..do1[2].depth : Widens(S[j][i], S[2 + 1][i])
        BY <1>6, <1>8, <2>1, <3>2, <3>3, <3>4
      <3>5. \A g \in 1..2 : Resumes(do1[g]) => g = 2
        BY <1>6, <3>1
      <3>6. QED
        BY <1>6, <3>4, <3>5 DEF GuardsHold
    <2>5. ASSUME NEW j \in 1..Len(do1)
          PROVE  /\ F[1] <= G[j] /\ F[1] <= Len(S[j])
                 /\ \A i \in 1..F[1] : Widens(S[j][i], T[2][i])
      <3>1. j = 1 \/ j = 2
        BY <1>6
      <3>2. QED
        BY <1>8, <2>1, <3>1 DEF f
    <2>6. S[Len(do1) + 1] = T[2] /\ Suited(vals, S[1], K)
      BY <1>1, <1>6, <2>1
    <2>7. QED
      BY <2>3, <2>4, <2>5, <2>6, Spliced
  <1> SUFFICES Goal
    OBVIOUS
  <1> HIDE DEF Goal
  <1>9. CASE step.failing = "resume"
    <2>1. Matches(Same("plain"), f, T[1], T[2])
      BY <1>4, <1>9
    <2> DEFINE X1 == Append(T[1], "node")
    <2>2. /\ Len(T[1]) = f + 1 /\ Len(T[2]) = f + 1
          /\ \A i \in 1..(f + 1) : Widens(T[1][i], T[2][i])
          /\ StepTyped(Guard("resume", f + 1, step.then), f, X1, T[2])
      BY <1>1, <2>1, ResumeMatches
    <2>3. Len(vals) = f + 1
      BY <1>1, <2>2 DEF Suited
    <2>4. StepTyped(guard, f, X1, T[2])
      BY <1>9, <2>2, <2>3
    <2>5. /\ X1 \in Seq(Sorts) /\ Len(X1) = f + 2 /\ X1[f + 2] = "node"
          /\ \A i \in 1..(f + 1) : X1[i] = T[1][i]
      BY <1>1, <2>2 DEF Sorts
    <2> HIDE DEF X1
    <2>6. StepTyped(run, f + 1, T[1], X1)
      <3>1. Len(<<>>) = 0 /\ Len(<<"node">>) = 1 /\ <<"node">>[1] = "node"
        OBVIOUS
      <3>2. \A i \in 1..(f + 1) : Widens(T[1][i], X1[i])
        <4>1. \A i \in 1..(f + 1) : Widens(T[1][i], T[1][i])
          BY <1>1, <2>2, StackFacts
        <4>2. QED
          BY <2>5, <4>1
      <3>3. Widens("node", "node")
        BY WidensReflexive DEF Sorts
      <3>4. Matches(node, f + 1, T[1], X1)
        <4>1. (f + 1) + 1 = f + 2 /\ Len(T[1]) = (f + 1) + 0
          BY <1>1, <2>2
        <4> HIDE DEF node, f
        <4>2. QED
          BY <1>7, <2>5, <3>1, <3>2, <3>3, <4>1, EmptyIs, OneIs DEF Matches
      <3>5. f + 1 \in Nat
        BY <1>1
      <3>6. QED
        BY <1>2, <1>5, <3>4, <3>5, RunMatches
    <2>7. \A i \in 1..(f + 1) : Widens(T[1][i], T[2][i]) /\ Widens(X1[i], T[2][i])
      BY <2>2, <2>5
    <2>8. f + 1 \in Nat /\ f \in Nat /\ f <= f + 1 /\ f <= f /\ f + 1 <= f + 2 /\ f <= f + 2
          /\ f + 1 <= f + 1 /\ 1..f \subseteq 1..(f + 1)
      BY <1>1
    <2> DEFINE f1 == f + 1
    <2>9. f1 \in Nat /\ f <= f1 /\ f <= f /\ f <= Len(T[1]) /\ f <= Len(X1)
      BY <2>2, <2>5, <2>8
    <2>10. Len(vals) \in Nat /\ Len(vals) <= f1 /\ Len(vals) <= Len(T[1]) /\ Len(vals) <= Len(X1)
      BY <2>2, <2>3, <2>5, <2>8
    <2>11. \A i \in 1..f : Widens(T[1][i], T[2][i]) /\ Widens(X1[i], T[2][i])
      BY <2>7, <2>8
    <2>12. \A i \in 1..Len(vals) : Widens(T[1][i], T[2][i]) /\ Widens(X1[i], T[2][i])
      BY <2>3, <2>7
    <2>13. X1 \in Seq(Sorts) /\ StepTyped(run, f1, T[1], X1) /\ f \in Nat
      BY <2>5, <2>6, <2>8
    <2> HIDE DEF step, run, guard, f, f1
    <2>14. QED
      BY <2>4, <2>9, <2>10, <2>11, <2>12, <2>13, <1>8
  <1>10. CASE step.failing # "resume"
    <2>1. Matches(node, f, T[1], T[2])
      BY <1>4, <1>10
    <2>2. StepTyped(run, f, T[1], T[2])
      BY <1>1, <1>2, <1>5, <2>1, RunMatches
    <2>3. StepTyped(guard, Len(T[2]), T[2], T[2])
      BY <1>1, <1>10, DerefMatches
    <2>4. /\ Len(T[1]) = f /\ f <= Len(T[2])
          /\ \A i \in 1..f : Widens(T[1][i], T[2][i])
      <3>1. Len(<<>>) = 0 /\ Len(<<"node">>) = 1
        OBVIOUS
      <3>2. Len(T[1]) = f + 0 /\ Len(T[2]) = f + 1 /\ \A i \in 1..f : Widens(T[1][i], T[2][i])
        <4> HIDE DEF node, f
        <4>1. QED
          BY <1>7, <2>1, <3>1 DEF Matches
      <3>3. QED
        BY <1>1, <3>2
    <2>5. \A i \in 1..f : Widens(T[2][i], T[2][i])
      <3>1. 1..f \subseteq 1..Len(T[2])
        BY <1>1, <2>4
      <3>2. QED
        BY <1>1, <3>1, StackFacts
    <2>6. f \in Nat /\ f <= f
      BY <1>1
    <2> DEFINE f2 == Len(T[2])
               X1 == T[2]
    <2>7. f2 \in Nat /\ f <= f2 /\ f <= Len(T[1]) /\ f <= Len(X1) /\ X1 \in Seq(Sorts)
      BY <1>1, <2>4, <2>6
    <2>8. StepTyped(guard, f2, X1, T[2]) /\ StepTyped(run, f, T[1], X1)
      BY <2>2, <2>3
    <2>9. \A i \in 1..f : Widens(T[1][i], T[2][i]) /\ Widens(X1[i], T[2][i])
      BY <2>4, <2>5
    <2> HIDE DEF step, run, guard, f, f2, X1
    <2>10. QED
      BY <1>8, <1>10, <2>6, <2>7, <2>8, <2>9
  <1>11. QED
    BY <1>9, <1>10

--------------------------------------------------------------------------------
(* The state of a parser at work.                                                *)

\* What is left to do ends the call with all of the text consumed.
Finishes(do) == Len(do) > 0 /\ do[Len(do)].op = "run" /\ do[Len(do)].proc \in Finishing
EndsWell(do, text) ==
    \/ Finishes(do)
    \/ do = <<Remainder, Add>>
    \/ do \in {<<Add>>, <<>>} /\ text = <<END>>

AllSound(do) == \A i \in 1..Len(do) : Sound(do[i])
Working(do, vals, ks, text) ==
    /\ IsSeq(do) /\ IsSeq(vals) /\ AllSound(do) /\ EndsWell(do, text)
    /\ \E T, F : Track(do, vals, Nodes(ks), T, F)

\* The next step can be used in this way.
Applies(do, vals, K, sig) ==
    \E T, F : Track(do, vals, K, T, F) /\ Matches(sig, F[1], T[1], T[2])

LEMMA StepApplies ==
    ASSUME NEW do, NEW vals, NEW ks, NEW text, Working(do, vals, ks, text), Len(do) > 0,
           do[1].op \notin Ending
    PROVE  \E k \in 1..Len(Signatures(do[1])) :
               Applies(do, vals, Nodes(ks), Signatures(do[1])[k])
  BY FirstStep DEF Working, StepTyped, Applies

LEMMA OnlyOne ==
    ASSUME NEW do, NEW vals, NEW ks, NEW text, Working(do, vals, ks, text), Len(do) > 0,
           do[1].op \notin Ending, NEW sig, Signatures(do[1]) = <<sig>>
    PROVE  Applies(do, vals, Nodes(ks), sig)
  <1>1. PICK k \in 1..Len(Signatures(do[1])) :
               Applies(do, vals, Nodes(ks), Signatures(do[1])[k])
    BY StepApplies
  <1>2. k = 1 /\ <<sig>>[1] = sig
    BY <1>1
  <1>3. QED
    BY <1>1, <1>2

\* The topmost nodes are the ones the step takes.
LEMMA Found ==
    ASSUME NEW do, NEW vals, NEW K, NEW sig, Applies(do, vals, K, sig), Len(do) > 0
    PROVE  /\ Len(vals) \in Nat /\ Len(sig.takes) \in Nat /\ Len(sig.takes) <= Len(vals)
           /\ \A i \in 1..Len(sig.takes) :
                  Suits(vals[(Len(vals) - Len(sig.takes)) + i], sig.takes[i], K)
  <1>1. PICK T, F : Track(do, vals, K, T, F) /\ Matches(sig, F[1], T[1], T[2])
    BY DEF Applies
  <1>2. F[1] \in Nat /\ T[1] \in Seq(Sorts) /\ Suited(vals, T[1], K)
    BY <1>1, FirstStep
  <1>3. /\ Len(vals) = F[1] + Len(sig.takes) /\ Len(sig.takes) \in Nat
        /\ \A i \in 1..Len(sig.takes) : Suits(vals[F[1] + i], sig.takes[i], K)
    BY <1>1, <1>2, Taken
  <1> DEFINE n == Len(vals)
             m == Len(sig.takes)
  <1>4. n - m = F[1] /\ n \in Nat /\ m \in Nat /\ m <= n
    <2>1. n = F[1] + m /\ m \in Nat
      BY <1>3
    <2> HIDE DEF n, m
    <2>2. QED
      BY <1>2, <2>1
  <1>5. \A i \in 1..m : Suits(vals[(n - m) + i], sig.takes[i], K)
    BY <1>3, <1>4
  <1>6. QED
    BY <1>4, <1>5

\* What is left to do behind the first step ends as well as before.
LEMMA EndsLate ==
    ASSUME NEW do, NEW text, IsSeq(do), EndsWell(do, text), Len(do) > 0,
           do[1].op \notin {"remainder", "add"}, do[1].op # "run" \/ Len(do) > 1
    PROVE  Finishes(do) /\ Len(do) > 1
  <1>1. Len(do) \in Nat
    BY DEF IsSeq
  <1>2. do # <<Remainder, Add>>
    <2>1. <<Remainder, Add>>[1].op = "remainder"
      BY DEF Remainder
    <2>2. QED
      BY <2>1
  <1>3. do # <<Add>> /\ do # <<>>
    <2>1. <<Add>>[1].op = "add" /\ Len(<<>>) = 0
      BY DEF Add
    <2>2. QED
      BY <2>1
  <1>4. Finishes(do)
    BY <1>2, <1>3 DEF EndsWell
  <1>5. QED
    BY <1>1, <1>4 DEF Finishes

LEMMA EndsBehind ==
    ASSUME NEW do, NEW do1, IsSeq(do), IsSeq(do1), Finishes(do), Len(do) > 1, NEW text
    PROVE  EndsWell(do1 \o Tail(do), text) /\ EndsWell(Tail(do), text)
  <1>1. /\ IsSeq(Tail(do)) /\ Len(Tail(do)) = Len(do) - 1 /\ Len(do) \in Nat
        /\ \A i \in 1..(Len(do) - 1) : Tail(do)[i] = do[i + 1]
    BY TailIs DEF IsSeq
  <1>2. Len(do) - 1 \in 1..(Len(do) - 1) /\ (Len(do) - 1) + 1 = Len(do)
    BY <1>1
  <1>3. Tail(do)[Len(do) - 1] = do[Len(do)]
    BY <1>1, <1>2
  <1>4. Finishes(Tail(do))
    BY <1>1, <1>2, <1>3 DEF Finishes
  <1>5. /\ Len(do1 \o Tail(do)) = Len(do1) + Len(Tail(do)) /\ Len(do1) \in Nat
        /\ \A i \in 1..Len(Tail(do)) : (do1 \o Tail(do))[Len(do1) + i] = Tail(do)[i]
    BY <1>1, ConcatIs DEF IsSeq
  <1>6. Finishes(do1 \o Tail(do))
    <2>1. (do1 \o Tail(do))[Len(do1 \o Tail(do))] = Tail(do)[Len(Tail(do))]
      BY <1>1, <1>2, <1>5
    <2>2. Len(do1 \o Tail(do)) > 0
      BY <1>1, <1>2, <1>5
    <2>3. QED
      BY <1>4, <2>1, <2>2 DEF Finishes
  <1>7. QED
    BY <1>4, <1>6 DEF EndsWell

LEMMA EndsNext ==
    ASSUME NEW do, NEW text, NEW text2, IsSeq(do), EndsWell(do, text), Len(do) > 0,
           do[1].op \notin {"remainder", "run"}, text2 = text \/ do[1].op # "add"
    PROVE  EndsWell(Tail(do), text2)
  <1>1. CASE do[1].op # "add"
    BY <1>1, EmptyIs, EndsLate, EndsBehind
  <1>2. CASE do[1].op = "add"
    <2>1. do # <<Remainder, Add>>
      <3>1. <<Remainder, Add>>[1].op = "remainder"
        BY DEF Remainder
      <3>2. QED
        BY <3>1
    <2>2. CASE do = <<Add>>
      <3>1. Tail(<<Add>>) = <<>>
        OBVIOUS
      <3>2. ~Finishes(<<Add>>)
        <4>1. <<Add>>[1].op = "add" /\ Len(<<Add>>) = 1
          BY DEF Add
        <4>2. QED
          BY <4>1 DEF Finishes
      <3>3. text = <<END>>
        BY <2>1, <2>2, <3>2 DEF EndsWell
      <3>4. QED
        BY <1>2, <2>2, <3>1, <3>3 DEF EndsWell
    <2>3. CASE do # <<Add>>
      <3>1. Finishes(do)
        BY <2>1, <2>3 DEF EndsWell
      <3>2. Len(do) > 1
        <4>1. Len(do) \in Nat
          BY DEF IsSeq
        <4>2. QED
          BY <1>2, <3>1, <4>1 DEF Finishes
      <3>3. QED
        BY <3>1, <3>2, EmptyIs, EndsBehind
    <2>4. QED
      BY <2>2, <2>3
  <1>3. QED
    BY <1>1, <1>2

LEMMA SoundNext ==
    ASSUME NEW do, NEW do1, IsSeq(do), IsSeq(do1), Len(do) > 0, AllSound(do), AllSound(do1)
    PROVE  /\ IsSeq(Tail(do)) /\ AllSound(Tail(do))
           /\ IsSeq(do1 \o Tail(do)) /\ AllSound(do1 \o Tail(do))
  <1>1. /\ IsSeq(Tail(do)) /\ Len(Tail(do)) = Len(do) - 1 /\ Len(do) \in Nat
        /\ \A i \in 1..(Len(do) - 1) : Tail(do)[i] = do[i + 1]
    BY TailIs DEF IsSeq
  <1>2. AllSound(Tail(do))
    <2>1. ASSUME NEW i \in 1..(Len(do) - 1) PROVE i + 1 \in 1..Len(do)
      BY <1>1
    <2>2. QED
      BY <1>1, <2>1 DEF AllSound
  <1> DEFINE rest == Tail(do)
             n == Len(do1)
             r == Len(Tail(do))
  <1>3. n \in Nat /\ r \in Nat
    BY <1>1 DEF IsSeq
  <1>4. /\ IsSeq(do1 \o rest) /\ Len(do1 \o rest) = n + r
        /\ \A i \in 1..n : (do1 \o rest)[i] = do1[i]
        /\ \A i \in 1..r : (do1 \o rest)[n + i] = rest[i]
    BY <1>1, ConcatIs
  <1>5. ASSUME NEW i \in 1..(n + r) PROVE Sound((do1 \o rest)[i])
    <2>1. CASE i <= n
      <3>1. i \in 1..n
        BY <1>3, <2>1
      <3>2. QED
        BY <1>4, <3>1 DEF AllSound
    <2>2. CASE ~(i <= n)
      <3>1. i - n \in 1..r /\ n + (i - n) = i
        BY <1>3, <2>2
      <3>2. (do1 \o rest)[i] = rest[i - n] /\ Sound(rest[i - n])
        BY <1>2, <1>4, <3>1 DEF AllSound
      <3>3. QED
        BY <3>2
    <2>3. QED
      BY <2>1, <2>2
  <1>6. QED
    BY <1>1, <1>2, <1>4, <1>5 DEF AllSound

\* A step is done: it leaves what its signature says and is gone from the agenda.
LEMMA Done ==
    ASSUME NEW do, NEW vals, NEW ks, NEW text, Working(do, vals, ks, text), Len(do) > 0,
           NEW sig, Applies(do, vals, Nodes(ks), sig),
           NEW text2, EndsWell(Tail(do), text2),
           NEW ks2, Nodes(ks) \subseteq Nodes(ks2) \/ AtRoot(do[1]),
           NEW vals2, IsSeq(vals2),
           Len(vals2) = (Len(vals) - Len(sig.takes)) + Len(sig.leaves),
           \A i \in 1..(Len(vals) - Len(sig.takes)) : vals2[i] = vals[i],
           \A i \in 1..Len(sig.leaves) :
               Suits(vals2[(Len(vals) - Len(sig.takes)) + i], sig.leaves[i], Nodes(ks2))
    PROVE  Working(Tail(do), vals2, ks2, text2)
  <1>1. PICK T, F : Track(do, vals, Nodes(ks), T, F) /\ Matches(sig, F[1], T[1], T[2])
    BY DEF Applies
  <1>2. /\ F[1] \in Nat /\ T[1] \in Seq(Sorts) /\ T[2] \in Seq(Sorts)
        /\ Suited(vals, T[1], Nodes(ks)) /\ StepTyped(do[1], F[1], T[1], T[2])
        /\ Len(do) \in Nat
    BY <1>1, FirstStep
  <1>3. Len(vals) - Len(sig.takes) = F[1]
    <2>1. Len(vals) = F[1] + Len(sig.takes) /\ Len(sig.takes) \in Nat
      BY <1>1, <1>2, Taken
    <2>2. QED
      BY <1>2, <2>1
  <1>4. Nodes(ks) \subseteq Nodes(ks2) \/ F[1] = 0
    BY <1>2 DEF StepTyped
  <1>5. Suited(vals2, T[2], Nodes(ks2))
    <2> DEFINE f == F[1]
               L == Nodes(ks2)
               K == Nodes(ks)
               X == T[1]
               Y == T[2]
    <2>1. /\ Len(vals2) = f + Len(sig.leaves)
          /\ \A i \in 1..f : vals2[i] = vals[i]
          /\ \A i \in 1..Len(sig.leaves) : Suits(vals2[f + i], sig.leaves[i], L)
      BY <1>3
    <2>2. f \in Nat /\ (K \subseteq L \/ f = 0) /\ Matches(sig, f, X, Y)
      BY <1>1, <1>2, <1>4
    <2>3. X \in Seq(Sorts) /\ Y \in Seq(Sorts) /\ Suited(vals, X, K)
      BY <1>2
    <2> HIDE DEF f, L, K, X, Y
    <2>4. Suited(vals2, Y, L)
      BY ONLY <2>1, <2>2, <2>3, Left
    <2>5. QED
      BY <2>4 DEF L, Y
  <1>6. /\ IsSeq(Tail(do)) /\ AllSound(Tail(do)) /\ IsSeq(do)
    BY EmptyIs, SoundNext DEF Working, AllSound
  <1>7. /\ Len(Tail(do)) = Len(do) - 1
        /\ \A i \in 1..(Len(do) - 1) : Tail(do)[i] = do[1 + i]
    BY <1>6, TailIs
  <1>8. 1 \in 0..Len(do) /\ 1 + 1 = 2
    BY <1>2
  <1>9. \E T2, F2 : Track(Tail(do), vals2, Nodes(ks2), T2, F2)
    <2> DEFINE m == 1
    <2>1. m \in 0..Len(do) /\ Suited(vals2, T[m + 1], Nodes(ks2))
      BY <1>5, <1>8
    <2>2. Len(Tail(do)) = Len(do) - m /\ \A i \in 1..(Len(do) - m) : Tail(do)[i] = do[m + i]
      BY <1>7
    <2> HIDE DEF m
    <2>3. QED
      BY <1>1, <1>6, <2>1, <2>2, Dropped
  <1>10. QED
    BY <1>6, <1>9 DEF Working

\* The most common case: one node comes on top of what remains.
LEMMA DoneOne ==
    ASSUME NEW do, NEW vals, NEW ks, NEW text, Working(do, vals, ks, text), Len(do) > 0,
           NEW sig, Applies(do, vals, Nodes(ks), sig),
           NEW s, sig.leaves = <<s>>,
           NEW text2, EndsWell(Tail(do), text2),
           NEW ks2, Nodes(ks) \subseteq Nodes(ks2) \/ AtRoot(do[1]),
           NEW base, IsSeq(base), Len(base) = Len(vals) - Len(sig.takes),
           \A i \in 1..Len(base) : base[i] = vals[i],
           NEW new, Suits(new, s, Nodes(ks2))
    PROVE  Working(Tail(do), Append(base, new), ks2, text2)
  <1> DEFINE vals2 == Append(base, new)
             f == Len(base)
  <1>1. /\ IsSeq(vals2) /\ Len(vals2) = f + 1 /\ vals2[f + 1] = new
        /\ \A i \in 1..f : vals2[i] = base[i]
    <2>1. IsSeq(base)
      OBVIOUS
    <2>2. QED
      BY ONLY <2>1, AppendIs
  <1>2. Len(sig.leaves) = 1 /\ sig.leaves[1] = s
    BY OneIs
  <1> HIDE DEF vals2, f
  <1>3. f = Len(vals) - Len(sig.takes) /\ \A i \in 1..f : vals2[i] = vals[i]
    BY <1>1 DEF f
  <1>4. ASSUME NEW i \in 1..1 PROVE Suits(vals2[f + i], sig.leaves[i], Nodes(ks2))
    BY <1>1, <1>2
  <1>5. Working(Tail(do), vals2, ks2, text2)
    BY <1>1, <1>2, <1>3, <1>4, Done
  <1>6. QED
    BY <1>5 DEF vals2

\* A step becomes others, typed as it is.
LEMMA Unrolled ==
    ASSUME NEW do, NEW vals, NEW ks, NEW text, Working(do, vals, ks, text), Len(do) > 0,
           NEW sig, Applies(do, vals, Nodes(ks), sig),
           NEW do1, RowTyped(do1, sig.takes, sig.leaves), AllSound(do1),
           \A i \in 1..Len(do1) : do1[i].op # "guard" /\ (AtRoot(do1[i]) => AtRoot(do[1])),
           NEW text2, EndsWell(do1 \o Tail(do), text2)
    PROVE  Working(do1 \o Tail(do), vals, ks, text2)
  <1>1. PICK T, F : Track(do, vals, Nodes(ks), T, F) /\ Matches(sig, F[1], T[1], T[2])
    BY DEF Applies
  <1>2. StepTyped(do[1], F[1], T[1], T[2])
    BY <1>1, FirstStep
  <1>3. \A i \in 1..Len(do1) : do1[i].op # "guard" /\ (AtRoot(do1[i]) => F[1] = 0)
    BY <1>2 DEF StepTyped
  <1>4. \E T2, F2 : Track(do1 \o Tail(do), vals, Nodes(ks), T2, F2)
    BY <1>1, <1>3, Unfolded
  <1>5. IsSeq(do1)
    BY DEF RowTyped, TypedBetween, Typed
  <1>6. IsSeq(do1 \o Tail(do)) /\ AllSound(do1 \o Tail(do))
    BY <1>5, SoundNext DEF Working
  <1>7. QED
    BY <1>4, <1>6 DEF Working

\* A failure that is handled: the steps up to the guard are given up, and the nodes made
\* since it was set.
LEMMA Resumed ==
    ASSUME NEW do, NEW vals, NEW ks, NEW text, Working(do, vals, ks, text),
           NEW g \in 1..Len(do), Resumes(do[g])
    PROVE  Working(SubSeq(do, g + 1, Len(do)), SubSeq(vals, 1, do[g].depth), ks, text)
  <1>1. PICK T, F : Track(do, vals, Nodes(ks), T, F)
    BY DEF Working
  <1> DEFINE n == Len(do)
             depth == do[g].depth
             do2 == SubSeq(do, g + 1, n)
             vals2 == SubSeq(vals, 1, depth)
             K == Nodes(ks)
  <1>2. n \in Nat /\ g \in Nat /\ IsSeq(do) /\ IsSeq(vals)
    BY DEF Working, IsSeq
  <1>3. g \in 1..n /\ 1 \in 1..g /\ 1 \in 1..(n + 1) /\ g + 1 \in 1..(n + 1)
    BY <1>2
  <1>4. /\ T[1] \in Seq(Sorts) /\ T[g + 1] \in Seq(Sorts) /\ Len(T[1]) \in Nat
        /\ StepTyped(do[g], F[g], T[g], T[g + 1])
    BY <1>1, <1>3, TypedFacts DEF Track
  <1>5. /\ depth \in Nat /\ depth <= Len(T[1]) /\ depth = Len(T[g + 1])
        /\ \A i \in 1..depth : Widens(T[1][i], T[g + 1][i])
    <2>1. GuardsHold(do, T, F)
      BY <1>1 DEF Track
    <2>2. depth = Len(T[g + 1])
      BY <1>4 DEF StepTyped, Resumes
    <2>3. QED
      BY <1>3, <2>1, <2>2 DEF GuardsHold
  <1>6. Len(vals) = Len(T[1]) /\ \A i \in 1..Len(T[1]) : Suits(vals[i], T[1][i], K)
    BY <1>1 DEF Track, Suited
  <1>7. /\ IsSeq(vals2) /\ Len(vals2) = depth
        /\ \A i \in 1..depth : vals2[i] = vals[i]
    <2> HIDE DEF depth
    <2>1. QED
      BY <1>2, <1>5, <1>6, PrefixIs
  <1>8. Suited(vals2, T[g + 1], K)
    <2> HIDE DEF vals2, depth, K
    <2>1. ASSUME NEW i \in 1..depth PROVE Suits(vals2[i], T[g + 1][i], K)
      <3>1. i \in 1..Len(T[1])
        BY <1>4, <1>5
      <3>2. Suits(vals[i], T[1][i], K) /\ Widens(T[1][i], T[g + 1][i]) /\ vals2[i] = vals[i]
        BY <1>5, <1>6, <1>7, <3>1
      <3>3. QED
        BY <3>2, SuitsWider
    <2>2. QED
      BY <1>5, <1>7, <2>1 DEF Suited
  <1>9. /\ IsSeq(do2) /\ Len(do2) = n - g
        /\ \A i \in 1..(n - g) : do2[i] = do[g + i]
    <2>1. /\ 1 <= g + 1 /\ g + 1 <= n + 1 /\ n <= Len(do) /\ g + 1 \in Nat
          /\ n - (g + 1) + 1 = n - g
      BY <1>2, <1>3
    <2>2. /\ IsSeq(SubSeq(do, g + 1, n)) /\ Len(SubSeq(do, g + 1, n)) = n - (g + 1) + 1
          /\ \A i \in 1..(n - (g + 1) + 1) : SubSeq(do, g + 1, n)[i] = do[(g + 1) + i - 1]
      BY ONLY <1>2, <2>1, SubIs
    <2>3. \A i \in 1..(n - g) : (g + 1) + i - 1 = g + i
      BY <1>2
    <2>4. QED
      BY <2>1, <2>2, <2>3
  <1>10. g \in 0..n
    BY <1>2
  <1> HIDE DEF do2, vals2, depth
  <1>11. \E T2, F2 : Track(do2, vals2, K, T2, F2)
    BY <1>1, <1>8, <1>9, <1>10, Dropped
  <1>12. AllSound(do2)
    <2>1. ASSUME NEW i \in 1..(n - g) PROVE g + i \in 1..n
      BY <1>2
    <2>2. QED
      BY <1>9, <2>1 DEF AllSound, Working
  <1>13. Finishes(do) /\ g < n
    <2>1. do # <<Remainder, Add>> /\ do # <<Add>> /\ do # <<>>
      <3>1. /\ Len(<<Remainder, Add>>) = 2 /\ Len(<<Add>>) = 1 /\ Len(<<>>) = 0
            /\ <<Remainder, Add>>[1].op = "remainder" /\ <<Remainder, Add>>[2].op = "add"
            /\ <<Add>>[1].op = "add"
        BY DEF Remainder, Add
      <3>2. do[g].op = "guard"
        BY DEF Resumes
      <3>3. QED
        BY <1>2, <1>3, <3>1, <3>2
    <2>2. Finishes(do)
      BY <2>1 DEF Working, EndsWell
    <2>3. g # n
      BY <2>2 DEF Finishes, Resumes
    <2>4. QED
      BY <1>2, <1>3, <2>2, <2>3
  <1>14. EndsWell(do2, text)
    <2>1. n - g \in 1..(n - g) /\ g + (n - g) = n
      BY <1>2, <1>13
    <2>2. do2[Len(do2)] = do[n] /\ Len(do2) > 0
      BY <1>9, <2>1
    <2>3. QED
      BY <1>13, <2>2 DEF Finishes, EndsWell
  <1>15. Working(do2, vals2, ks, text)
    BY <1>7, <1>9, <1>11, <1>12, <1>14 DEF Working
  <1>16. QED
    BY <1>15 DEF do2, vals2, depth

--------------------------------------------------------------------------------
(* The invariant of the parser: while it works, there are stacks of sorts        *)
(* between the steps of the agenda, the nodes suit the first of these, and every *)
(* substitution was remembered behind what it mentions.                          *)

WellEnded(text) == IsSeq(text) /\ \A i \in 1..Len(text) : text[i] = END => i = Len(text)

\* What a declaration mentions was remembered before it.
Ordered(ks) ==
    /\ IsSeq(ks)
    /\ \A i \in 1..Len(ks) :
           Formed(ks[i]) /\ \A u \in Nodes(ks[i].kids) : Known(u, {ks[j] : j \in 1..(i - 1)})

ParserInv ==
    /\ scenario \in Scenarios /\ room \in Nat /\ room <= scenario.room
    /\ WellEnded(ahead) /\ Ordered(subs)
    /\ outcome \in Outcomes
    /\ outcome = "running" => Working(agenda, values, subs, ahead)
    /\ outcome = "tree" => ahead = <<END>> /\ Suited(values, <<"global">>, Nodes(subs))

LEMMA Onward ==
    ASSUME ParserInv, outcome = "running", outcome' = outcome, scenario' = scenario,
           room' \in Nat, room' <= room, WellEnded(ahead'), Ordered(subs'),
           Working(agenda', values', subs', ahead')
    PROVE  ParserInv'
  <1>1. room' <= scenario.room
    <2>1. scenario.room \in Nat
      BY ScenariosAssumption DEF ParserInv
    <2>2. QED
      BY <2>1 DEF ParserInv
  <1>2. QED
    BY <1>1 DEF ParserInv

LEMMA Selected ==
    ASSUME NEW s, IsSeq(s), NEW at, at = SelectInSeq(s, IsGuard)
    PROVE  at # 0 => at \in 1..Len(s) /\ IsGuard(s[at])
  <1> DEFINE found == {i \in 1..Len(s) : IsGuard(s[i])}
  <1>1. at = IF found # {} THEN Min(found) ELSE 0
    BY DEF SelectInSeq
  <1>2. found \in SUBSET Nat
    OBVIOUS
  <1>3. found # {} => Min(found) \in found
    BY <1>2, MinOfNat
  <1>4. QED
    BY <1>1, <1>3

\* "return nullptr"
LEMMA FailedKeeps ==
    ASSUME ParserInv, outcome = "running", Failed, UNCHANGED input
    PROVE  ParserInv'
  <1> DEFINE at == SelectInSeq(agenda, IsGuard)
             resumed == at # 0 /\ agenda[at].failing = "resume"
  <1>1. IsSeq(agenda) /\ AllSound(agenda) /\ Working(agenda, values, subs, ahead)
    BY DEF ParserInv, Working
  <1>2. at # 0 => at \in 1..Len(agenda) /\ agenda[at].op = "guard"
    BY <1>1, Selected DEF IsGuard
  <1>3. /\ IF resumed
           THEN /\ agenda' = SubSeq(agenda, at + 1, Len(agenda))
                /\ values' = SubSeq(values, 1, agenda[at].depth)
                /\ UNCHANGED outcome
           ELSE /\ Stop(IF at = 0 THEN "null" ELSE agenda[at].failing)
                /\ UNCHANGED values
        /\ UNCHANGED subs
    BY DEF Failed
  <1> HIDE DEF at
  <1>4. CASE resumed
    <2>1. Working(agenda', values', subs', ahead')
      BY <1>1, <1>2, <1>3, <1>4, Resumed DEF Resumes, input
    <2>2. QED
      BY <1>3, <1>4, <2>1, Onward DEF input, ParserInv
  <1>5. CASE ~resumed
    <2>1. outcome' = IF at = 0 THEN "null" ELSE agenda[at].failing
      BY <1>3, <1>5 DEF Stop
    <2>2. at # 0 => agenda[at].failing = "deref"
      BY <1>1, <1>2, <1>5 DEF AllSound, Sound
    <2>3. outcome' \in Outcomes /\ outcome' # "running" /\ outcome' # "tree"
      BY <2>1, <2>2 DEF Outcomes
    <2>4. QED
      BY <1>3, <2>3 DEF ParserInv, input
  <1>6. QED
    BY <1>4, <1>5

--------------------------------------------------------------------------------
(* The steps one by one.                                                         *)

LEMMA AtWork ==
    ASSUME ParserInv, outcome = "running", agenda # <<>>
    PROVE  /\ Working(agenda, values, subs, ahead) /\ EndsWell(agenda, ahead)
           /\ IsSeq(agenda) /\ IsSeq(values) /\ Len(agenda) \in Nat /\ Len(agenda) > 0
           /\ Sound(agenda[1])
  <1>1. Working(agenda, values, subs, ahead) /\ IsSeq(agenda)
    BY DEF ParserInv, Working
  <1>2. Len(agenda) \in Nat /\ Len(agenda) > 0
    <2>1. PICK S : agenda \in Seq(S)
      BY <1>1, IsSeqIn
    <2>2. QED
      BY <2>1
  <1>3. QED
    BY <1>1, <1>2 DEF Working, AllSound

\* What the steps have in common that only work on the nodes.
LEMMA Replaced ==
    ASSUME ParserInv, outcome = "running", agenda' = Tail(agenda), UNCHANGED <<input, subs, outcome>>,
           Working(Tail(agenda), values', subs, ahead)
    PROVE  ParserInv'
  <1>1. room <= room
    BY DEF ParserInv
  <1>2. QED
    BY <1>1, Onward DEF input, ParserInv

\* They replace the topmost node,
LEMMA TopReplaced ==
    ASSUME ParserInv, outcome = "running", agenda # <<>>,
           agenda[1].op \notin {"run", "remainder", "add"},
           NEW r, NEW s, Applies(agenda, values, Nodes(subs), From(<<r>>, <<s>>))
    PROVE  /\ Len(values) \in Nat /\ Len(values) > 0 /\ Suits(Top, r, Nodes(subs))
           /\ \A new, text : Suits(new, s, Nodes(subs)) =>
                  Working(Tail(agenda), Append(Below, new), subs, text)
  <1> DEFINE sig == From(<<r>>, <<s>>)
             K == Nodes(subs)
  <1>1. Working(agenda, values, subs, ahead) /\ EndsWell(agenda, ahead) /\ IsSeq(agenda)
        /\ IsSeq(values) /\ Len(agenda) > 0
    BY AtWork
  <1>2. sig.takes = <<r>> /\ sig.leaves = <<s>> /\ Len(<<r>>) = 1 /\ <<r>>[1] = r
    BY DEF From
  <1> HIDE DEF sig, K
  <1>3. Len(values) \in Nat /\ 1 <= Len(values) /\ Suits(values[(Len(values) - 1) + 1], r, K)
    <2>1. Applies(agenda, values, K, sig)
      BY DEF sig, K
    <2>2. /\ Len(values) \in Nat /\ Len(sig.takes) <= Len(values)
          /\ \A i \in 1..Len(sig.takes) :
                 Suits(values[(Len(values) - Len(sig.takes)) + i], sig.takes[i], K)
      BY <1>1, <2>1, Found
    <2>3. 1 \in 1..Len(sig.takes)
      BY <1>2
    <2>4. QED
      BY <1>2, <2>2, <2>3
  <1>4. (Len(values) - 1) + 1 = Len(values)
    BY <1>3
  <1>5. IsSeq(Below) /\ Len(Below) = Len(values) - 1 /\ \A i \in 1..Len(Below) : Below[i] = values[i]
    <2>1. Len(values) - 1 \in Nat /\ Len(values) - 1 <= Len(values)
      BY <1>3
    <2>2. QED
      BY <1>1, <2>1, PrefixIs DEF Below
  <1>6. ASSUME NEW new, NEW text, Suits(new, s, K)
        PROVE  Working(Tail(agenda), Append(Below, new), subs, text)
    <2>1. EndsWell(Tail(agenda), text)
      BY <1>1, EndsNext
    <2>2. Len(Below) = Len(values) - Len(sig.takes)
      BY <1>2, <1>5
    <2>3. Applies(agenda, values, Nodes(subs), sig) /\ Nodes(subs) \subseteq Nodes(subs)
      BY DEF sig
    <2>4. QED
      BY <1>1, <1>2, <1>5, <1>6, <2>1, <2>2, <2>3, DoneOne DEF K
  <1>7. QED
    BY <1>3, <1>4, <1>6 DEF K, Top

\* or the two topmost ones.
LEMMA TwoReplaced ==
    ASSUME ParserInv, outcome = "running", agenda # <<>>, agenda[1].op \notin {"run", "remainder"},
           NEW q, NEW r, NEW s, Applies(agenda, values, Nodes(subs), From(<<q, r>>, <<s>>))
    PROVE  /\ Suits(Below[Len(Below)], q, Nodes(subs)) /\ Suits(Top, r, Nodes(subs))
           /\ \A new : Suits(new, s, Nodes(subs)) =>
                  Working(Tail(agenda), Append(SubSeq(Below, 1, Len(Below) - 1), new), subs, ahead)
  <1> DEFINE sig == From(<<q, r>>, <<s>>)
             K == Nodes(subs)
             base == SubSeq(Below, 1, Len(Below) - 1)
             n == Len(values)
  <1>1. Working(agenda, values, subs, ahead) /\ EndsWell(agenda, ahead) /\ IsSeq(agenda)
        /\ IsSeq(values) /\ Len(agenda) > 0
    BY AtWork
  <1>2. sig.takes = <<q, r>> /\ sig.leaves = <<s>> /\ Len(<<q, r>>) = 2 /\ <<q, r>>[1] = q
        /\ <<q, r>>[2] = r
    BY DEF From
  <1> HIDE DEF sig, K
  <1>3. n \in Nat /\ 2 <= n /\ \A i \in 1..2 : Suits(values[(n - 2) + i], <<q, r>>[i], K)
    BY <1>1, <1>2, Found DEF sig, K
  <1>4. Suits(values[n - 1], q, K) /\ Suits(values[n], r, K)
    <2>1. (n - 2) + 1 = n - 1 /\ (n - 2) + 2 = n
      BY <1>3
    <2>2. 1 \in 1..2 /\ 2 \in 1..2
      OBVIOUS
    <2>3. QED
      BY <1>2, <1>3, <2>1, <2>2
  <1>5. IsSeq(Below) /\ Len(Below) = n - 1 /\ \A i \in 1..(n - 1) : Below[i] = values[i]
    <2>1. n - 1 \in Nat /\ n - 1 <= n
      BY <1>3
    <2>2. QED
      BY <1>1, <2>1, PrefixIs DEF Below
  <1>6. IsSeq(base) /\ Len(base) = n - 2 /\ \A i \in 1..Len(base) : base[i] = values[i]
    <2> HIDE DEF n
    <2>1. Len(Below) - 1 = n - 2 /\ n - 2 \in Nat /\ n - 2 <= Len(Below)
      BY <1>3, <1>5
    <2>2. /\ IsSeq(SubSeq(Below, 1, n - 2)) /\ Len(SubSeq(Below, 1, n - 2)) = n - 2
          /\ \A i \in 1..(n - 2) : SubSeq(Below, 1, n - 2)[i] = Below[i]
      BY <1>5, <2>1, PrefixIs
    <2>3. \A i \in 1..(n - 2) : i \in 1..(n - 1)
      BY <1>3
    <2>4. QED
      BY <1>5, <2>1, <2>2, <2>3
  <1>7. Below[Len(Below)] = values[n - 1]
    <2>1. n - 1 \in 1..(n - 1)
      BY <1>3
    <2>2. QED
      BY <1>5, <2>1
  <1> HIDE DEF base
  <1>8. ASSUME NEW new, Suits(new, s, K)
        PROVE  Working(Tail(agenda), Append(base, new), subs, ahead)
    <2>1. EndsWell(Tail(agenda), ahead)
      BY <1>1, EndsNext
    <2>2. Len(base) = Len(values) - Len(sig.takes) /\ sig.leaves = <<s>>
      BY <1>2, <1>6
    <2>3. Applies(agenda, values, Nodes(subs), sig) /\ Nodes(subs) \subseteq Nodes(subs)
      BY DEF sig
    <2>4. Suits(new, s, Nodes(subs))
      BY <1>8 DEF K
    <2>5. IsSeq(base) /\ \A i \in 1..Len(base) : base[i] = values[i]
      BY <1>6
    <2> HIDE DEF n
    <2>6. QED
      BY <1>1, <2>1, <2>2, <2>3, <2>4, <2>5, DoneOne
  <1>9. QED
    BY <1>4, <1>7, <1>8 DEF K, Top, base

LEMMA createKeeps ==
    ASSUME ParserInv, create
    PROVE  ParserInv'
  <1> DEFINE node == Step.node
             sig == New1(SortOf(node))
  <1>1. outcome = "running" /\ agenda # <<>> /\ agenda[1].op = "push"
        /\ agenda' = Tail(agenda) /\ values' = Append(values, node)
        /\ UNCHANGED <<input, subs, outcome>>
    BY DEF create, Op, Step, Replace
  <1>2. Working(agenda, values, subs, ahead) /\ EndsWell(agenda, ahead) /\ IsSeq(agenda)
        /\ IsSeq(values) /\ Len(agenda) > 0 /\ Sound(agenda[1])
    BY <1>1, AtWork
  <1>3. Signatures(agenda[1]) = <<sig>>
    BY <1>1 DEF Signatures, Step
  <1>4. Suits(node, SortOf(node), Nodes(subs))
    BY <1>1, <1>2, PushSuits DEF Sound, Basic, Step
  <1>5. sig.takes = <<>> /\ sig.leaves = <<SortOf(node)>> /\ Len(<<>>) = 0
    BY DEF New1, From
  <1> HIDE DEF sig, node
  <1>6. Applies(agenda, values, Nodes(subs), sig)
    BY <1>1, <1>2, <1>3, OnlyOne DEF Ending
  <1>7. EndsWell(Tail(agenda), ahead)
    BY <1>1, <1>2, EndsNext
  <1>8. Len(values) = Len(values) - Len(sig.takes) /\ \A i \in 1..Len(values) : values[i] = values[i]
    BY <1>2, <1>5 DEF IsSeq
  <1>9. Working(Tail(agenda), Append(values, node), subs, ahead)
    BY <1>2, <1>4, <1>5, <1>6, <1>7, <1>8, DoneOne
  <1>10. QED
    BY <1>1, <1>9, Replaced

\* addChild() keeps the sort of the parent.
LEMMA AddedSuits ==
    ASSUME NEW t, NEW u, NEW q, NEW r, NEW K, Suits(t, q, K), Suits(u, r, K),
           \/ q = "plain" /\ r = "node"
           \/ q = "header" /\ r = "node"
           \/ q = "headed" /\ r = "header"
           \/ q = "global" /\ r = "node"
           \/ q = "fresh" /\ r = "node"
    PROVE  Suits(addChild(t, u), q, K)
  <1> DEFINE added == addChild(t, u)
  <1>1. Formed(added) /\ added.kind = t.kind /\ Nodes(added.kids) = Nodes(t.kids) \cup {u}
    <2>1. Formed(t)
      BY DEF Suits
    <2>2. QED
      BY <2>1, ChildAdded
  <1> HIDE DEF added
  <1>2. CASE q = "plain"
    <2>1. t.kind \notin Substitutable /\ Known(t, K) /\ Known(u, K)
      BY <1>2 DEF Suits
    <2>2. ~Indexed(added)
      BY <1>1, <2>1 DEF Indexed
    <2>3. \A w \in Nodes(added.kids) : Known(w, K)
      BY <1>1, <2>1, KnownParts
    <2>4. Known(added, K)
      BY <2>2, <2>3, KnownByParts
    <2>5. QED
      BY <1>1, <1>2, <2>1, <2>4 DEF Suits, Sorts, added
  <1>3. CASE q = "header"
    BY <1>1, <1>3 DEF Suits, Sorts, added
  <1>4. CASE q = "headed"
    <2>1. u.kind \in Headers_
      BY <1>4 DEF Suits, Headers_
    <2>2. QED
      BY <1>1, <1>4, <2>1 DEF Suits, Sorts, added
  <1>5. CASE q = "global"
    BY <1>1, <1>5 DEF Suits, Sorts, added
  <1>6. CASE q = "fresh"
    BY <1>1, <1>6 DEF Suits, Sorts, added
  <1>7. QED
    BY <1>2, <1>3, <1>4, <1>5, <1>6

LEMMA AddChildKeeps ==
    ASSUME ParserInv, AddChild
    PROVE  ParserInv'
  <1> DEFINE new == addChild(Below[Len(Below)], Top)
             base == SubSeq(Below, 1, Len(Below) - 1)
             K == Nodes(subs)
  <1>1. outcome = "running" /\ agenda # <<>> /\ agenda[1].op = "add"
        /\ agenda' = Tail(agenda) /\ values' = Append(base, new)
        /\ UNCHANGED <<input, subs, outcome>>
    BY DEF AddChild, Op, Step, Replace
  <1>2. Working(agenda, values, subs, ahead) /\ Len(agenda) > 0
    BY <1>1, AtWork
  <1>3. Signatures(agenda[1]) = <<From(<<"plain", "node">>, <<"plain">>),
                                  From(<<"header", "node">>, <<"header">>),
                                  From(<<"headed", "header">>, <<"headed">>),
                                  From(<<"global", "node">>, <<"global">>)>>
    BY <1>1 DEF Signatures
  <1>4. \E q, r : /\ Applies(agenda, values, K, From(<<q, r>>, <<q>>))
                  /\ \/ q = "plain" /\ r = "node"
                     \/ q = "header" /\ r = "node"
                     \/ q = "headed" /\ r = "header"
                     \/ q = "global" /\ r = "node"
    <2>1. PICK k \in 1..Len(Signatures(agenda[1])) : Applies(agenda, values, K, Signatures(agenda[1])[k])
      BY <1>1, <1>2, StepApplies DEF Ending
    <2> DEFINE a == From(<<"plain", "node">>, <<"plain">>)
               b == From(<<"header", "node">>, <<"header">>)
               c == From(<<"headed", "header">>, <<"headed">>)
               d == From(<<"global", "node">>, <<"global">>)
    <2>2. Signatures(agenda[1]) = <<a, b, c, d>>
      BY <1>3
    <2> HIDE DEF a, b, c, d
    <2>3. k = 1 \/ k = 2 \/ k = 3 \/ k = 4
      BY <2>1, <2>2
    <2>4. <<a, b, c, d>>[1] = a /\ <<a, b, c, d>>[2] = b /\ <<a, b, c, d>>[3] = c
          /\ <<a, b, c, d>>[4] = d
      OBVIOUS
    <2>5. \E sig \in {a, b, c, d} : Applies(agenda, values, K, sig)
      BY <2>1, <2>2, <2>3, <2>4
    <2> HIDE DEF K
    <2>6. QED
      BY <2>5 DEF a, b, c, d
  <1>5. PICK q, r : /\ Applies(agenda, values, K, From(<<q, r>>, <<q>>))
                    /\ \/ q = "plain" /\ r = "node"
                       \/ q = "header" /\ r = "node"
                       \/ q = "headed" /\ r = "header"
                       \/ q = "global" /\ r = "node"
    BY <1>4
  <1>6. /\ Suits(Below[Len(Below)], q, K) /\ Suits(Top, r, K)
        /\ \A x : Suits(x, q, K) => Working(Tail(agenda), Append(base, x), subs, ahead)
    BY <1>1, <1>5, TwoReplaced
  <1>7. Suits(new, q, K)
    BY <1>5, <1>6, AddedSuits
  <1> HIDE DEF new, base, K
  <1>8. QED
    BY <1>1, <1>6, <1>7, Replaced

LEMMA AdoptChildKeeps ==
    ASSUME ParserInv, AdoptChild
    PROVE  ParserInv'
  <1> DEFINE new == addChild(Top, Below[Len(Below)])
             base == SubSeq(Below, 1, Len(Below) - 1)
             K == Nodes(subs)
  <1>1. outcome = "running" /\ agenda # <<>> /\ agenda[1].op = "adopt"
        /\ agenda' = Tail(agenda) /\ values' = Append(base, new)
        /\ UNCHANGED <<input, subs, outcome>>
    BY DEF AdoptChild, Op, Step, Replace
  <1>2. Working(agenda, values, subs, ahead) /\ Len(agenda) > 0
    BY <1>1, AtWork
  <1>3. Signatures(agenda[1]) = <<From(<<"node", "fresh">>, <<"fresh">>)>>
    BY <1>1 DEF Signatures
  <1>4. Applies(agenda, values, K, From(<<"node", "fresh">>, <<"fresh">>))
    BY <1>1, <1>2, <1>3, OnlyOne DEF Ending
  <1>5. /\ Suits(Below[Len(Below)], "node", K) /\ Suits(Top, "fresh", K)
        /\ \A x : Suits(x, "fresh", K) => Working(Tail(agenda), Append(base, x), subs, ahead)
    BY <1>1, <1>4, TwoReplaced
  <1>6. Suits(new, "fresh", K)
    BY <1>5, AddedSuits
  <1> HIDE DEF new, base, K
  <1>7. QED
    BY <1>1, <1>5, <1>6, Replaced

LEMMA BuildNodeKeeps ==
    ASSUME ParserInv, BuildNode
    PROVE  ParserInv'
  <1> DEFINE n == Len(Step.order)
             low == Len(values) - n
             kids == [i \in 1..n |-> values[low + Step.order[i]]]
             named == Node(Step.kind, "text", archetypeName(kids[2].index, kids[1].index), 0, kids)
             node == IF Step.kind \in ParamKinds THEN named ELSE Node(Step.kind, "none", <<>>, 0, kids)
             takes == [i \in 1..n |-> "node"]
             sort == MadeOf(Step.kind, "plain")
             sig == From(takes, <<sort>>)
             base == SubSeq(values, 1, low)
             K == Nodes(subs)
  <1>1. outcome = "running" /\ agenda # <<>> /\ agenda[1].op = "build"
        /\ agenda' = Tail(agenda) /\ values' = Append(base, node)
        /\ UNCHANGED <<input, subs, outcome>>
    BY DEF BuildNode, Op, Step, Replace
  <1>2. Working(agenda, values, subs, ahead) /\ EndsWell(agenda, ahead) /\ IsSeq(agenda)
        /\ IsSeq(values) /\ Len(agenda) > 0 /\ Sound(agenda[1])
    BY <1>1, AtWork
  <1>3. n \in Nat /\ \A i \in 1..n : Step.order[i] \in 1..n
    BY <1>1, <1>2 DEF Sound, Basic, Step, IsSeq
  <1>4. Signatures(agenda[1]) = <<sig>>
    BY <1>1 DEF Signatures, Step
  <1>5. Applies(agenda, values, K, sig)
    <2> HIDE DEF sig
    <2>1. QED
      BY <1>1, <1>2, <1>4, OnlyOne DEF Ending
  <1>6. IsSeq(takes) /\ Len(takes) = n /\ \A i \in 1..n : takes[i] = "node"
    <2>1. takes \in Seq({"node"}) /\ Len(takes) = n
      <3>1. takes \in [1..n -> {"node"}]
        OBVIOUS
      <3> HIDE DEF takes
      <3>2. QED
        BY <1>3, <3>1
    <2>2. \A i \in 1..n : takes[i] = "node"
      OBVIOUS
    <2> HIDE DEF takes
    <2>3. QED
      BY <2>1, <2>2, SeqIs
  <1>7. sig.takes = takes /\ sig.leaves = <<sort>>
    BY DEF From
  <1> HIDE DEF sig, takes
  <1>8. Len(values) \in Nat /\ n <= Len(values) /\ \A i \in 1..n : Suits(values[low + i], "node", K)
    <2> HIDE DEF n, K
    <2>1. /\ Len(values) \in Nat /\ Len(sig.takes) <= Len(values)
          /\ \A i \in 1..Len(sig.takes) :
                 Suits(values[(Len(values) - Len(sig.takes)) + i], sig.takes[i], K)
      BY <1>2, <1>5, Found
    <2>2. Len(sig.takes) = n /\ \A i \in 1..n : sig.takes[i] = "node"
      BY <1>6, <1>7
    <2>3. QED
      BY <2>1, <2>2
  <1>9. IsSeq(kids) /\ Len(kids) = n /\ \A i \in 1..n : Known(kids[i], K)
    <2>1. ASSUME NEW i \in 1..n PROVE Known(kids[i], K)
      BY <1>3, <1>8 DEF Suits
    <2> DEFINE S == {kids[i] : i \in 1..n}
    <2>2. kids \in Seq(S) /\ Len(kids) = n
      <3>1. kids \in [1..n -> S]
        OBVIOUS
      <3> HIDE DEF kids
      <3>2. QED
        BY <1>3, <3>1
    <2> HIDE DEF S, kids
    <2>3. QED
      BY <2>1, <2>2, SeqIs
  <1>10. \E has, text : node = Node(Step.kind, has, text, 0, kids)
    <2> HIDE DEF kids
    <2>1. QED
      OBVIOUS
  <1> HIDE DEF node, kids
  <1>11. Suits(node, sort, K)
    <2>1. PICK has, text : node = Node(Step.kind, has, text, 0, kids)
      BY <1>10
    <2>2. Formed(node) /\ node.kind = Step.kind /\ node.kids = kids
      BY <1>9, <2>1, NodeIs
    <2>3. \A u \in Nodes(node.kids) : Known(u, K)
      <3>1. DOMAIN kids = 1..n
        BY <1>9, IsSeqIn
      <3>2. QED
        BY <1>9, <2>2, <3>1 DEF Nodes
    <2>4. CASE Step.kind \in Substitutable
      BY <2>2, <2>3, <2>4 DEF Suits, Sorts, MadeOf
    <2>5. CASE Step.kind \notin Substitutable
      <3>1. ~Indexed(node)
        BY <2>2, <2>5 DEF Indexed
      <3>2. Known(node, K)
        BY <2>3, <3>1, KnownByParts
      <3>3. QED
        BY <2>2, <2>5, <3>2 DEF Suits, Sorts, MadeOf
    <2>6. QED
      BY <2>4, <2>5
  <1>12. IsSeq(base) /\ Len(base) = low /\ \A i \in 1..low : base[i] = values[i]
    <2>1. low \in Nat /\ low <= Len(values)
      BY <1>3, <1>8
    <2> HIDE DEF low
    <2>2. QED
      BY <1>2, <2>1, PrefixIs
  <1>13. EndsWell(Tail(agenda), ahead)
    BY <1>1, <1>2, EndsNext
  <1>14. Len(base) = Len(values) - Len(sig.takes)
    BY <1>6, <1>7, <1>12
  <1> HIDE DEF base, low, n, sort
  <1>15. Working(Tail(agenda), Append(base, node), subs, ahead)
    BY <1>2, <1>5, <1>7, <1>11, <1>12, <1>13, <1>14, DoneOne DEF K
  <1>16. QED
    BY <1>1, <1>15, Replaced

LEMMA DropNodeKeeps ==
    ASSUME ParserInv, DropNode
    PROVE  ParserInv'
  <1> DEFINE sig == From(<<"fresh">>, <<>>)
             n == Len(values)
  <1>1. outcome = "running" /\ agenda # <<>> /\ agenda[1].op = "drop"
        /\ agenda' = Tail(agenda) /\ values' = Below
        /\ UNCHANGED <<input, subs, outcome>>
    BY DEF DropNode, Op, Step, Replace
  <1>2. Working(agenda, values, subs, ahead) /\ EndsWell(agenda, ahead) /\ IsSeq(agenda)
        /\ IsSeq(values) /\ Len(agenda) > 0
    BY <1>1, AtWork
  <1>3. Signatures(agenda[1]) = <<sig>>
    BY <1>1 DEF Signatures
  <1>4. sig.takes = <<"fresh">> /\ sig.leaves = <<>> /\ Len(<<"fresh">>) = 1 /\ Len(<<>>) = 0
    BY DEF From
  <1> HIDE DEF sig
  <1>5. Applies(agenda, values, Nodes(subs), sig)
    BY <1>1, <1>2, <1>3, OnlyOne DEF Ending
  <1>6. n \in Nat /\ 1 <= n
    BY <1>2, <1>4, <1>5, Found
  <1>7. IsSeq(Below) /\ Len(Below) = n - 1 /\ \A i \in 1..(n - 1) : Below[i] = values[i]
    <2>1. n - 1 \in Nat /\ n - 1 <= n
      BY <1>6
    <2>2. QED
      BY <1>2, <2>1, PrefixIs DEF Below
  <1>8. EndsWell(Tail(agenda), ahead)
    BY <1>1, <1>2, EndsNext
  <1>9. /\ Len(Below) = (Len(values) - Len(sig.takes)) + Len(sig.leaves)
        /\ \A i \in 1..(Len(values) - Len(sig.takes)) : Below[i] = values[i]
        /\ \A i \in 1..Len(sig.leaves) :
               Suits(Below[(Len(values) - Len(sig.takes)) + i], sig.leaves[i], Nodes(subs))
    BY <1>4, <1>6, <1>7
  <1>10. Working(Tail(agenda), Below, subs, ahead)
    BY <1>2, <1>5, <1>7, <1>8, <1>9, Done
  <1>11. QED
    BY <1>1, <1>10, Replaced

\* Numbers and texts have no children.
LEMMA LeafIs ==
    ASSUME NEW t, NEW K, Suits(t, "leaf", K)
    PROVE  /\ t = Node(t.kind, t.has, t.text, t.index, <<>>)
           /\ t.index \in Nat /\ t.kind \notin Substitutable
  BY DEF Suits, Formed

LEMMA LeafMade ==
    ASSUME NEW kind, NEW has, NEW text, NEW index \in Nat, NEW K, kind \notin Substitutable
    PROVE  Suits(Node(kind, has, text, index, <<>>), "leaf", K)
  BY EmptyIs, NodeIs DEF Suits, Sorts

LEMMA LeafReplaced ==
    ASSUME ParserInv, outcome = "running", agenda # <<>>,
           agenda[1].op \in {"as", "spelled", "digit", "plus", "take", "operator"}
    PROVE  /\ Top = Node(Top.kind, Top.has, Top.text, Top.index, <<>>)
           /\ Top.index \in Nat /\ Top.kind \notin Substitutable
           /\ \A kind, has, text, index, later : kind \notin Substitutable /\ index \in Nat =>
                  Working(Tail(agenda), Append(Below, Node(kind, has, text, index, <<>>)),
                          subs, later)
  <1>1. Working(agenda, values, subs, ahead) /\ Len(agenda) > 0
    BY AtWork
  <1>2. Signatures(agenda[1]) = <<Same("leaf")>>
    BY DEF Signatures
  <1>3. Applies(agenda, values, Nodes(subs), From(<<"leaf">>, <<"leaf">>))
    BY <1>1, <1>2, OnlyOne DEF Ending, Same
  <1>4. /\ Suits(Top, "leaf", Nodes(subs))
        /\ \A new, text : Suits(new, "leaf", Nodes(subs)) =>
               Working(Tail(agenda), Append(Below, new), subs, text)
    BY <1>3, TopReplaced
  <1>5. QED
    BY <1>4, LeafIs, LeafMade

LEMMA RetagKeeps ==
    ASSUME ParserInv, Retag
    PROVE  ParserInv'
  <1>1. /\ outcome = "running" /\ agenda # <<>> /\ agenda[1].op \in {"as", "spelled"}
        /\ agenda' = Tail(agenda) /\ UNCHANGED <<input, subs, outcome>>
        /\ \/ values' = Append(Below, Node(Step.kind, Top.has, Top.text, Top.index, <<>>))
           \/ values' = Append(Below, TextLeaf(Step.kind, <<"sized">>))
    BY DEF Retag, Op, Step, Replace
  <1>2. Step.kind \notin Substitutable
    BY <1>1, AtWork DEF Sound, Basic, Step
  <1>3. /\ Top = Node(Top.kind, Top.has, Top.text, Top.index, <<>>) /\ Top.index \in Nat
        /\ \A kind, has, text, index, later : kind \notin Substitutable /\ index \in Nat =>
               Working(Tail(agenda), Append(Below, Node(kind, has, text, index, <<>>)),
                       subs, later)
    BY <1>1, LeafReplaced
  <1>4. TextLeaf(Step.kind, <<"sized">>) = Node(Step.kind, "text", <<"sized">>, 0, <<>>)
    BY DEF TextLeaf
  <1>5. Working(Tail(agenda), values', subs, ahead)
    <2>1. \E has, text, index : /\ index \in Nat
                               /\ values' = Append(Below, Node(Step.kind, has, text, index, <<>>))
      BY <1>1, <1>3, <1>4
    <2>2. QED
      BY <1>2, <1>3, <2>1
  <1>6. QED
    BY <1>1, <1>5, Replaced

LEMMA ArithmeticKeeps ==
    ASSUME ParserInv, Arithmetic
    PROVE  ParserInv'
  <1>1. /\ outcome = "running" /\ agenda # <<>> /\ agenda[1].op \in {"digit", "plus"}
        /\ agenda' = Tail(agenda) /\ UNCHANGED <<input, subs, outcome>>
        /\ \/ /\ agenda[1].op = "digit"
              /\ values' = Append(Below, [Top EXCEPT !.index = 10 * @ + Step.digit])
           \/ /\ agenda[1].op = "plus"
              /\ values' = Append(Below, [Top EXCEPT !.index = @ + Step.by])
    BY DEF Arithmetic, Op, Step, Replace
  <1>2. (agenda[1].op = "digit" => Step.digit \in Nat) /\ (agenda[1].op = "plus" => Step.by \in Nat)
    BY <1>1, AtWork DEF Sound, Basic, Step
  <1>3. /\ Top = Node(Top.kind, Top.has, Top.text, Top.index, <<>>)
        /\ Top.index \in Nat /\ Top.kind \notin Substitutable
        /\ \A kind, has, text, index, later : kind \notin Substitutable /\ index \in Nat =>
               Working(Tail(agenda), Append(Below, Node(kind, has, text, index, <<>>)),
                       subs, later)
    BY <1>1, LeafReplaced
  <1>4. ASSUME NEW index
        PROVE  [Top EXCEPT !.index = index] = Node(Top.kind, Top.has, Top.text, index, <<>>)
    BY <1>3 DEF Node
  <1>5. [Top EXCEPT !.index = 10 * @ + Step.digit] = [Top EXCEPT !.index = 10 * Top.index + Step.digit]
    OBVIOUS
  <1>6. [Top EXCEPT !.index = @ + Step.by] = [Top EXCEPT !.index = Top.index + Step.by]
    OBVIOUS
  <1>7. Working(Tail(agenda), values', subs, ahead)
    <2>1. CASE agenda[1].op = "digit"
      <3>1. 10 * Top.index + Step.digit \in Nat
        BY <1>2, <1>3, <2>1
      <3>2. values' = Append(Below, Node(Top.kind, Top.has, Top.text, 10 * Top.index + Step.digit, <<>>))
        BY <1>1, <1>4, <1>5, <2>1
      <3>3. QED
        BY <1>3, <3>1, <3>2
    <2>2. CASE agenda[1].op = "plus"
      <3>1. Top.index + Step.by \in Nat
        BY <1>2, <1>3, <2>2
      <3>2. values' = Append(Below, Node(Top.kind, Top.has, Top.text, Top.index + Step.by, <<>>))
        BY <1>1, <1>4, <1>6, <2>2
      <3>3. QED
        BY <1>3, <3>1, <3>2
    <2>3. QED
      BY <1>1, <2>1, <2>2
  <1>8. QED
    BY <1>1, <1>7, Replaced

LEMMA NumberParamKeeps ==
    ASSUME ParserInv, NumberParam
    PROVE  ParserInv'
  <1> DEFINE sig == From(<<"header">>, <<"header", "plain">>)
             new == IndexLeaf(Step.kind, Len(Top.kids) - 1)
             n == Len(values)
             K == Nodes(subs)
             vals2 == Append(values, new)
  <1>1. outcome = "running" /\ agenda # <<>> /\ agenda[1].op = "numbered"
        /\ agenda' = Tail(agenda) /\ values' = vals2
        /\ UNCHANGED <<input, subs, outcome>>
    BY DEF NumberParam, Op, Step, Replace
  <1>2. Working(agenda, values, subs, ahead) /\ EndsWell(agenda, ahead) /\ IsSeq(agenda)
        /\ IsSeq(values) /\ Len(agenda) > 0 /\ Sound(agenda[1])
    BY <1>1, AtWork
  <1>3. Signatures(agenda[1]) = <<sig>>
    BY <1>1 DEF Signatures
  <1>4. /\ sig.takes = <<"header">> /\ sig.leaves = <<"header", "plain">>
        /\ Len(<<"header">>) = 1 /\ <<"header">>[1] = "header"
        /\ Len(<<"header", "plain">>) = 2
        /\ <<"header", "plain">>[1] = "header" /\ <<"header", "plain">>[2] = "plain"
    BY DEF From
  <1> HIDE DEF sig, new
  <1>5. Applies(agenda, values, K, sig)
    BY <1>1, <1>2, <1>3, OnlyOne DEF Ending
  <1>6. /\ n \in Nat /\ 1 <= n
        /\ \A i \in 1..Len(sig.takes) : Suits(values[(n - Len(sig.takes)) + i], sig.takes[i], K)
    BY <1>2, <1>4, <1>5, Found
  <1>7. Suits(values[(n - 1) + 1], "header", K)
    <2>1. 1 \in 1..Len(sig.takes)
      BY <1>4
    <2>2. QED
      BY <1>4, <1>6, <2>1
  <1>8. Suits(new, "plain", K)
    <2>1. Step.kind \notin Substitutable
      BY <1>1, <1>2 DEF Sound, Basic, Step
    <2>2. Formed(new) /\ new.kind = Step.kind /\ new.kids = <<>>
      BY EmptyIs, NodeIs DEF new, IndexLeaf
    <2>3. Known(new, K)
      BY <2>1, <2>2, LeafKnown
    <2>4. QED
      BY <2>1, <2>2, <2>3 DEF Suits, Sorts
  <1>9. /\ IsSeq(vals2) /\ Len(vals2) = n + 1 /\ vals2[n + 1] = new
        /\ \A i \in 1..n : vals2[i] = values[i]
    BY <1>2, AppendIs
  <1> HIDE DEF vals2
  <1>10. (n - 1) + 1 = n /\ (n - 1) + 2 = n + 1 /\ (n - 1) \in Nat /\ n \in 1..n
         /\ \A i \in 1..(n - 1) : i \in 1..n
    BY <1>6
  <1>11. Len(vals2) = (Len(values) - Len(sig.takes)) + Len(sig.leaves)
    BY <1>4, <1>9, <1>10
  <1>12. \A i \in 1..(Len(values) - Len(sig.takes)) : vals2[i] = values[i]
    BY <1>4, <1>9, <1>10
  <1>13. ASSUME NEW i \in 1..Len(sig.leaves)
         PROVE  Suits(vals2[(Len(values) - Len(sig.takes)) + i], sig.leaves[i], K)
    <2>1. i = 1 \/ i = 2
      BY <1>4
    <2>2. CASE i = 1
      BY <1>4, <1>7, <1>9, <1>10, <2>2
    <2>3. CASE i = 2
      BY <1>4, <1>8, <1>9, <1>10, <2>3
    <2>4. QED
      BY <2>1, <2>2, <2>3
  <1>14. EndsWell(Tail(agenda), ahead)
    BY <1>1, <1>2, EndsNext
  <1> HIDE DEF n
  <1>15. Working(Tail(agenda), vals2, subs, ahead)
    BY <1>2, <1>5, <1>9, <1>11, <1>12, <1>13, <1>14, Done
  <1>16. QED
    BY <1>1, <1>15, Replaced

--------------------------------------------------------------------------------
(* The steps that consume letters.                                               *)

LEMMA CutEnds ==
    ASSUME NEW text, WellEnded(text), NEW n \in Nat
    PROVE  WellEnded(SubSeq(text, n + 1, Len(text)))
  <1> DEFINE m == Len(text)
             rest == SubSeq(text, n + 1, m)
  <1>1. IsSeq(text) /\ m \in Nat
    BY DEF WellEnded, IsSeq
  <1>2. CASE n <= m
    <2>1. n + 1 \in Nat /\ 1 <= n + 1 /\ n + 1 <= m + 1 /\ m <= Len(text) /\ m - (n + 1) + 1 = m - n
      BY <1>1, <1>2
    <2>2. /\ IsSeq(rest) /\ Len(rest) = m - (n + 1) + 1
          /\ \A i \in 1..(m - (n + 1) + 1) : rest[i] = text[(n + 1) + i - 1]
      BY <1>1, <2>1, SubIs
    <2>3. ASSUME NEW i \in 1..(m - n), rest[i] = END PROVE i = m - n
      <3>1. (n + 1) + i - 1 = n + i /\ n + i \in 1..m
        BY <1>1, <1>2
      <3>2. text[n + i] = END
        BY <2>1, <2>2, <2>3, <3>1
      <3>3. n + i = m
        BY <3>1, <3>2 DEF WellEnded
      <3>4. QED
        BY <1>1, <3>3
    <2> HIDE DEF rest
    <2>4. WellEnded(rest)
      BY <2>1, <2>2, <2>3 DEF WellEnded
    <2>5. QED
      BY <2>4 DEF rest
  <1>3. CASE ~(n <= m)
    <2>1. PICK S : text \in Seq(S)
      BY <1>1, IsSeqIn
    <2>2. rest = <<>>
      BY <1>1, <1>3, <2>1
    <2>3. WellEnded(<<>>)
      <3>1. Len(<<>>) = 0
        OBVIOUS
      <3>2. QED
        BY <3>1, EmptyIs DEF WellEnded
    <2>4. QED
      BY <2>2, <2>3
  <1>4. QED
    BY <1>2, <1>3

\* What they have in common.
LEMMA Consumed ==
    ASSUME ParserInv, outcome = "running", NEW n \in Nat, ahead' = advanceOffset(n),
           UNCHANGED <<scenario, room, subs, outcome>>,
           Working(agenda', values', subs, ahead')
    PROVE  ParserInv'
  <1>1. WellEnded(ahead')
    BY CutEnds DEF ParserInv, advanceOffset
  <1>2. room <= room
    BY DEF ParserInv
  <1>3. QED
    BY <1>1, <1>2, Onward DEF ParserInv

LEMMA TakeLetterKeeps ==
    ASSUME ParserInv, TakeLetter
    PROVE  ParserInv'
  <1>1. outcome = "running" /\ agenda # <<>> /\ agenda[1].op = "take"
    BY DEF TakeLetter, Op, Step
  <1>2. CASE Failed /\ UNCHANGED input
    BY <1>1, <1>2, FailedKeeps
  <1> DEFINE text == Append(Top.text, ahead[1])
  <1>3. CASE /\ agenda' = Tail(agenda)
             /\ values' = Append(Below, [Top EXCEPT !.text = Append(@, ahead[1])])
             /\ ahead' = advanceOffset(1)
             /\ UNCHANGED <<scenario, room, subs, outcome>>
    <2>1. /\ Top = Node(Top.kind, Top.has, Top.text, Top.index, <<>>)
          /\ Top.index \in Nat /\ Top.kind \notin Substitutable
          /\ \A kind, has, t, index, later : kind \notin Substitutable /\ index \in Nat =>
                 Working(Tail(agenda), Append(Below, Node(kind, has, t, index, <<>>)),
                         subs, later)
      BY <1>1, LeafReplaced
    <2>2. [Top EXCEPT !.text = Append(@, ahead[1])] = [Top EXCEPT !.text = text]
      OBVIOUS
    <2> HIDE DEF text
    <2>3. [Top EXCEPT !.text = text] = Node(Top.kind, Top.has, text, Top.index, <<>>)
      BY <2>1 DEF Node
    <2>4. Working(agenda', values', subs, ahead')
      BY <1>3, <2>1, <2>2, <2>3
    <2>5. QED
      BY <1>1, <1>3, <2>4, Consumed
  <1>4. QED
    BY <1>2, <1>3 DEF TakeLetter

LEMMA SliceNameKeeps ==
    ASSUME ParserInv, SliceName
    PROVE  ParserInv'
  <1> DEFINE letters == SubSeq(ahead, 1, Top.index)
             sort == MadeOf(Step.kind, "leaf")
             K == Nodes(subs)
  <1>1. outcome = "running" /\ agenda # <<>> /\ agenda[1].op = "slice"
    BY DEF SliceName, Op, Step
  <1>2. CASE Failed /\ UNCHANGED input
    BY <1>1, <1>2, FailedKeeps
  <1>3. CASE /\ agenda' = Tail(agenda)
             /\ values' = Append(Below, TextLeaf(Step.kind, letters))
             /\ ahead' = advanceOffset(Top.index)
             /\ UNCHANGED <<scenario, room, subs, outcome>>
    <2>1. Working(agenda, values, subs, ahead) /\ Len(agenda) > 0
      BY <1>1, AtWork
    <2>2. Signatures(agenda[1]) = <<From(<<"leaf">>, <<sort>>)>>
      BY <1>1 DEF Signatures, Step
    <2> HIDE DEF sort, letters
    <2>3. Applies(agenda, values, Nodes(subs), From(<<"leaf">>, <<sort>>))
      BY <1>1, <2>1, <2>2, OnlyOne DEF Ending
    <2>4. /\ Suits(Top, "leaf", K)
          /\ \A new, later : Suits(new, sort, K) =>
                 Working(Tail(agenda), Append(Below, new), subs, later)
      BY <1>1, <2>3, TopReplaced
    <2>5. Suits(TextLeaf(Step.kind, letters), sort, K)
      <3>1. CASE Step.kind \notin Substitutable
        BY <3>1, LeafMade DEF TextLeaf, sort, MadeOf
      <3>2. CASE Step.kind \in Substitutable
        <4> DEFINE new == TextLeaf(Step.kind, letters)
        <4>1. Formed(new) /\ new.kids = <<>>
          BY EmptyIs, NodeIs DEF TextLeaf
        <4>2. sort = "fresh"
          BY <3>2 DEF sort, MadeOf
        <4> HIDE DEF new
        <4>3. Suits(new, "fresh", K)
          BY <4>1, NoKids DEF Suits, Sorts
        <4>4. QED
          BY <4>2, <4>3 DEF new
      <3>3. QED
        BY <3>1, <3>2
    <2>6. Working(agenda', values', subs, ahead')
      BY <1>3, <2>4, <2>5
    <2>7. Top.index \in Nat
      BY <2>4, LeafIs
    <2>8. QED
      BY <1>1, <1>3, <2>6, <2>7, Consumed
  <1>4. QED
    BY <1>2, <1>3 DEF SliceName

LEMMA DecodeNameKeeps ==
    ASSUME ParserInv, DecodeName
    PROVE  ParserInv'
  <1> DEFINE K == Nodes(subs)
             new == [Top EXCEPT !.text = <<"unicode">>]
  <1>1. outcome = "running" /\ agenda # <<>> /\ agenda[1].op = "decode"
    BY DEF DecodeName, Op, Step
  <1>2. CASE Failed /\ UNCHANGED input
    BY <1>1, <1>2, FailedKeeps
  <1>3. CASE Replace(Append(Below, new))
    <2>1. Working(agenda, values, subs, ahead) /\ Len(agenda) > 0
      BY <1>1, AtWork
    <2>2. Signatures(agenda[1]) = <<Same("leaf"), Same("fresh")>>
      BY <1>1 DEF Signatures
    <2>3. PICK s \in {"leaf", "fresh"} : Applies(agenda, values, K, From(<<s>>, <<s>>))
      <3>1. PICK k \in 1..Len(Signatures(agenda[1])) :
                   Applies(agenda, values, K, Signatures(agenda[1])[k])
        BY <1>1, <2>1, StepApplies DEF Ending
      <3> DEFINE a == Same("leaf")
                 b == Same("fresh")
      <3>2. Signatures(agenda[1]) = <<a, b>>
        BY <2>2
      <3> HIDE DEF a, b, K
      <3>3. Applies(agenda, values, K, a) \/ Applies(agenda, values, K, b)
        BY <3>1, <3>2
      <3>4. QED
        BY <3>3 DEF a, b, Same
    <2>4. /\ Suits(Top, s, K)
          /\ \A x, text : Suits(x, s, K) => Working(Tail(agenda), Append(Below, x), subs, text)
      BY <1>1, <2>3, TopReplaced
    <2>5. Top = Node(Top.kind, Top.has, Top.text, Top.index, Top.kids) /\ IsSeq(Top.kids)
      BY <2>4 DEF Suits, Formed
    <2>6. new = Node(Top.kind, Top.has, <<"unicode">>, Top.index, Top.kids)
      BY <2>5 DEF Node
    <2>7. /\ Formed(new) /\ new.kind = Top.kind /\ new.index = Top.index /\ new.kids = Top.kids
      BY <2>5, <2>6, NodeIs
    <2> HIDE DEF new, K
    <2>8. Suits(new, s, K)
      BY <2>3, <2>4, <2>7 DEF Suits
    <2>9. Working(Tail(agenda), values', subs, ahead) /\ agenda' = Tail(agenda)
          /\ UNCHANGED <<input, subs, outcome>>
      BY <1>3, <2>4, <2>8 DEF Replace
    <2>10. QED
      BY <1>1, <2>9, Replaced
  <1>4. QED
    BY <1>2, <1>3 DEF DecodeName

LEMMA OperatorNameKeeps ==
    ASSUME ParserInv, OperatorName
    PROVE  ParserInv'
  <1> DEFINE text == [i \in DOMAIN Top.text |->
                        IF Top.text[i] = "unicode" THEN Top.text[i] ELSE OperatorOf[Top.text[i]]]
             new == [Top EXCEPT !.text = [i \in DOMAIN @ |->
                        IF @[i] = "unicode" THEN @[i] ELSE OperatorOf[@[i]]]]
  <1>1. outcome = "running" /\ agenda # <<>> /\ agenda[1].op = "operator"
    BY DEF OperatorName, Op, Step
  <1>2. CASE Failed /\ UNCHANGED input
    BY <1>1, <1>2, FailedKeeps
  <1>3. CASE Replace(Append(Below, new))
    <2>1. /\ Top = Node(Top.kind, Top.has, Top.text, Top.index, <<>>)
          /\ Top.index \in Nat /\ Top.kind \notin Substitutable
          /\ \A kind, has, t, index, later : kind \notin Substitutable /\ index \in Nat =>
                 Working(Tail(agenda), Append(Below, Node(kind, has, t, index, <<>>)),
                         subs, later)
      BY <1>1, LeafReplaced
    <2>2. new = [Top EXCEPT !.text = text]
      OBVIOUS
    <2> HIDE DEF new, text
    <2>3. [Top EXCEPT !.text = text] = Node(Top.kind, Top.has, text, Top.index, <<>>)
      BY <2>1 DEF Node
    <2>4. Working(Tail(agenda), values', subs, ahead) /\ agenda' = Tail(agenda)
          /\ UNCHANGED <<input, subs, outcome>>
      BY <1>3, <2>1, <2>2, <2>3 DEF Replace
    <2>5. QED
      BY <1>1, <2>4, Replaced
  <1>4. QED
    BY <1>2, <1>3 DEF OperatorName

LEMMA TakeRestKeeps ==
    ASSUME ParserInv, TakeRest
    PROVE  ParserInv'
  <1> DEFINE new == TextLeaf("Suffix", <<"suffix">>)
             sig == New1("leaf")
  <1>1. /\ outcome = "running" /\ agenda # <<>> /\ agenda[1].op = "remainder"
        /\ agenda' = Tail(agenda) /\ values' = Append(values, new)
        /\ ahead' = <<END>> /\ room' = 0 /\ UNCHANGED <<scenario, subs, outcome>>
    BY DEF TakeRest, Op, Step
  <1>2. Working(agenda, values, subs, ahead) /\ EndsWell(agenda, ahead) /\ IsSeq(agenda)
        /\ IsSeq(values) /\ Len(agenda) > 0 /\ Len(agenda) \in Nat
    BY <1>1, AtWork
  <1>3. Signatures(agenda[1]) = <<sig>>
    BY <1>1 DEF Signatures
  <1>4. Suits(new, "leaf", Nodes(subs))
    BY LeafMade DEF TextLeaf, Substitutable, Nominals
  <1>5. sig.takes = <<>> /\ sig.leaves = <<"leaf">> /\ Len(<<>>) = 0
    BY DEF New1, From
  <1> HIDE DEF sig, new
  <1>6. Applies(agenda, values, Nodes(subs), sig)
    BY <1>1, <1>2, <1>3, OnlyOne DEF Ending
  <1>7. EndsWell(Tail(agenda), <<END>>)
    <2>1. CASE Finishes(agenda)
      <3>1. Len(agenda) > 1
        BY <1>1, <1>2, <2>1 DEF Finishes
      <3>2. QED
        BY <1>2, <2>1, <3>1, EmptyIs, EndsBehind
    <2>2. CASE agenda = <<Remainder, Add>>
      <3>1. Tail(agenda) = <<Add>>
        BY <2>2
      <3>2. QED
        BY <3>1 DEF EndsWell
    <2>3. agenda # <<Add>>
      <3>1. <<Add>>[1].op = "add"
        BY DEF Add
      <3>2. QED
        BY <1>1, <3>1
    <2>4. QED
      BY <1>1, <1>2, <2>1, <2>2, <2>3 DEF EndsWell
  <1>8. Len(values) = Len(values) - Len(sig.takes) /\ \A i \in 1..Len(values) : values[i] = values[i]
    BY <1>2, <1>5 DEF IsSeq
  <1>9. Working(Tail(agenda), Append(values, new), subs, <<END>>)
    BY <1>2, <1>4, <1>5, <1>6, <1>7, <1>8, DoneOne
  <1>10. WellEnded(<<END>>)
    BY OneIs DEF WellEnded
  <1>11. 0 \in Nat /\ 0 <= room
    BY DEF ParserInv
  <1>12. QED
    BY <1>1, <1>9, <1>10, <1>11, Onward DEF ParserInv

--------------------------------------------------------------------------------
(* Substitutions.                                                                *)

LEMMA RememberKeeps ==
    ASSUME ParserInv, Remember
    PROVE  ParserInv'
  <1> DEFINE sig == From(<<"fresh">>, <<"node">>)
             later == Append(subs, Top)
             n == Len(values)
  <1>1. /\ outcome = "running" /\ agenda # <<>> /\ agenda[1].op = "keep"
        /\ agenda' = Tail(agenda) /\ subs' = later
        /\ UNCHANGED <<input, values, outcome>>
    BY DEF Remember, Op, Step
  <1>2. Working(agenda, values, subs, ahead) /\ EndsWell(agenda, ahead) /\ IsSeq(agenda)
        /\ IsSeq(values) /\ Len(agenda) > 0
    BY <1>1, AtWork
  <1>3. Signatures(agenda[1]) = <<sig>>
    BY <1>1 DEF Signatures
  <1>4. /\ sig.takes = <<"fresh">> /\ sig.leaves = <<"node">>
        /\ Len(<<"fresh">>) = 1 /\ <<"fresh">>[1] = "fresh"
        /\ Len(<<"node">>) = 1 /\ <<"node">>[1] = "node"
    BY DEF From
  <1> HIDE DEF sig
  <1>5. Applies(agenda, values, Nodes(subs), sig)
    BY <1>1, <1>2, <1>3, OnlyOne DEF Ending
  <1>6. /\ n \in Nat /\ 1 <= n
        /\ \A i \in 1..Len(sig.takes) :
               Suits(values[(n - Len(sig.takes)) + i], sig.takes[i], Nodes(subs))
    BY <1>2, <1>4, <1>5, Found
  <1>7. (n - 1) + 1 = n
    <2>1. n \in Nat
      BY <1>6
    <2> HIDE DEF n
    <2>2. QED
      BY <2>1
  <1>8. Suits(Top, "fresh", Nodes(subs))
    <2>1. 1 \in 1..Len(sig.takes)
      BY <1>4
    <2>2. QED
      BY <1>4, <1>6, <1>7, <2>1 DEF Top
  <1>9. Formed(Top) /\ \A u \in Nodes(Top.kids) : Known(u, Nodes(subs))
    BY <1>8 DEF Suits
  <1>10. /\ IsSeq(subs) /\ Len(subs) \in Nat /\ IsSeq(later) /\ Len(later) = Len(subs) + 1
        /\ later[Len(subs) + 1] = Top /\ \A i \in 1..Len(subs) : later[i] = subs[i]
    BY AppendIs DEF ParserInv, Ordered, IsSeq
  <1> HIDE DEF later
  <1>11. Nodes(subs) = {subs[j] : j \in 1..Len(subs)} /\ Nodes(later) = Nodes(subs) \cup {Top}
    <2>1. DOMAIN subs = 1..Len(subs) /\ DOMAIN later = 1..(Len(subs) + 1)
      BY <1>10, IsSeqIn
    <2>2. QED
      BY <1>10, <2>1 DEF Nodes
  <1>12. Ordered(later)
    <2>1. ASSUME NEW i \in 1..Len(later)
          PROVE  /\ Formed(later[i])
                 /\ \A u \in Nodes(later[i].kids) : Known(u, {later[j] : j \in 1..(i - 1)})
      <3>1. \A j \in 1..(i - 1) : j \in 1..Len(subs)
        BY <1>10
      <3>2. {later[j] : j \in 1..(i - 1)} = {subs[j] : j \in 1..(i - 1)}
        BY <1>10, <3>1
      <3>3. CASE i \in 1..Len(subs)
        BY <1>10, <3>2, <3>3 DEF ParserInv, Ordered
      <3>4. CASE i = Len(subs) + 1
        <4>1. i - 1 = Len(subs)
          BY <1>10, <3>4
        <4>2. QED
          BY <1>9, <1>10, <1>11, <3>2, <3>4, <4>1
      <3>5. QED
        BY <1>10, <3>3, <3>4
    <2>2. QED
      BY <1>10, <2>1 DEF Ordered
  <1>13. Suits(Top, "node", Nodes(later))
    <2>1. Known(Top, Nodes(later))
      <3>1. \A u \in Nodes(Top.kids) : Known(u, Nodes(later))
        BY <1>9, <1>11, KnownMonotone
      <3>2. QED
        BY <1>11, <3>1, KnownByParts
    <2>2. QED
      BY <1>9, <2>1 DEF Suits, Sorts
  <1>14. EndsWell(Tail(agenda), ahead)
    BY <1>1, <1>2, EndsNext
  <1>15. /\ Len(values) = (Len(values) - Len(sig.takes)) + Len(sig.leaves)
         /\ \A i \in 1..(Len(values) - Len(sig.takes)) : values[i] = values[i]
         /\ \A i \in 1..Len(sig.leaves) :
                Suits(values[(Len(values) - Len(sig.takes)) + i], sig.leaves[i], Nodes(later))
    <2>1. (Len(values) - 1) + 1 = Len(values)
      BY <1>7
    <2>2. \A i \in 1..1 : Suits(values[(Len(values) - 1) + i], <<"node">>[i], Nodes(later))
      BY <1>4, <1>13, <2>1 DEF Top
    <2>3. QED
      BY <1>4, <2>1, <2>2
  <1>16. Working(Tail(agenda), values, later, ahead)
    <2>1. Nodes(subs) \subseteq Nodes(later)
      BY <1>11
    <2> HIDE DEF n
    <2>2. QED
      BY <1>2, <1>5, <1>14, <1>15, <2>1, Done
  <1>17. room <= room
    BY DEF ParserInv
  <1>18. QED
    BY <1>1, <1>12, <1>16, <1>17, Onward DEF input, ParserInv

LEMMA ForgetAllKeeps ==
    ASSUME ParserInv, ForgetAll
    PROVE  ParserInv'
  <1> DEFINE sig == Same("headed")
             n == Len(values)
  <1>1. /\ outcome = "running" /\ agenda # <<>> /\ agenda[1].op = "forget"
        /\ agenda' = Tail(agenda) /\ subs' = <<>>
        /\ UNCHANGED <<input, values, outcome>>
    BY DEF ForgetAll, Op, Step
  <1>2. Working(agenda, values, subs, ahead) /\ EndsWell(agenda, ahead) /\ IsSeq(agenda)
        /\ IsSeq(values) /\ Len(agenda) > 0
    BY <1>1, AtWork
  <1>3. Signatures(agenda[1]) = <<sig>>
    BY <1>1 DEF Signatures
  <1>4. /\ sig.takes = <<"headed">> /\ sig.leaves = <<"headed">>
        /\ Len(<<"headed">>) = 1 /\ <<"headed">>[1] = "headed"
    BY DEF Same, From
  <1> HIDE DEF sig
  <1>5. Applies(agenda, values, Nodes(subs), sig)
    BY <1>1, <1>2, <1>3, OnlyOne DEF Ending
  <1>6. /\ n \in Nat /\ 1 <= n
        /\ \A i \in 1..Len(sig.takes) :
               Suits(values[(n - Len(sig.takes)) + i], sig.takes[i], Nodes(subs))
    BY <1>2, <1>4, <1>5, Found
  <1>7. /\ Len(values) = (Len(values) - Len(sig.takes)) + Len(sig.leaves)
        /\ \A i \in 1..(Len(values) - Len(sig.takes)) : values[i] = values[i]
        /\ \A i \in 1..Len(sig.leaves) :
               Suits(values[(Len(values) - Len(sig.takes)) + i], sig.leaves[i], Nodes(<<>>))
    <2>1. \A t : Suits(t, "headed", Nodes(subs)) => Suits(t, "headed", Nodes(<<>>))
      BY DEF Suits
    <2>2. Len(values) = (Len(values) - 1) + 1
      BY <1>6
    <2>3. QED
      BY <1>4, <1>6, <2>1, <2>2
  <1>8. AtRoot(agenda[1])
    BY <1>1 DEF AtRoot
  <1>9. EndsWell(Tail(agenda), ahead)
    BY <1>1, <1>2, EndsNext
  <1>10. Working(Tail(agenda), values, <<>>, ahead)
    <2> HIDE DEF n
    <2>1. QED
      BY <1>2, <1>5, <1>7, <1>8, <1>9, Done
  <1>11. Ordered(<<>>)
    <2>1. Len(<<>>) = 0
      OBVIOUS
    <2>2. QED
      BY <2>1, EmptyIs DEF Ordered
  <1>12. room <= room
    BY DEF ParserInv
  <1>13. QED
    BY <1>1, <1>10, <1>11, <1>12, Onward DEF input, ParserInv

LEMMA RecallSubstitutionKeeps ==
    ASSUME ParserInv, RecallSubstitution
    PROVE  ParserInv'
  <1> DEFINE K == Nodes(subs)
             new == subs[Top.index + 1]
  <1>1. outcome = "running" /\ agenda # <<>> /\ agenda[1].op = "recall"
    BY DEF RecallSubstitution, Op, Step
  <1>2. CASE Failed /\ UNCHANGED input
    BY <1>1, <1>2, FailedKeeps
  <1>3. CASE ~(Top.index >= Len(subs)) /\ Replace(Append(Below, new))
    <2>1. Working(agenda, values, subs, ahead) /\ Len(agenda) > 0
      BY <1>1, AtWork
    <2>2. Signatures(agenda[1]) = <<From(<<"leaf">>, <<"node">>)>>
      BY <1>1 DEF Signatures
    <2>3. Applies(agenda, values, K, From(<<"leaf">>, <<"node">>))
      BY <1>1, <2>1, <2>2, OnlyOne DEF Ending
    <2>4. /\ Suits(Top, "leaf", K)
          /\ \A x, text : Suits(x, "node", K) => Working(Tail(agenda), Append(Below, x), subs, text)
      BY <1>1, <2>3, TopReplaced
    <2>5. Top.index + 1 \in 1..Len(subs) /\ IsSeq(subs) /\ Len(subs) \in Nat
      <3>1. Top.index \in Nat
        BY <2>4, LeafIs
      <3>2. IsSeq(subs) /\ Len(subs) \in Nat
        BY DEF ParserInv, Ordered, IsSeq
      <3>3. QED
        BY <1>3, <3>1, <3>2
    <2>6. K = {subs[j] : j \in 1..Len(subs)}
      BY <2>5, IsSeqIn DEF Nodes
    <2>7. Suits(new, "node", K)
      <3> DEFINE i == Top.index + 1
      <3>1. i \in 1..Len(subs)
        BY <2>5
      <3> HIDE DEF i
      <3>2. Formed(subs[i]) /\ \A u \in Nodes(subs[i].kids) : Known(u, {subs[j] : j \in 1..(i - 1)})
        BY <3>1 DEF ParserInv, Ordered
      <3>3. {subs[j] : j \in 1..(i - 1)} \subseteq K
        <4>1. \A j \in 1..(i - 1) : j \in 1..Len(subs)
          BY <2>5, <3>1
        <4> HIDE DEF K
        <4>2. QED
          BY <2>6, <4>1
      <3>4. subs[i] \in K
        BY <2>6, <3>1
      <3> HIDE DEF K
      <3>5. Known(subs[i], K)
        <4>1. \A u \in Nodes(subs[i].kids) : Known(u, K)
          BY <3>2, <3>3, KnownMonotone
        <4>2. QED
          BY <3>4, <4>1, KnownByParts
      <3>6. Suits(subs[i], "node", K)
        BY <3>2, <3>5 DEF Suits, Sorts
      <3>7. QED
        BY <3>6 DEF i
    <2> HIDE DEF new, K
    <2>8. Working(Tail(agenda), values', subs, ahead) /\ agenda' = Tail(agenda)
          /\ UNCHANGED <<input, subs, outcome>>
      BY <1>3, <2>4, <2>7 DEF Replace
    <2>9. QED
      BY <1>1, <2>8, Replaced
  <1>4. QED
    BY <1>2, <1>3 DEF RecallSubstitution

LEMMA BindGenericKeeps ==
    ASSUME ParserInv, BindGeneric
    PROVE  ParserInv'
  <1> DEFINE K == Nodes(subs)
             unbound == Below[Len(Below)]
             kind == unbound.kids[1].kind
             kids == <<unbound, Top>>
             new == Node(BoundKinds[kind], "none", <<>>, 0, kids)
             vals2 == Append(SubSeq(Below, 1, Len(Below) - 1), new)
  <1>1. outcome = "running" /\ agenda # <<>> /\ agenda[1].op = "bind"
    BY DEF BindGeneric, Op, Step
  <1>2. CASE Failed /\ UNCHANGED input
    BY <1>1, <1>2, FailedKeeps
  <1>3. CASE kind \in DOMAIN BoundKinds /\ Replace(vals2)
    <2>1. Working(agenda, values, subs, ahead) /\ Len(agenda) > 0
      BY <1>1, AtWork
    <2>2. Signatures(agenda[1]) = <<From(<<"node", "node">>, <<"plain">>)>>
      BY <1>1 DEF Signatures
    <2>3. Applies(agenda, values, K, From(<<"node", "node">>, <<"plain">>))
      BY <1>1, <2>1, <2>2, OnlyOne DEF Ending
    <2>4. /\ Suits(unbound, "node", K) /\ Suits(Top, "node", K)
          /\ \A x : Suits(x, "plain", K) =>
                 Working(Tail(agenda), Append(SubSeq(Below, 1, Len(Below) - 1), x), subs, ahead)
      BY <1>1, <2>3, TwoReplaced
    <2>5. Known(unbound, K) /\ Known(Top, K)
      BY <2>4 DEF Suits
    <2>6. BoundKinds[kind] \notin Substitutable
      <3>1. kind \in {"Class", "Structure", "Enum"}
        BY <1>3 DEF BoundKinds
      <3> HIDE DEF kind
      <3>2. BoundKinds[kind] \in {"BoundGenericClass", "BoundGenericStructure", "BoundGenericEnum"}
        BY <3>1 DEF BoundKinds
      <3>3. QED
        BY <3>2 DEF Substitutable, Nominals
    <2> HIDE DEF unbound, kind, K
    <2>7. IsSeq(kids) /\ Nodes(kids) = {unbound, Top}
      BY PairIs
    <2> HIDE DEF kids
    <2>8. Formed(new) /\ new.kind \notin Substitutable /\ new.kids = kids
      BY <2>6, <2>7, NodeIs
    <2> HIDE DEF new
    <2>9. Suits(new, "plain", K)
      <3>1. ~Indexed(new)
        BY <2>8 DEF Indexed
      <3>2. \A u \in Nodes(new.kids) : Known(u, K)
        BY <2>5, <2>7, <2>8
      <3>3. Known(new, K)
        BY <3>1, <3>2, KnownByParts
      <3>4. QED
        BY <2>8, <3>3 DEF Suits, Sorts
    <2>10. Working(Tail(agenda), vals2, subs, ahead)
      BY <2>4, <2>9
    <2> HIDE DEF vals2
    <2>11. agenda' = Tail(agenda) /\ values' = vals2 /\ UNCHANGED <<input, subs, outcome>>
      BY <1>3 DEF Replace
    <2>12. QED
      BY <1>1, <2>10, <2>11, Replaced
  <1>4. QED
    BY <1>2, <1>3 DEF BindGeneric

--------------------------------------------------------------------------------
(* Switches, attempts and their guards.                                          *)

\* The steps of a case or behind a guard are sound themselves.
LEMMA BlockSound ==
    ASSUME NEW do, NEW sig, Block(do, sig)
    PROVE  /\ RowTyped(do, sig.takes, sig.leaves) /\ AllSound(do) /\ IsSeq(do)
           /\ \A i \in 1..Len(do) : do[i].op # "guard" /\ ~AtRoot(do[i])
  BY DEF Block, AllSound, Sound, Nesting, RowTyped, TypedBetween, Typed

\* They take the place of the step they belong to.
LEMMA BlockKeeps ==
    ASSUME ParserInv, outcome = "running", agenda # <<>>,
           agenda[1].op \notin {"run", "remainder", "add"} \cup Ending,
           NEW sig, Signatures(agenda[1]) = <<sig>>, NEW do, Block(do, sig),
           agenda' = do \o Tail(agenda), UNCHANGED <<input, values, subs, outcome>>
    PROVE  ParserInv'
  <1>1. Working(agenda, values, subs, ahead) /\ EndsWell(agenda, ahead) /\ IsSeq(agenda)
        /\ Len(agenda) > 0
    BY AtWork
  <1>2. Applies(agenda, values, Nodes(subs), sig)
    BY <1>1, OnlyOne
  <1>3. /\ RowTyped(do, sig.takes, sig.leaves) /\ AllSound(do) /\ IsSeq(do)
        /\ \A i \in 1..Len(do) : do[i].op # "guard" /\ ~AtRoot(do[i])
    BY BlockSound
  <1>4. EndsWell(do \o Tail(agenda), ahead)
    BY <1>1, <1>3, EndsLate, EndsBehind
  <1>5. Working(do \o Tail(agenda), values, subs, ahead)
    BY <1>1, <1>2, <1>3, <1>4, Unrolled
  <1>6. room <= room
    BY DEF ParserInv
  <1>7. QED
    BY <1>5, <1>6, Onward DEF input, ParserInv

LEMMA KindCaseKeeps ==
    ASSUME ParserInv, KindCase
    PROVE  ParserInv'
  <1>1. outcome = "running" /\ agenda # <<>> /\ agenda[1].op = "bykind"
    BY DEF KindCase, Op, Step
  <1> DEFINE cases == agenda[1].cases
             Covers(case) == case.kinds = {} \/ Top.kind \in case.kinds
             found == {i \in 1..Len(cases) : Covers(cases[i])}
             at == IF found # {} THEN Min(found) ELSE 0
  <1>2. /\ at = 0 => Failed /\ UNCHANGED input
        /\ at # 0 => /\ agenda' = cases[at].do \o Tail(agenda)
                     /\ UNCHANGED <<input, values, subs, outcome>>
    BY DEF KindCase, SelectInSeq, Step
  <1>3. at # 0 => at \in 1..Len(cases)
    <2>1. found \in SUBSET Nat
      OBVIOUS
    <2>2. found # {} => Min(found) \in found
      BY <2>1, MinOfNat
    <2>3. QED
      BY <2>2
  <1> HIDE DEF at
  <1>4. CASE at = 0
    BY <1>1, <1>2, <1>4, FailedKeeps
  <1>5. CASE at # 0
    <2>1. Block(cases[at].do, Same("node"))
      BY <1>1, <1>3, <1>5, AtWork DEF Sound
    <2>2. Signatures(agenda[1]) = <<Same("node")>>
      BY <1>1 DEF Signatures
    <2>3. agenda[1].op \notin {"run", "remainder", "add"} \cup Ending
      BY <1>1 DEF Ending
    <2>4. QED
      BY <1>1, <1>2, <1>5, <2>1, <2>2, <2>3, BlockKeeps
  <1>6. QED
    BY <1>4, <1>5

LEMMA PassedKeeps ==
    ASSUME ParserInv, Passed
    PROVE  ParserInv'
  <1>1. /\ outcome = "running" /\ agenda # <<>> /\ agenda[1].op = "guard"
        /\ agenda' = agenda[1].then \o Tail(agenda)
        /\ UNCHANGED <<input, values, subs, outcome>>
    BY DEF Passed, Op, Step
  <1>2. agenda[1].op \notin {"run", "remainder", "add"} \cup Ending
    BY <1>1 DEF Ending
  <1>3. \E sig : Signatures(agenda[1]) = <<sig>> /\ Block(agenda[1].then, sig)
    <2>1. \/ agenda[1].failing = "deref" /\ Block(agenda[1].then, From(<<>>, <<>>))
          \/ agenda[1].failing = "resume" /\ Block(agenda[1].then, From(<<"plain", "node">>, <<"plain">>))
      BY <1>1, AtWork DEF Sound
    <2>2. Signatures(agenda[1]) =
            <<IF agenda[1].failing = "resume" THEN From(<<"plain", "node">>, <<"plain">>)
              ELSE From(<<>>, <<>>)>>
      BY <1>1 DEF Signatures
    <2>3. QED
      BY <2>1, <2>2
  <1>4. QED
    BY <1>1, <1>2, <1>3, BlockKeeps

LEMMA GuardedKeeps ==
    ASSUME ParserInv, Guarded
    PROVE  ParserInv'
  <1> DEFINE step == agenda[1]
             run == Run(step.proc)
             guard == Guard(step.failing, Len(values), step.then)
             do == <<run, guard>>
  <1>1. /\ outcome = "running" /\ agenda # <<>> /\ step.op = "try"
        /\ agenda' = do \o Tail(agenda)
        /\ UNCHANGED <<input, values, subs, outcome>>
    BY DEF Guarded, Op, Step, Guard
  <1>2. Working(agenda, values, subs, ahead) /\ EndsWell(agenda, ahead) /\ IsSeq(agenda)
        /\ Len(agenda) > 0 /\ Sound(step) /\ IsSeq(values) /\ AllSound(agenda)
    BY <1>1, AtWork DEF Working
  <1>3. PICK T, F : Track(agenda, values, Nodes(subs), T, F)
    BY <1>2 DEF Working
  <1>4. \E T2, F2 : Track(do \o Tail(agenda), values, Nodes(subs), T2, F2)
    BY <1>1, <1>2, <1>3, TryUnfolded
  <1>5. IsSeq(do) /\ Len(do) = 2 /\ do[1] = run /\ do[2] = guard
    <2> HIDE DEF run, guard
    <2>1. QED
      BY PairIs
  <1>6. Sound(run)
    <2>1. run.op = "run" /\ run.proc = step.proc
      BY DEF Run
    <2>2. step.proc \in DOMAIN Grammar
      BY <1>1, <1>2 DEF Sound
    <2> HIDE DEF run
    <2>3. QED
      BY <2>1, <2>2 DEF Sound, Basic
  <1>7. Sound(guard)
    <2>1. guard.op = "guard" /\ guard.failing = step.failing /\ guard.then = step.then
      BY DEF Guard
    <2> HIDE DEF guard
    <2>2. Basic(guard)
      BY <2>1 DEF Basic
    <2>3. \/ guard.failing = "deref" /\ Block(guard.then, From(<<>>, <<>>))
          \/ guard.failing = "resume" /\ Block(guard.then, From(<<"plain", "node">>, <<"plain">>))
      BY <1>1, <1>2, <2>1 DEF Sound
    <2>4. QED
      BY <2>1, <2>2, <2>3 DEF Sound
  <1> HIDE DEF run, guard, do
  <1>8. AllSound(do)
    <2>1. \A i \in 1..2 : i = 1 \/ i = 2
      OBVIOUS
    <2>2. QED
      BY <1>5, <1>6, <1>7, <2>1 DEF AllSound
  <1>9. IsSeq(do \o Tail(agenda)) /\ AllSound(do \o Tail(agenda))
    BY <1>2, <1>5, <1>8, SoundNext
  <1>10. EndsWell(do \o Tail(agenda), ahead)
    BY <1>1, <1>2, <1>5, EndsLate, EndsBehind
  <1>11. Working(do \o Tail(agenda), values, subs, ahead)
    BY <1>2, <1>4, <1>9, <1>10 DEF Working
  <1>12. room <= room
    BY DEF ParserInv
  <1>13. QED
    BY <1>1, <1>11, <1>12, Onward DEF input, ParserInv

--------------------------------------------------------------------------------
(* Looking at the text.                                                          *)

LEMMA ReadKeeps ==
    ASSUME ParserInv, Read
    PROVE  ParserInv'
  <1>1. /\ outcome = "running" /\ agenda # <<>> /\ ~AtEndOfText
        /\ room' = IF room = 0 THEN 0 ELSE room - 1
        /\ UNCHANGED <<scenario, agenda, values, subs, outcome>>
    BY DEF Read, Needs
  <1>2. PICK c : ahead' = Append(ahead, c)
    BY DEF Read
  <1>3. IsSeq(ahead) /\ Len(ahead) \in Nat /\ \A i \in 1..Len(ahead) : ahead[i] # END
    <2>1. IsSeq(ahead) /\ Len(ahead) \in Nat
      BY DEF ParserInv, WellEnded, IsSeq
    <2>2. ASSUME NEW i \in 1..Len(ahead), ahead[i] = END PROVE FALSE
      <3>1. i = Len(ahead)
        BY <2>2 DEF ParserInv, WellEnded
      <3>2. ahead # <<>>
        <4>1. Len(<<>>) = 0
          OBVIOUS
        <4>2. QED
          BY <2>1, <4>1
      <3>3. QED
        BY <1>1, <2>2, <3>1, <3>2 DEF AtEndOfText
    <2>3. QED
      BY <2>1, <2>2
  <1>4. WellEnded(Append(ahead, c))
    <2>1. /\ IsSeq(Append(ahead, c)) /\ Len(Append(ahead, c)) = Len(ahead) + 1
          /\ \A i \in 1..Len(ahead) : Append(ahead, c)[i] = ahead[i]
      BY <1>3, AppendIs
    <2>2. \A i \in 1..(Len(ahead) + 1) : i \in 1..Len(ahead) \/ i = Len(ahead) + 1
      BY <1>3
    <2>3. QED
      BY <1>3, <2>1, <2>2 DEF WellEnded
  <1>5. Working(agenda, values, subs, ahead) /\ EndsWell(agenda, ahead)
    BY <1>1, AtWork
  <1>6. ahead # <<END>>
    <2>1. Len(<<END>>) = 1 /\ <<END>>[1] = END
      OBVIOUS
    <2>2. QED
      BY <1>3, <2>1
  <1>7. EndsWell(agenda, Append(ahead, c))
    BY <1>5, <1>6 DEF EndsWell
  <1>8. Working(agenda, values, subs, Append(ahead, c))
    BY <1>5, <1>7 DEF Working
  <1>9. room' \in Nat /\ room' <= room
    BY <1>1 DEF ParserInv
  <1>10. Ordered(subs)
    BY DEF ParserInv
  <1>11. QED
    BY <1>1, <1>2, <1>4, <1>8, <1>9, <1>10, Onward

LEMMA SingleIs ==
    ASSUME NEW s, IsSeq(s), Len(s) = 1
    PROVE  s = <<s[1]>>
  <1>1. PICK S : s \in Seq(S)
    BY IsSeqIn
  <1>2. QED
    BY <1>1

\* The row that was chosen is the first that fits.
LEMMA RowFound ==
    ASSUME NEW at, at = FirstRow, at # 0
    PROVE  at \in 1..Len(Rows) /\ Fits(Rows[at])
  <1> DEFINE found == {i \in 1..Len(Rows) : Fits(Rows[i])}
  <1>1. at = IF found # {} THEN Min(found) ELSE 0
    BY DEF FirstRow, SelectInSeq
  <1>2. found \in SUBSET Nat
    OBVIOUS
  <1>3. found # {} => Min(found) \in found
    BY <1>2, MinOfNat
  <1>4. QED
    BY <1>1, <1>3

\* The last procedure returns at the end of the text or makes a suffix of the rest.
LEMMA SuffixEnds ==
    ASSUME WellEnded(ahead), NEW at \in 1..Len(Suffix), Fits(Suffix[at]),
           ~Needs(Len(Suffix[at].on))
    PROVE  EndsWell(Suffix[at].do, advanceOffset(Suffix[at].eat))
  <1>1. /\ at = 1 \/ at = 2
        /\ Suffix[1] = AtEnd(<<>>) /\ Suffix[2] = Else(<<Remainder, Add>>)
    BY DEF Suffix
  <1>2. CASE at = 1
    <2>1. /\ Suffix[1].on = <<END>> /\ Suffix[1].eat = 0 /\ Suffix[1].do = <<>>
          /\ Len(<<END>>) = 1 /\ <<END>>[1] = END
      BY <1>1 DEF AtEnd, At
    <2>2. IsSeq(ahead) /\ Len(ahead) \in Nat
      BY DEF WellEnded, IsSeq
    <2>3. Len(ahead) >= 1
      <3>1. ASSUME AtEndOfText, Len(ahead) = 0 PROVE FALSE
        <4>1. PICK S : ahead \in Seq(S)
          BY <2>2, IsSeqIn
        <4>2. QED
          BY <3>1, <4>1 DEF AtEndOfText
      <3>2. QED
        BY <1>2, <2>1, <2>2, <3>1 DEF Needs
    <2>4. ahead[1] = END
      <3>1. 1 \in 1..Len(Suffix[at].on) /\ 1 <= Len(ahead)
        BY <1>2, <2>1, <2>3
      <3>2. QED
        BY <1>2, <2>1, <3>1 DEF Fits, ANY, END
    <2>5. Len(ahead) = 1
      <3>1. 1 \in 1..Len(ahead)
        BY <2>2, <2>3
      <3>2. QED
        BY <2>4, <3>1 DEF WellEnded
    <2>6. ahead = <<END>>
      BY <2>2, <2>4, <2>5, SingleIs
    <2>7. advanceOffset(0) = <<END>>
      <3>1. 0 + 1 = 1 /\ 1 \in Nat /\ 1 <= 1
        OBVIOUS
      <3>2. /\ IsSeq(SubSeq(ahead, 1, 1)) /\ Len(SubSeq(ahead, 1, 1)) = 1
            /\ \A i \in 1..1 : SubSeq(ahead, 1, 1)[i] = ahead[i]
        BY <2>2, <2>5, <3>1, PrefixIs
      <3>3. 1 \in 1..1
        OBVIOUS
      <3>4. SubSeq(ahead, 1, 1) = <<END>>
        BY <2>4, <3>2, <3>3, SingleIs
      <3>5. QED
        BY <2>5, <3>1, <3>4 DEF advanceOffset
    <2>8. QED
      BY <1>2, <2>1, <2>7 DEF EndsWell
  <1>3. CASE at = 2
    BY <1>1, <1>3 DEF Else, EndsWell
  <1>4. QED
    BY <1>1, <1>2, <1>3

\* What a procedure does instead of its call ends as well as the call.
LEMMA RowEnds ==
    ASSUME ParserInv, outcome = "running", agenda # <<>>, agenda[1].op = "run",
           NEW at, at = FirstRow, at # 0, ~Needs(Len(Rows[at].on)),
           SoundRow(Rows[at], agenda[1].proc), Rows = Grammar[agenda[1].proc]
    PROVE  EndsWell(Rows[at].do \o Tail(agenda), advanceOffset(Rows[at].eat))
  <1> DEFINE row == Rows[at]
             proc == agenda[1].proc
  <1>1. Working(agenda, values, subs, ahead) /\ EndsWell(agenda, ahead) /\ IsSeq(agenda)
        /\ Len(agenda) \in Nat /\ Len(agenda) > 0
    BY AtWork
  <1>2. IsSeq(row.do)
    BY DEF SoundRow, RowTyped, TypedBetween, Typed
  <1>3. CASE Len(agenda) > 1
    BY <1>1, <1>2, <1>3, EndsLate, EndsBehind
  <1>4. CASE ~(Len(agenda) > 1)
    <2>1. Len(agenda) = 1
      <3>1. Len(agenda) \in Nat /\ Len(agenda) > 0
        BY <1>1
      <3> DEFINE n == Len(agenda)
      <3>2. n \in Nat /\ n > 0 /\ ~(n > 1)
        BY <1>4, <3>1
      <3> HIDE DEF n
      <3>3. n = 1
        BY <3>2
      <3>4. QED
        BY <3>3 DEF n
    <2>2. agenda = <<agenda[1]>>
      BY <1>1, <2>1, SingleIs
    <2>3. Tail(agenda) = <<>>
      <3>1. Tail(<<agenda[1]>>) = <<>>
        OBVIOUS
      <3>2. QED
        BY <2>2, <3>1
    <2>4. proc \in Finishing
      <3>1. agenda # <<Remainder, Add>> /\ agenda # <<Add>>
        <4>1. /\ Len(<<Remainder, Add>>) = 2 /\ <<Add>>[1].op = "add"
          BY DEF Add
        <4>2. QED
          BY <2>1, <4>1
      <3>2. Finishes(agenda)
        BY <1>1, <3>1 DEF EndsWell
      <3>3. QED
        BY <2>1, <3>2 DEF Finishes
    <2>5. row.do \o <<>> = row.do
      <3>1. PICK S : row.do \in Seq(S)
        BY <1>2, IsSeqIn
      <3> HIDE DEF row
      <3>2. QED
        BY <3>1
    <2>6. EndsWell(row.do, advanceOffset(row.eat))
      <3>1. CASE proc # "Suffix"
        <4>1. /\ row.do # <<>>
              /\ row.do[Len(row.do)].op = "run" /\ row.do[Len(row.do)].proc \in Finishing
          BY <2>4, <3>1 DEF SoundRow
        <4>2. Len(row.do) > 0
          <5>1. PICK S : row.do \in Seq(S)
            BY <1>2, IsSeqIn
          <5> HIDE DEF row
          <5>2. QED
            BY <4>1, <5>1
        <4>3. QED
          BY <4>1, <4>2 DEF Finishes, EndsWell
      <3>2. CASE proc = "Suffix"
        <4>1. Rows = Suffix
          BY <3>2, GrammarAssumption
        <4>2. at \in 1..Len(Suffix) /\ Fits(Suffix[at]) /\ ~Needs(Len(Suffix[at].on))
          BY <4>1, RowFound
        <4>3. WellEnded(ahead)
          BY DEF ParserInv
        <4>4. QED
          BY <4>1, <4>2, <4>3, SuffixEnds
      <3>3. QED
        BY <3>1, <3>2
    <2>7. QED
      BY <2>3, <2>5, <2>6
  <1>5. QED
    BY <1>3, <1>4

LEMMA ChooseKeeps ==
    ASSUME ParserInv, Choose
    PROVE  ParserInv'
  <1> DEFINE at == FirstRow
             row == Rows[at]
             K == Nodes(subs)
  <1>1. /\ outcome = "running" /\ agenda # <<>> /\ agenda[1].op \in {"run", "choose"}
        /\ Step = agenda[1]
    BY DEF Choose, Op, Step
  <1>2. /\ at = 0 => Failed /\ UNCHANGED input
        /\ at # 0 => /\ ~Needs(Len(row.on))
                     /\ agenda' = row.do \o Tail(agenda)
                     /\ ahead' = advanceOffset(row.eat)
                     /\ UNCHANGED <<scenario, room, values, subs, outcome>>
    BY DEF Choose
  <1>3. at # 0 => at \in 1..Len(Rows) /\ Fits(row)
    BY RowFound
  <1>4. Working(agenda, values, subs, ahead) /\ EndsWell(agenda, ahead) /\ IsSeq(agenda)
        /\ Len(agenda) > 0 /\ Sound(agenda[1]) /\ IsSeq(values)
    BY <1>1, AtWork
  <1>5. CASE at = 0
    BY <1>1, <1>2, <1>5, FailedKeeps
  <1>6. CASE at # 0 /\ agenda[1].op = "run"
    <2> DEFINE proc == agenda[1].proc
               sig == OfProcedure(proc)
    <2>1. Rows = Grammar[proc] /\ proc \in DOMAIN Grammar
      BY <1>1, <1>4, <1>6 DEF Rows, Sound, Basic
    <2>2. SoundRow(row, proc)
      BY <1>3, <1>6, <2>1, GrammarAssumption
    <2>3. Signatures(agenda[1]) = <<sig>>
      BY <1>6 DEF Signatures
    <2>4. EndsWell(row.do \o Tail(agenda), advanceOffset(row.eat))
      BY <1>1, <1>2, <1>6, <2>1, <2>2, RowEnds
    <2> HIDE DEF sig, at
    <2>5. Applies(agenda, values, K, sig)
      BY <1>1, <1>4, <2>3, OnlyOne DEF Ending
    <2>6. RowTyped(row.do, sig.takes, sig.leaves) /\ row.eat \in Nat /\ AllSound(row.do)
      BY <2>2 DEF SoundRow, AllSound, sig
    <2>7. \A i \in 1..Len(row.do) :
              row.do[i].op # "guard" /\ (AtRoot(row.do[i]) => AtRoot(agenda[1]))
      <3>1. AtRoot(Run(proc)) => AtRoot(agenda[1])
        <4>1. Run(proc).op = "run" /\ Run(proc).proc = proc
          BY DEF Run
        <4>2. QED
          BY <1>6, <4>1 DEF AtRoot
      <3>2. QED
        BY <2>2, <3>1 DEF SoundRow
    <2> HIDE DEF row
    <2>8. Working(row.do \o Tail(agenda), values, subs, advanceOffset(row.eat))
      BY <1>4, <2>4, <2>5, <2>6, <2>7, Unrolled
    <2>9. QED
      BY <1>1, <1>2, <1>6, <2>6, <2>8, Consumed
  <1>7. CASE at # 0 /\ agenda[1].op = "choose"
    <2> DEFINE sig == From(<<>>, <<>>)
    <2>1. Rows = agenda[1].rows
      BY <1>1, <1>7 DEF Rows
    <2>2. row.do = <<>> /\ row.eat \in Nat
      BY <1>3, <1>4, <1>7, <2>1 DEF Sound, Basic
    <2>3. Signatures(agenda[1]) = <<sig>>
      BY <1>7 DEF Signatures
    <2>4. sig.takes = <<>> /\ sig.leaves = <<>> /\ Len(<<>>) = 0
      BY DEF From
    <2> HIDE DEF sig, at, row
    <2>5. Applies(agenda, values, K, sig)
      BY <1>1, <1>4, <2>3, OnlyOne DEF Ending
    <2>6. EndsWell(Tail(agenda), advanceOffset(row.eat))
      BY <1>4, <1>7, EmptyIs, EndsLate, EndsBehind
    <2>7. Len(values) \in Nat
      BY <1>4 DEF IsSeq
    <2>8. /\ Len(values) = (Len(values) - Len(sig.takes)) + Len(sig.leaves)
          /\ \A i \in 1..(Len(values) - Len(sig.takes)) : values[i] = values[i]
          /\ \A i \in 1..Len(sig.leaves) :
                 Suits(values[(Len(values) - Len(sig.takes)) + i], sig.leaves[i], K)
      BY <2>4, <2>7
    <2>9. Working(Tail(agenda), values, subs, advanceOffset(row.eat))
      BY <1>4, <2>5, <2>6, <2>8, Done
    <2>10. row.do \o Tail(agenda) = Tail(agenda)
      <3>1. IsSeq(Tail(agenda))
        BY <2>9 DEF Working
      <3>2. PICK S : Tail(agenda) \in Seq(S)
        BY <3>1, IsSeqIn
      <3>3. QED
        BY <2>2, <3>2
    <2>11. QED
      BY <1>1, <1>2, <1>7, <2>2, <2>9, <2>10, Consumed
  <1>8. QED
    BY <1>1, <1>5, <1>6, <1>7

--------------------------------------------------------------------------------
(* The end of the call.                                                          *)

LEMMA ReturnNullKeeps ==
    ASSUME ParserInv, ReturnNull
    PROVE  ParserInv'
  BY FailedKeeps DEF ReturnNull, Op

LEMMA StopKeeps ==
    ASSUME ParserInv, NEW result \in Outcomes \ {"running", "tree"}, Stop(result),
           UNCHANGED <<input, values, subs>>
    PROVE  ParserInv'
  BY DEF ParserInv, Stop, input

LEMMA ReadPastEndKeeps ==
    ASSUME ParserInv, ReadPastEnd
    PROVE  ParserInv'
  <1>1. "overread" \in Outcomes \ {"running", "tree"}
    BY DEF Outcomes
  <1>2. CASE Failed
    BY <1>2, FailedKeeps DEF ReadPastEnd, Op
  <1>3. CASE Stop("overread") /\ UNCHANGED <<values, subs>>
    BY <1>1, <1>3, StopKeeps DEF ReadPastEnd
  <1>4. QED
    BY <1>2, <1>3 DEF ReadPastEnd

LEMMA AbortKeeps ==
    ASSUME ParserInv, Abort
    PROVE  ParserInv'
  <1>1. /\ outcome = "running" /\ agenda # <<>> /\ agenda[1].op = "stop"
        /\ Stop(agenda[1].outcome) /\ UNCHANGED <<input, values, subs>>
    BY DEF Abort, Op, Step
  <1>2. agenda[1].outcome = "unreachable"
    BY <1>1, AtWork DEF Sound, Basic
  <1>3. "unreachable" \in Outcomes \ {"running", "tree"}
    BY DEF Outcomes
  <1>4. QED
    BY <1>1, <1>2, <1>3, StopKeeps

LEMMA ReturnKeeps ==
    ASSUME ParserInv, Return
    PROVE  ParserInv'
  <1>1. /\ outcome = "running" /\ agenda = <<>> /\ outcome' = "tree"
        /\ UNCHANGED <<input, values, subs>>
    BY DEF Return, Stop
  <1>2. Working(<<>>, values, subs, ahead)
    BY <1>1 DEF ParserInv
  <1>3. ahead = <<END>>
    <2>1. /\ Len(<<>>) = 0 /\ Len(<<Remainder, Add>>) = 2
      OBVIOUS
    <2>2. ~Finishes(<<>>) /\ <<>> # <<Remainder, Add>>
      BY <2>1 DEF Finishes
    <2>3. QED
      BY <1>2, <2>2 DEF Working, EndsWell
  <1>4. Suited(values, <<"global">>, Nodes(subs))
    <2>1. PICK T, F : Track(<<>>, values, Nodes(subs), T, F)
      BY <1>2 DEF Working
    <2>2. Len(<<>>) + 1 = 1
      OBVIOUS
    <2>3. T[1] = <<"global">> /\ Suited(values, T[1], Nodes(subs))
      BY <2>1, <2>2 DEF Track
    <2>4. QED
      BY <2>3
  <1>5. QED
    BY <1>1, <1>3, <1>4 DEF ParserInv, input, Outcomes

--------------------------------------------------------------------------------
(* The parser keeps its invariant.                                               *)

LEMMA ParserBegins ==
    ASSUME Init
    PROVE  ParserInv
  <1> DEFINE run == Run("TopLevel")
             sig == New1("global")
             X == <<>>
             Y == <<"global">>
             T == <<X, Y>>
             F == <<0>>
             do == <<run>>
  <1>1. PICK s \in Scenarios : Start(s)
    BY DEF Init
  <1>2. /\ scenario = s /\ ahead = s.start /\ room = s.room /\ agenda = do
        /\ values = <<>> /\ subs = <<>> /\ outcome = "running"
    BY <1>1 DEF Start
  <1>3. IsSeq(s.start) /\ s.room \in Nat /\ \A i \in 1..Len(s.start) : s.start[i] # END
    BY ScenariosAssumption
  <1>4. Len(<<>>) = 0 /\ 0 \in Nat
    OBVIOUS
  <1>5. Ordered(<<>>)
    BY <1>4, EmptyIs DEF Ordered
  <1>6. /\ run.op = "run" /\ run.proc = "TopLevel" /\ OfProcedure("TopLevel") = sig
        /\ sig.takes = X /\ sig.leaves = Y
    BY DEF Run, OfProcedure, New1, From
  <1>7. IsSeq(do) /\ Len(do) = 1 /\ do[1] = run
    <2> HIDE DEF run
    <2>1. QED
      BY OneIs
  <1> HIDE DEF do
  <1>8. Sound(run)
    <2>1. "TopLevel" \in DOMAIN Grammar
      BY GrammarAssumption
    <2> HIDE DEF run, sig
    <2>2. QED
      BY <1>6, <2>1 DEF Sound, Basic
  <1>9. AllSound(do) /\ EndsWell(do, ahead)
    <2>1. \A i \in 1..1 : i = 1
      OBVIOUS
    <2>2. Finishes(do)
      BY <1>6, <1>7 DEF Finishes, Finishing
    <2>3. QED
      BY <1>7, <1>8, <2>1, <2>2 DEF AllSound, EndsWell
  <1>10. X \in Seq(Sorts) /\ Y \in Seq(Sorts) /\ Len(X) = 0 /\ Len(Y) = 1 /\ Y[1] = "global"
    BY DEF Sorts
  <1>11. Matches(sig, 0, X, Y)
    <2>1. IsSeq(X) /\ IsSeq(Y)
      BY EmptyIs, OneIs
    <2>2. \A i \in 1..1 : Widens(Y[i], Y[0 + i])
      BY DEF Widens, Sorts
    <2> HIDE DEF sig, X, Y
    <2>3. QED
      BY <1>6, <1>10, <2>1, <2>2 DEF Matches
  <1>12. T[1] = X /\ T[2] = Y /\ F[1] = 0
    <2> HIDE DEF X, Y
    <2>1. QED
      OBVIOUS
  <1>13. T \in [1..2 -> Seq(Sorts)] /\ F \in [1..1 -> Nat]
    <2> HIDE DEF X, Y
    <2>1. T \in Seq(Seq(Sorts)) /\ Len(T) = 2 /\ F \in Seq(Nat) /\ Len(F) = 1
      BY <1>10
    <2>2. QED
      BY <2>1
  <1> HIDE DEF X, Y, T, F
  <1>14. StepTyped(run, 0, X, Y)
    <2>1. Matches(OfProcedure("TopLevel"), 0, X, Y)
      BY <1>6, <1>11
    <2>2. QED
      BY <1>4, <2>1, RunMatches
  <1> HIDE DEF run, sig
  <1>15. Typed(do, T, F)
    <2>1. \A i \in 1..1 : i = 1
      OBVIOUS
    <2>2. 1 + 1 = 2
      OBVIOUS
    <2>3. QED
      BY <1>7, <1>12, <1>13, <1>14, <2>1, <2>2 DEF Typed
  <1>16. GuardsHold(do, T, F)
    <2>1. \A i \in 1..Len(do) : ~Resumes(do[i])
      BY <1>6, <1>7 DEF Resumes
    <2>2. QED
      BY <2>1 DEF GuardsHold
  <1>17. Track(do, <<>>, Nodes(<<>>), T, F)
    <2>1. Suited(<<>>, X, Nodes(<<>>))
      BY <1>4, <1>10 DEF Suited
    <2>2. Len(do) + 1 = 2
      BY <1>7
    <2>3. QED
      BY <1>12, <1>15, <1>16, <2>1, <2>2 DEF Track, Y
  <1>18. Working(do, <<>>, <<>>, ahead)
    BY <1>7, <1>9, <1>17, EmptyIs DEF Working
  <1>19. WellEnded(ahead)
    BY <1>2, <1>3 DEF WellEnded
  <1>20. room <= scenario.room
    BY <1>2, <1>3
  <1>21. QED
    BY <1>2, <1>3, <1>5, <1>18, <1>19, <1>20 DEF ParserInv, Outcomes

LEMMA ParserContinues ==
    ASSUME ParserInv, Next
    PROVE  ParserInv'
  <1>1. CASE Read
    BY <1>1, ReadKeeps
  <1>2. CASE Choose
    BY <1>2, ChooseKeeps
  <1>3. CASE create
    BY <1>3, createKeeps
  <1>4. CASE BuildNode
    BY <1>4, BuildNodeKeeps
  <1>5. CASE AddChild
    BY <1>5, AddChildKeeps
  <1>6. CASE AdoptChild
    BY <1>6, AdoptChildKeeps
  <1>7. CASE DropNode
    BY <1>7, DropNodeKeeps
  <1>8. CASE Retag
    BY <1>8, RetagKeeps
  <1>9. CASE NumberParam
    BY <1>9, NumberParamKeeps
  <1>10. CASE Arithmetic
    BY <1>10, ArithmeticKeeps
  <1>11. CASE TakeLetter
    BY <1>11, TakeLetterKeeps
  <1>12. CASE SliceName
    BY <1>12, SliceNameKeeps
  <1>13. CASE DecodeName
    BY <1>13, DecodeNameKeeps
  <1>14. CASE OperatorName
    BY <1>14, OperatorNameKeeps
  <1>15. CASE TakeRest
    BY <1>15, TakeRestKeeps
  <1>16. CASE Remember
    BY <1>16, RememberKeeps
  <1>17. CASE ForgetAll
    BY <1>17, ForgetAllKeeps
  <1>18. CASE RecallSubstitution
    BY <1>18, RecallSubstitutionKeeps
  <1>19. CASE KindCase
    BY <1>19, KindCaseKeeps
  <1>20. CASE BindGeneric
    BY <1>20, BindGenericKeeps
  <1>21. CASE Guarded
    BY <1>21, GuardedKeeps
  <1>22. CASE Passed
    BY <1>22, PassedKeeps
  <1>23. CASE ReturnNull
    BY <1>23, ReturnNullKeeps
  <1>24. CASE ReadPastEnd
    BY <1>24, ReadPastEndKeeps
  <1>25. CASE Abort
    BY <1>25, AbortKeeps
  <1>26. CASE Return
    BY <1>26, ReturnKeeps
  <1>27. QED
    BY <1>1, <1>2, <1>3, <1>4, <1>5, <1>6, <1>7, <1>8, <1>9, <1>10, <1>11, <1>12, <1>13, <1>14,
       <1>15, <1>16, <1>17, <1>18, <1>19, <1>20, <1>21, <1>22, <1>23, <1>24, <1>25, <1>26
       DEF Next

CallInv == ParserInv /\ stage \in {"swift", "cpp", "done"}

LEMMA ParserInductive ==
    /\ DemangleInit => CallInv
    /\ CallInv /\ [DemangleNext]_allVars => CallInv'
  <1>1. ASSUME DemangleInit PROVE CallInv
    BY <1>1, ParserBegins DEF DemangleInit, CallInv
  <1>2. ASSUME UNCHANGED vars, ParserInv PROVE ParserInv'
    BY <1>2 DEF vars, ParserInv
  <1>3. ASSUME CallInv, [DemangleNext]_allVars PROVE CallInv'
    <2>1. CASE Parse
      BY <1>3, <2>1, ParserContinues DEF Parse, answer, CallInv
    <2>2. CASE demangle_swift
      <3>1. stage' \in {"cpp", "done"} /\ UNCHANGED vars
        BY <2>2 DEF demangle_swift, Deliver
      <3>2. QED
        BY <1>2, <1>3, <3>1 DEF CallInv
    <2>3. CASE demangle_cpp
      <3>1. stage' = "done" /\ UNCHANGED vars
        BY <2>3 DEF demangle_cpp, Deliver
      <3>2. QED
        BY <1>2, <1>3, <3>1 DEF CallInv
    <2>4. CASE UNCHANGED allVars
      BY <1>2, <1>3, <2>4 DEF allVars, answer, CallInv
    <2>5. QED
      BY <1>3, <2>1, <2>2, <2>3, <2>4 DEF DemangleNext
  <1>4. QED
    BY <1>1, <1>3

(* A parse that succeeds leaves one tree, a Global, and no letter unread, for    *)
(* every name and whatever becomes of it on the way (demangleTopLevel() in       *)
(* Demangle.cpp; the suffix takes what is not understood).                       *)
THEOREM ParserTyped ==
    DemangleSpec => []DemangleTypeOK
  <1>1. ASSUME CallInv PROVE DemangleTypeOK
    <2>1. ASSUME Built PROVE Len(values) = 1 /\ Tree.kind = "Global" /\ ahead = <<END>>
      <3>1. ahead = <<END>> /\ Suited(values, <<"global">>, Nodes(subs))
        BY <1>1, <2>1 DEF CallInv, ParserInv, Built
      <3>2. Len(<<"global">>) = 1 /\ 1 \in 1..1 /\ <<"global">>[1] = "global"
        OBVIOUS
      <3>3. Len(values) = 1 /\ Suits(values[1], "global", Nodes(subs))
        BY <3>1, <3>2 DEF Suited
      <3>4. QED
        BY <3>1, <3>3 DEF Suits, Tree
    <2>2. QED
      BY <1>1, <2>1 DEF CallInv, ParserInv, DemangleTypeOK
  <1>2. CallInv => DemangleTypeOK
    BY <1>1
  <1>3. QED
    BY <1>2, ParserInductive, PTL DEF DemangleSpec

(* Every declaration that the entity of a symbol mentions has been given an      *)
(* index, for every name: none of the many procedures of Demangle.cpp that make  *)
(* one forgets its Substitutions.push_back(), on any path.                       *)
THEOREM EveryMentionKept ==
    DemangleSpec => []MentionedKept
  <1>1. ASSUME CallInv PROVE MentionedKept
    <2>1. SUFFICES ASSUME Built, NEW part \in Mentioned
                   PROVE  part \in Nodes(subs)
      BY DEF MentionedKept
    <2>2. PICK entity \in Entities : part \in Subtrees(entity)
      BY <2>1 DEF Mentioned
    <2>3. Indexed(part)
      BY <2>1 DEF Mentioned
    <2>4. entity \in Nodes(Tree.kids) /\ entity.kind \notin Headers_
      BY <2>2 DEF Entities
    <2>5. Suits(Tree, "global", Nodes(subs))
      <3>1. Suited(values, <<"global">>, Nodes(subs))
        BY <1>1, <2>1 DEF CallInv, ParserInv, Built
      <3>2. Len(<<"global">>) = 1 /\ 1 \in 1..1 /\ <<"global">>[1] = "global"
        OBVIOUS
      <3>3. QED
        BY <3>1, <3>2 DEF Suited, Tree
    <2>6. Known(entity, Nodes(subs))
      BY <2>4, <2>5 DEF Suits
    <2>7. QED
      BY <2>2, <2>3, <2>6, KnownSubtrees
  <1>2. CallInv => MentionedKept
    BY <1>1
  <1>3. QED
    BY <1>2, ParserInductive, PTL DEF DemangleSpec

(* A declaration gets its index after everything it mentions, for every name:    *)
(* Substitutions.push_back() comes behind the calls that demangle the context    *)
(* and the name.                                                                 *)
THEOREM ContextsRemembered ==
    DemangleSpec => []ContextsFirst
  <1>1. ASSUME CallInv PROVE ContextsFirst
    <2>1. SUFFICES ASSUME NEW i \in DOMAIN subs, NEW part \in Subtrees(subs[i]) \ {subs[i]},
                          Indexed(part)
                   PROVE  \E j \in 1..(i - 1) : subs[j] = part
      BY DEF ContextsFirst
    <2>2. i \in 1..Len(subs) /\ Ordered(subs)
      BY <1>1, IsSeqIn DEF CallInv, ParserInv, Ordered
    <2> DEFINE K == {subs[j] : j \in 1..(i - 1)}
    <2>3. \A u \in Nodes(subs[i].kids) : Known(u, K)
      BY <2>2 DEF Ordered
    <2> HIDE DEF K
    <2>4. part \in K
      BY <2>1, <2>3, KnownBelow
    <2>5. QED
      BY <2>4 DEF K
  <1>2. CallInv => ContextsFirst
    BY <1>1
  <1>3. QED
    BY <1>2, ParserInductive, PTL DEF DemangleSpec
================================================================================
