---------------------------- MODULE SwiftProperties ----------------------------
(* What must be true of the tree and the substitutions when the parser returns.  *)
EXTENDS Demangle

CONSTANT Depth  \* how far below a node its parts are looked for

ASSUME DepthAssumption == Depth \in Nat

Nodes(seq) == {seq[i] : i \in DOMAIN seq}
\* The parser has returned and nothing has been printed yet.
Built == outcome = "tree" /\ stage = "swift"
Tree == values[1]

\* A node and everything below it.
Subtrees(node) ==
    LET upTo[d \in Nat] ==
            IF d = 0 THEN {node}
            ELSE LET above == upTo[d - 1]
                 IN above \cup UNION {Nodes(part.kids) : part \in above}
    IN upTo[Depth]

\* What gets an index: the standard nodes have names of their own instead.
Indexed(node) == node.kind \in Substitutable /\ node \notin StandardNodes

(* The variables stay in their ranges, and a finished parse leaves one tree and  *)
(* no letter behind: what is not understood is in the suffix of the tree.        *)
DemangleTypeOK ==
    /\ outcome \in Outcomes
    /\ stage \in {"swift", "cpp", "done"}
    /\ room \in Nat /\ room <= scenario.room
    /\ Built => /\ Len(values) = 1
                /\ Tree.kind = "Global"
                /\ ahead = <<END>>

\* What is mentioned behind the attributes and specializations in front of the entity.
Headers_ == Specializations \cup {"Suffix"}
Entities == {kid \in Nodes(Tree.kids) : kid.kind \notin Headers_}
Mentioned == {part \in UNION {Subtrees(entity) : entity \in Entities} : Indexed(part)}

(* Every declaration the entity mentions has an index (Substitutions.push_back() *)
(* in Demangle.cpp): one forgotten would shift the meaning of all that follow.   *)
MentionedKept == Built => Mentioned \subseteq Nodes(subs)

(* A declaration is remembered after what it is declared in: its own index is    *)
(* the higher one, as the mangler numbers them.                                  *)
ContextsFirst ==
    Built => \A i \in DOMAIN subs : \A part \in Subtrees(subs[i]) \ {subs[i]} :
        Indexed(part) => \E j \in 1..(i - 1) : subs[j] = part
================================================================================
