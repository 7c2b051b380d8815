-------------------------- MODULE DemangleProperties ---------------------------
(* What must be true of a demangling, from the first letter to the reply.        *)
EXTENDS SwiftProperties, SwiftPrinter

(* No substitution is left over from a specialization header or from a failed    *)
(* attempt (Substitutions.push_back() and .clear() in Demangle.cpp): it would    *)
(* shift the meaning of every later index.                                       *)
KeptMentioned == Built => Nodes(subs) \subseteq Mentioned

(* Every tree the parser builds is one the printer can print: no child that is   *)
(* not there is visited, no payload of the wrong type read, no assertion of      *)
(* NodePrinter fails and its unreachable() is unreachable.                       *)
Printable ==
    /\ TreesPrint
    /\ Built => \A options \in {Default, SimplifiedUIDemangleOptions} :
                   ~Contains(printRoot(Tree, options), FAULT)

\* What print() looks at: whatever the options, it does not go below a dynamic Self, to
\* the type of a closure, or to the protocol that qualifies an associated type.
RECURSIVE Shown(_)
Shown(node) ==
    LET kids == CASE node.kind \in {"DynamicSelf", "DependentAssociatedTypeRef"} -> {}
                  [] node.kind \in {"ExplicitClosure", "ImplicitClosure"} -> {1}
                  [] OTHER -> DOMAIN node.kids
    IN {node} \cup UNION {Shown(node.kids[i]) : i \in kids}
Names == {"Identifier", "Module", "TupleElementName", "DependentAssociatedTypeRef", "Suffix"}

(* With default options every name that was read is in the text; the simplified  *)
(* text says nothing that the full text does not say.                            *)
NamesShown ==
    Built => LET full == Nodes(printRoot(Tree, Default))
             IN /\ \A t \in Shown(Tree) : t.kind \in Names /\ t.text # <<>> => t.text \in full
                /\ Nodes(printRoot(Tree, SimplifiedUIDemangleOptions)) \subseteq full

(* The parser comes to an end: none of its loops over the text goes on without   *)
(* reading it.                                                                   *)
ParserReturns == <>(outcome # "running")
================================================================================
