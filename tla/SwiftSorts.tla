------------------------------ MODULE SwiftSorts -------------------------------
(* What the steps of the parser need on the stack of nodes and what they leave   *)
(* there, by sorts of nodes. A grammar in which every procedure keeps to its     *)
(* signature is one in which no local variable of Demangle.cpp is used before it *)
(* is set, and none is left behind.                                              *)
EXTENDS SwiftGrammar, Integers

--------------------------------------------------------------------------------
(* Sorts.                                                                        *)

(* "leaf":   no children, and no declaration                                     *)
(* "plain":  no declaration; every declaration in it has been remembered         *)
(* "node":   every declaration in it has been remembered, the node itself too    *)
(* "fresh":  every declaration in its children has been remembered               *)
(* "header": a specialization                                                    *)
(* "headed": the root, with specializations only                                 *)
(* "global": the root; every declaration outside of headers has been remembered  *)
Sorts == {"leaf", "plain", "node", "fresh", "header", "headed", "global"}

\* Where a node of the one sort may stand for a node of the other.
Widens(s, t) ==
    \/ s = t /\ s \in Sorts
    \/ s = "leaf" /\ t \in {"plain", "node", "fresh"}
    \/ s = "plain" /\ t \in {"node", "fresh"}
    \/ s = "node" /\ t = "fresh"
    \/ s = "headed" /\ t = "global"
AllWiden(X, Y) == Len(X) = Len(Y) /\ \A i \in 1..Len(X) : Widens(X[i], Y[i])

Specializations == {"GenericSpecialization", "FunctionSignatureSpecialization"}
IsLeaf(node) == node = Node(node.kind, node.has, node.text, node.index, <<>>) /\ node.index \in Nat

\* The sort of a node that is pushed as it is.
SortOf(node) ==
    IF node \in StandardNodes THEN "node"
    ELSE IF ~IsLeaf(node) \/ node.kind \in Substitutable THEN "none"
    ELSE IF node.kind = "Global" THEN "headed"
    ELSE IF node.kind \in Specializations THEN "header"
    ELSE "leaf"

--------------------------------------------------------------------------------
(* Signatures.                                                                   *)

From(takes, leaves) == [takes |-> takes, leaves |-> leaves]
Same(sort) == From(<<sort>>, <<sort>>)
New1(sort) == From(<<>>, <<sort>>)

\* What a procedure finds and leaves. Most return a node.
OfProcedure(proc) ==
    CASE proc = "TopLevel" -> New1("global")
      [] proc \in {"Headers", "AfterHeader"} -> From(<<"headed">>, <<"global">>)
      [] proc \in {"Body", "Suffix"} -> Same("global")
      [] proc = "SpecializedAttribute" -> New1("header")
      [] proc \in {"GenericSpecialization", "FunctionSignatureSpecialization"} -> Same("header")
      [] proc \in {"Forwarded", "Conformances", "ConstantProp", "ClosureProp", "ClosureTypes",
                   "Protocols", "ParamCounts", "MoreCounts", "Requirements",
                   "MoreRequirements", "Tuple", "ImplAttributes", "ImplNoReturn",
                   "ImplGenerics", "ImplParameters", "ImplResults"} -> Same("plain")
      [] proc \in {"UpTo_", "MoreDigits"} -> Same("leaf")
      [] proc = "VectorElement" -> From(<<>>, <<>>)
      [] proc \in {"Directness", "ValueWitnessKind", "PassID", "Identifier",
                   "TupleElementName", "Natural", "Index", "MetatypeRepresentation",
                   "BuiltinSize", "ParameterConvention", "ResultConvention",
                   "ImplCalleeConvention"} -> New1("leaf")
      [] proc \in {"ModuleName", "AssociatedTypeName"} -> New1("fresh")
      [] proc \in {"ProtocolNameGivenContext", "Function", "Variable", "Subscript",
                   "Initializer", "DependentMemberTypeName", "MoreMembers",
                   "Constraint"} -> Same("node")
      [] proc = "TypeArguments" -> From(<<"node", "plain">>, <<"node">>)
      [] OTHER -> New1("node")

\* The sort of a node of this kind that has just been made of remembered ones.
MadeOf(kind, otherwise) == IF kind \in Substitutable THEN "fresh" ELSE otherwise

\* The ways in which a step may be used.
Signatures(step) ==
    CASE step.op = "run"    -> <<OfProcedure(step.proc)>>
      [] step.op = "push"   -> <<New1(SortOf(step.node))>>
      [] step.op = "build"  -> <<From([i \in 1..Len(step.order) |-> "node"],
                                      <<MadeOf(step.kind, "plain")>>)>>
      [] step.op = "add"    -> <<From(<<"plain", "node">>, <<"plain">>),
                                 From(<<"header", "node">>, <<"header">>),
                                 From(<<"headed", "header">>, <<"headed">>),
                                 From(<<"global", "node">>, <<"global">>)>>
      [] step.op = "adopt"  -> <<From(<<"node", "fresh">>, <<"fresh">>)>>
      [] step.op = "drop"   -> <<From(<<"fresh">>, <<>>)>>
      [] step.op \in {"as", "spelled", "digit", "plus", "take", "operator"} -> <<Same("leaf")>>
      [] step.op = "decode" -> <<Same("leaf"), Same("fresh")>>
      [] step.op = "numbered" -> <<From(<<"header">>, <<"header", "plain">>)>>
      [] step.op = "slice"  -> <<From(<<"leaf">>, <<MadeOf(step.kind, "leaf")>>)>>
      [] step.op = "remainder" -> <<New1("leaf")>>
      [] step.op = "keep"   -> <<From(<<"fresh">>, <<"node">>)>>
      [] step.op = "forget" -> <<Same("headed")>>
      [] step.op = "recall" -> <<From(<<"leaf">>, <<"node">>)>>
      [] step.op = "bind"   -> <<From(<<"node", "node">>, <<"plain">>)>>
      [] step.op = "bykind" -> <<Same("node")>>
      [] step.op = "try"    -> <<IF step.failing = "resume" THEN Same("plain")
                                 ELSE OfProcedure(step.proc)>>
      [] step.op = "guard"  -> <<IF step.failing = "resume"
                                 THEN From(<<"plain", "node">>, <<"plain">>)
                                 ELSE From(<<>>, <<>>)>>
      [] OTHER -> <<From(<<>>, <<>>)>>

\* After these the parser does not go on with the next step.
Ending == {"fail", "overread", "stop"}
\* These need the root alone on the stack.
AtRoot(step) ==
    \/ step.op = "forget"
    \/ step.op = "run" /\ step.proc \in {"TopLevel", "Headers", "AfterHeader"}

--------------------------------------------------------------------------------
(* Typed steps and rows.                                                         *)

IsSeq(s) == Len(s) \in Nat /\ s = [i \in 1..Len(s) |-> s[i]]

\* The stack changes from X to Y, and nothing below its first f nodes.
Matches(sig, f, X, Y) ==
    /\ IsSeq(sig.takes) /\ IsSeq(sig.leaves)
    /\ Len(X) = f + Len(sig.takes) /\ Len(Y) = f + Len(sig.leaves)
    /\ \A i \in 1..f : Widens(X[i], Y[i])
    /\ \A i \in 1..Len(sig.takes) : Widens(X[f + i], sig.takes[i])
    /\ \A i \in 1..Len(sig.leaves) : Widens(sig.leaves[i], Y[f + i])

StepTyped(step, f, X, Y) ==
    /\ step.op \notin Ending =>
           \E k \in 1..Len(Signatures(step)) : Matches(Signatures(step)[k], f, X, Y)
    /\ AtRoot(step) => f = 0
    /\ step.op = "guard" /\ step.failing = "resume" => step.depth = Len(Y)

\* A stack of sorts before each step and behind the last one, and what each leaves alone.
Typed(do, T, F) ==
    /\ IsSeq(do)
    /\ T \in [1..(Len(do) + 1) -> Seq(Sorts)]
    /\ F \in [1..Len(do) -> Nat]
    /\ \A i \in 1..Len(do) : StepTyped(do[i], F[i], T[i], T[i + 1])

\* How TLC finds them: from X on, by the first signature that fits.
Usable(step, X) ==
    {k \in 1..Len(Signatures(step)) :
        LET takes == Signatures(step)[k].takes
            f == Len(X) - Len(takes)
        IN f >= 0 /\ \A i \in 1..Len(takes) : Widens(X[f + i], takes[i])}
Signature(step, X) == Signatures(step)[CHOOSE k \in Usable(step, X) : TRUE]
Untouched(step, X) ==
    IF step.op \in Ending \/ Usable(step, X) = {} THEN 0
    ELSE Len(X) - Len(Signature(step, X).takes)
After(step, X, Y) ==
    IF step.op \in Ending \/ Usable(step, X) = {} THEN Y
    ELSE SubSeq(X, 1, Untouched(step, X)) \o Signature(step, X).leaves
Inferred(do, X, Y) ==
    LET stacks[i \in 1..(Len(do) + 1)] ==
            IF i = 1 THEN X ELSE After(do[i - 1], stacks[i - 1], Y)
    IN [stacks |-> [i \in 1..(Len(do) + 1) |-> stacks[i]],
        floors |-> [i \in 1..Len(do) |-> Untouched(do[i], stacks[i])]]

TypedBetween(do, X, Y, T, F) ==
    Typed(do, T, F) /\ AllWiden(X, T[1]) /\ AllWiden(T[Len(do) + 1], Y)
RowTyped(do, X, Y) ==
    TypedBetween(do, X, Y, Inferred(do, X, Y).stacks, Inferred(do, X, Y).floors)

--------------------------------------------------------------------------------
(* Sound steps and grammars.                                                     *)

Nesting == {"bykind", "try", "guard"}
\* What a step says of itself.
Basic(step) ==
    CASE step.op = "run"   -> step.proc \in DOMAIN Grammar
      [] step.op = "push"  -> SortOf(step.node) \in Sorts
      [] step.op = "build" -> IsSeq(step.order)
                              /\ \A i \in 1..Len(step.order) : step.order[i] \in 1..Len(step.order)
      [] step.op \in {"as", "spelled", "numbered"} -> step.kind \notin Substitutable
      [] step.op = "digit" -> step.digit \in Nat
      [] step.op = "plus"  -> step.by \in Nat
      [] step.op = "choose" -> IsSeq(step.rows) /\ \A i \in 1..Len(step.rows) :
                                  step.rows[i].do = <<>> /\ step.rows[i].eat \in Nat
      [] step.op = "stop"  -> step.outcome = "unreachable"
      [] OTHER -> TRUE
Block(do, sig) ==
    /\ RowTyped(do, sig.takes, sig.leaves)
    /\ \A i \in 1..Len(do) : Basic(do[i]) /\ do[i].op \notin Nesting /\ ~AtRoot(do[i])
Sound(step) ==
    /\ Basic(step)
    /\ step.op = "bykind" => IsSeq(step.cases) /\ \A i \in 1..Len(step.cases) :
                                Block(step.cases[i].do, Same("node"))
    /\ step.op = "try" => /\ step.proc \in DOMAIN Grammar
                          /\ OfProcedure(step.proc) = New1("node")
    /\ step.op \in {"try", "guard"} =>
           \/ step.failing = "deref" /\ Block(step.then, From(<<>>, <<>>))
           \/ step.failing = "resume" /\ Block(step.then, From(<<"plain", "node">>, <<"plain">>))

\* The procedures that end the call, one after the other.
Finishing == {"TopLevel", "Headers", "AfterHeader", "Body", "Suffix"}
SoundRow(row, proc) ==
    /\ row.eat \in Nat
    /\ RowTyped(row.do, OfProcedure(proc).takes, OfProcedure(proc).leaves)
    /\ \A i \in 1..Len(row.do) :
           /\ Sound(row.do[i]) /\ row.do[i].op # "guard"
           /\ AtRoot(row.do[i]) => AtRoot(Run(proc))
    /\ proc \in Finishing \ {"Suffix"} =>
           /\ row.do # <<>>
           /\ row.do[Len(row.do)].op = "run" /\ row.do[Len(row.do)].proc \in Finishing

ASSUME GrammarAssumption ==
    /\ \A proc \in DOMAIN Grammar :
           /\ IsSeq(Grammar[proc])
           /\ \A i \in 1..Len(Grammar[proc]) : SoundRow(Grammar[proc][i], proc)
    /\ "TopLevel" \in DOMAIN Grammar
    /\ Grammar["Suffix"] = Suffix
================================================================================
