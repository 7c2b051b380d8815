---------------------------- MODULE SwiftDemangler -----------------------------
(* The recursive descent parser of swift/Basic/Demangle.cpp: it reads a mangled  *)
(* name letter by letter and builds a tree of nodes. The C++ call stack is       *)
(* `agenda`, what remains to be done; the nodes held by local variables are      *)
(* `values`. The text is chosen when the parser first looks at it.               *)
EXTENDS SwiftSorts, SequencesExt

CONSTANT Scenarios  \* families of names: how they start, and what may follow

ASSUME ScenariosAssumption ==
    \A s \in Scenarios :
        /\ IsSeq(s.start) /\ \A i \in 1..Len(s.start) : s.start[i] # END
        /\ END \notin s.letters /\ s.room \in Nat

VARIABLES scenario,  \* where the text comes from
          ahead,     \* letters chosen and not consumed: the head of NameSource
          room,      \* how many letters may still be chosen
          agenda,    \* the steps to take, the next one first
          values,    \* the nodes under construction, the latest one last
          subs,      \* Demangler::Substitutions
          outcome    \* of the call
vars == <<scenario, ahead, room, agenda, values, subs, outcome>>
input == <<scenario, ahead, room>>

Outcomes == {"running", "tree", "null", "overread", "unreachable", "deref"}

Start(s) ==
    /\ scenario = s
    /\ ahead = s.start
    /\ room = s.room
    /\ agenda = <<Run("TopLevel")>>
    /\ values = <<>>
    /\ subs = <<>>
    /\ outcome = "running"

Init == \E s \in Scenarios : Start(s)

--------------------------------------------------------------------------------
(* The text.                                                                     *)

Step == agenda[1]
Op(op) == outcome = "running" /\ agenda # <<>> /\ Step.op = op
Top == values[Len(values)]
Below == SubSeq(values, 1, Len(values) - 1)

Rows == IF Step.op = "run" THEN Grammar[Step.proc] ELSE Step.rows

\* A row fits the letters seen so far; the parser looks as far as the first that does.
Fits(row) ==
    \A i \in 1..Len(row.on) :
        i <= Len(ahead) => ahead[i] = row.on[i] \/ (row.on[i] = ANY /\ ahead[i] # END)
FirstRow == SelectInSeq(Rows, Fits)
AtEndOfText == ahead # <<>> /\ ahead[Len(ahead)] = END
Needs(n) == n > Len(ahead) /\ ~AtEndOfText

\* How far the next step looks.
Lookahead ==
    CASE Step.op \in {"run", "choose"} ->
           (LET at == FirstRow IN IF at = 0 THEN 0 ELSE Len(Rows[at].on))
      [] Step.op = "take"  -> 1
      [] Step.op = "slice" -> Top.index
      [] OTHER -> 0

\* One more letter of the text, or its end.
Read ==
    /\ outcome = "running" /\ agenda # <<>> /\ Needs(Lookahead)
    /\ \E c \in (IF room = 0 THEN {} ELSE scenario.letters) \cup {END} :
           ahead' = Append(ahead, c)
    /\ room' = IF room = 0 THEN 0 ELSE room - 1
    /\ UNCHANGED <<scenario, agenda, values, subs, outcome>>

\* NameSource::advanceOffset()
advanceOffset(n) == SubSeq(ahead, n + 1, Len(ahead))

--------------------------------------------------------------------------------
(* The steps.                                                                    *)

\* The call is over with the given outcome.
Stop(result) ==
    /\ outcome' = result
    /\ agenda' = <<>>

\* "return nullptr": through every caller up to one that handles it.
IsGuard(step) == step.op = "guard"
Failed ==
    LET at == SelectInSeq(agenda, IsGuard)
        resumed == at # 0 /\ agenda[at].failing = "resume"
    IN /\ IF resumed
          THEN /\ agenda' = SubSeq(agenda, at + 1, Len(agenda))
               /\ values' = SubSeq(values, 1, agenda[at].depth)
               /\ UNCHANGED outcome
          ELSE /\ Stop(IF at = 0 THEN "null" ELSE agenda[at].failing)
               /\ UNCHANGED values
       /\ UNCHANGED subs

\* A chain of nextIf(), or a procedure that consists of one.
Choose ==
    /\ Op("run") \/ Op("choose")
    /\ \E at \in {FirstRow} :
           IF at = 0 THEN Failed /\ UNCHANGED input
           ELSE LET row == Rows[at]
                IN /\ ~Needs(Len(row.on))
                   /\ agenda' = row.do \o Tail(agenda)
                   /\ ahead' = advanceOffset(row.eat)
                   /\ UNCHANGED <<scenario, room, values, subs, outcome>>

\* A step that replaces the topmost nodes and changes nothing else.
Replace(newValues) ==
    /\ agenda' = Tail(agenda)
    /\ values' = newValues
    /\ UNCHANGED <<input, subs, outcome>>

create == Op("push") /\ Replace(Append(values, Step.node))

\* A generic parameter is named after its depth and index.
ParamKinds == {"ArchetypeRef", "DependentGenericParamType"}
BuildNode ==
    /\ Op("build")
    /\ LET n == Len(Step.order)
           base == Len(values) - n
           kids == [i \in 1..n |-> values[base + Step.order[i]]]
           node == IF Step.kind \in ParamKinds
                   THEN Node(Step.kind, "text", archetypeName(kids[2].index, kids[1].index), 0, kids)
                   ELSE Node(Step.kind, "none", <<>>, 0, kids)
       IN Replace(Append(SubSeq(values, 1, base), node))

AddChild ==
    /\ Op("add")
    /\ Replace(Append(SubSeq(Below, 1, Len(Below) - 1), addChild(Below[Len(Below)], Top)))
AdoptChild ==
    /\ Op("adopt")
    /\ Replace(Append(SubSeq(Below, 1, Len(Below) - 1), addChild(Top, Below[Len(Below)])))
DropNode == Op("drop") /\ Replace(Below)

\* The payload of the topmost node goes into a node of another kind.
Retag ==
    \/ /\ Op("as")
       /\ Replace(Append(Below, Node(Step.kind, Top.has, Top.text, Top.index, <<>>)))
    \/ Op("spelled") /\ Replace(Append(Below, TextLeaf(Step.kind, <<"sized">>)))

\* paramCount: the children of the specialization behind its pass id.
NumberParam == Op("numbered") /\ Replace(Append(values, IndexLeaf(Step.kind, Len(Top.kids) - 1)))

Arithmetic ==
    \/ Op("digit") /\ Replace(Append(Below, [Top EXCEPT !.index = 10 * @ + Step.digit]))
    \/ Op("plus")  /\ Replace(Append(Below, [Top EXCEPT !.index = @ + Step.by]))

--------------------------------------------------------------------------------
(* Texts.                                                                        *)

\* Mutant: readUntil() without the check for the end.
TakeLetterUnchecked ==
    /\ Op("take") /\ ~Needs(1)
    /\ agenda' = Tail(agenda)
    /\ IF ahead[1] = END
       THEN UNCHANGED <<input, values>>
       ELSE /\ values' = Append(Below, [Top EXCEPT !.text = Append(@, ahead[1])])
            /\ ahead' = advanceOffset(1)
            /\ UNCHANGED <<scenario, room>>
    /\ UNCHANGED <<subs, outcome>>
TakeLetter ==
    /\ Op("take") /\ ~Needs(1)
    /\ IF ahead[1] = END
       THEN Failed /\ UNCHANGED input
       ELSE /\ agenda' = Tail(agenda)
            /\ values' = Append(Below, [Top EXCEPT !.text = Append(@, ahead[1])])
            /\ ahead' = advanceOffset(1)
            /\ UNCHANGED <<scenario, room, subs, outcome>>

\* The letters of an identifier: as many as its length says, and at least one.
SliceName ==
    /\ Op("slice") /\ ~Needs(Top.index)
    /\ LET n == Top.index
           letters == SubSeq(ahead, 1, n)
       IN IF n > Len(ahead) \/ Contains(letters, END)
          THEN Failed /\ UNCHANGED input
          ELSE IF n = 0 THEN Failed /\ UNCHANGED input
          ELSE /\ agenda' = Tail(agenda)
               /\ values' = Append(Below, TextLeaf(Step.kind, letters))
               /\ ahead' = advanceOffset(n)
               /\ UNCHANGED <<scenario, room, subs, outcome>>

\* decodePunycodeUTF8(): module Punycode says what it returns; here any text, or none.
DecodeName ==
    /\ Op("decode")
    /\ \/ Replace(Append(Below, [Top EXCEPT !.text = <<"unicode">>]))
       \/ Failed /\ UNCHANGED input

OperatorName ==
    /\ Op("operator")
    /\ IF \A i \in DOMAIN Top.text : Top.text[i] \in DOMAIN OperatorOf \cup {"unicode"}
       THEN Replace(Append(Below, [Top EXCEPT
                !.text = [i \in DOMAIN @ |-> IF @[i] = "unicode" THEN @[i] ELSE OperatorOf[@[i]]]]))
       ELSE Failed /\ UNCHANGED input

\* Mutant: the rest is copied and not consumed.
TakeRestUnread ==
    /\ Op("remainder")
    /\ Replace(Append(values, TextLeaf("Suffix", <<"suffix">>)))
\* getString(): all the rest becomes the suffix.
TakeRest ==
    /\ Op("remainder")
    /\ agenda' = Tail(agenda)
    /\ values' = Append(values, TextLeaf("Suffix", <<"suffix">>))
    /\ ahead' = <<END>>
    /\ room' = 0
    /\ UNCHANGED <<scenario, subs, outcome>>

--------------------------------------------------------------------------------
(* Substitutions and control.                                                    *)

\* Mutants: modules get no index; the new substitution becomes the first one.
RememberTypes ==
    /\ Op("keep")
    /\ agenda' = Tail(agenda)
    /\ subs' = IF Top.kind = "Module" THEN subs ELSE Append(subs, Top)
    /\ UNCHANGED <<input, values, outcome>>
RememberAtFront ==
    /\ Op("keep")
    /\ agenda' = Tail(agenda)
    /\ subs' = <<Top>> \o subs
    /\ UNCHANGED <<input, values, outcome>>
Remember ==
    /\ Op("keep")
    /\ agenda' = Tail(agenda)
    /\ subs' = Append(subs, Top)
    /\ UNCHANGED <<input, values, outcome>>

ForgetAll ==
    /\ Op("forget")
    /\ agenda' = Tail(agenda)
    /\ subs' = <<>>
    /\ UNCHANGED <<input, values, outcome>>

RecallSubstitution ==
    /\ Op("recall")
    /\ IF Top.index >= Len(subs)
       THEN Failed /\ UNCHANGED input
       ELSE Replace(Append(Below, subs[Top.index + 1]))

KindCase ==
    /\ Op("bykind")
    /\ LET Covers(case) == case.kinds = {} \/ Top.kind \in case.kinds
           at == SelectInSeq(Step.cases, Covers)
       IN IF at = 0
          THEN Failed /\ UNCHANGED input
          ELSE /\ agenda' = Step.cases[at].do \o Tail(agenda)
               /\ UNCHANGED <<input, values, subs, outcome>>

\* A generic type and its arguments; only these can be generic.
BoundKinds == [Class |-> "BoundGenericClass", Structure |-> "BoundGenericStructure",
               Enum |-> "BoundGenericEnum"]
BindGeneric ==
    /\ Op("bind")
    /\ LET unbound == Below[Len(Below)]
           kind == unbound.kids[1].kind
       IN IF kind \notin DOMAIN BoundKinds
          THEN Failed /\ UNCHANGED input
          ELSE Replace(Append(SubSeq(Below, 1, Len(Below) - 1),
                              Node(BoundKinds[kind], "none", <<>>, 0, <<unbound, Top>>)))

Guarded ==
    /\ Op("try")
    /\ agenda' = <<Run(Step.proc), [op |-> "guard", failing |-> Step.failing,
                                    depth |-> Len(values), then |-> Step.then]>> \o Tail(agenda)
    /\ UNCHANGED <<input, values, subs, outcome>>
Passed ==
    /\ Op("guard")
    /\ agenda' = Step.then \o Tail(agenda)
    /\ UNCHANGED <<input, values, subs, outcome>>

ReturnNull == Op("fail") /\ Failed /\ UNCHANGED input
\* front() of an empty StringRef asserts, or reads the terminator of the string, which
\* is none of the letters asked for.
ReadPastEnd == Op("overread") /\ (Failed \/ (Stop("overread") /\ UNCHANGED <<values, subs>>))
                              /\ UNCHANGED input
Abort == Op("stop") /\ Stop(Step.outcome) /\ UNCHANGED <<input, values, subs>>
Return ==
    /\ outcome = "running" /\ agenda = <<>>
    /\ Stop("tree")
    /\ UNCHANGED <<input, values, subs>>

Next ==
    \/ Read \/ Choose \/ create \/ BuildNode \/ AddChild \/ AdoptChild \/ DropNode \/ Retag
    \/ NumberParam \/ Arithmetic \/ TakeLetter \/ SliceName \/ DecodeName \/ OperatorName
    \/ TakeRest \/ Remember \/ ForgetAll \/ RecallSubstitution \/ KindCase \/ BindGeneric
    \/ Guarded \/ Passed \/ ReturnNull \/ ReadPastEnd \/ Abort \/ Return

Spec == Init /\ [][Next]_vars /\ WF_vars(Next)
================================================================================
