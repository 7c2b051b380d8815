----------------------------- MODULE SwiftGrammar ------------------------------
(* The grammar of swift/Basic/Demangle.cpp, class Demangler, as data. A          *)
(* procedure of the source is a sequence of rows, tried in order: a row says     *)
(* which letters it is about and what to do then. No row that fits is the        *)
(* source's final "return nullptr". Module SwiftDemangler executes it.           *)
EXTENDS SwiftNodes

--------------------------------------------------------------------------------
(* Rows.                                                                         *)

END == "end of input"
ANY == "any letter"

\* if (Mangled.nextIf(letters)) do
Row(letters, do) == [on |-> letters, eat |-> Len(letters), do |-> do]
\* if (Mangled.peek() == letter) do
At(letter, do) == [on |-> <<letter>>, eat |-> 0, do |-> do]
AtOneOf(letters, do) == [i \in DOMAIN letters |-> At(letters[i], do)]
AtEnd(do) == At(END, do)
\* Mangled.next(), whatever it is
AnyLetter(do) == [on |-> <<ANY>>, eat |-> 1, do |-> do]
Else(do) == [on |-> <<>>, eat |-> 0, do |-> do]
\* next() behind the last letter
RowAtEnd(letters, do) == [on |-> Append(letters, END), eat |-> Len(letters), do |-> do]

Digits == <<"0", "1", "2", "3", "4", "5", "6", "7", "8", "9">>

--------------------------------------------------------------------------------
(* Steps. Each works on the stack of nodes under construction.                   *)

Run(proc)        == [op |-> "run", proc |-> proc]
Expect(letter)   == [op |-> "choose", rows |-> <<Row(<<letter>>, <<>>)>>]
Push(node)       == [op |-> "push", node |-> node]
New(kind)        == Push(Leaf(kind))
NewText(kind, t) == Push(TextLeaf(kind, <<t>>))
NewIndex(kind, n) == Push(IndexLeaf(kind, n))
\* create(kind) and addChild() of the topmost nodes, in the order given
BuildFrom(kind, order) == [op |-> "build", kind |-> kind, order |-> order]
Build(kind, n)   == BuildFrom(kind, [i \in 1..n |-> i])
Add              == [op |-> "add"]
\* the same payload under another kind
As(kind)         == [op |-> "as", kind |-> kind]
Spelled(kind)    == [op |-> "spelled", kind |-> kind]
Drop             == [op |-> "drop"]
Adopt            == [op |-> "adopt"]
Numbered(kind)   == [op |-> "numbered", kind |-> kind]
Digit(d)         == [op |-> "digit", digit |-> d]
Plus(n)          == [op |-> "plus", by |-> n]
Take             == [op |-> "take"]
Slice(kind)      == [op |-> "slice", kind |-> kind]
Decode           == [op |-> "decode"]
Operator         == [op |-> "operator"]
Remainder        == [op |-> "remainder"]
Keep             == [op |-> "keep"]
Forget           == [op |-> "forget"]
Recall           == [op |-> "recall"]
Bind             == [op |-> "bind"]
\* a switch over getKind(); a case without kinds is the default
Case(kinds, do)  == [kinds |-> kinds, do |-> do]
ByKind(cases)    == [op |-> "bykind", cases |-> cases]
Fail             == [op |-> "fail"]
\* unreachable(): abort()
Unreachable      == [op |-> "stop", outcome |-> "unreachable"]
\* peek() or next() behind the last letter
Overread         == [op |-> "overread"]
\* a procedure whose failure is handled: go on behind it, or use the null it returned
Try(proc, then)  == [op |-> "try", proc |-> proc, failing |-> "resume", then |-> then]
Deref(proc)      == [op |-> "try", proc |-> proc, failing |-> "deref", then |-> <<>>]

\* DEMANGLE_CHILD_OR_RETURN, for a node with nothing else in it.
Around(kind, procs) == [i \in DOMAIN procs |-> Run(procs[i])] \o <<Build(kind, Len(procs))>>
\* DEMANGLE_CHILD_OR_RETURN
Child(proc) == <<Run(proc), Add>>

--------------------------------------------------------------------------------
(* Top level and globals.                                                        *)

demangleTopLevel ==
    LET Attributed(letter, kind) ==
          Row(<<"_", "T", "T", letter>>, <<New("Global"), New(kind), Add, Run("Body")>>)
    IN <<Row(<<"_", "T", "T", "S">>, <<New("Global"), Run("Headers")>>),
         Attributed("o", "ObjCAttribute"),
         Attributed("O", "NonObjCAttribute"),
         Attributed("D", "DynamicAttribute"),
         Attributed("d", "DirectMethodReferenceAttribute"),
         Attributed("V", "VTableAttribute"),
         Row(<<"_", "T">>, <<New("Global"), Run("Body")>>)>>

\* Mutant: the substitutions of a header survive it.
HeadersShared == <<Else(Child("SpecializedAttribute") \o <<Run("AfterHeader")>>)>>

\* The loop over specialization headers, which share no substitutions with the rest.
Headers == <<Else(Child("SpecializedAttribute") \o <<Forget, Run("AfterHeader")>>)>>
AfterHeader == <<Row(<<"_", "T", "T", "S">>, <<Run("Headers")>>),
                 Row(<<"_", "T">>, <<Run("Body")>>)>>

Body == <<Else(Child("Global") \o <<Run("Suffix")>>)>>
Suffix == <<AtEnd(<<>>), Else(<<Remainder, Add>>)>>

demangleGlobal ==
    LET Type1(letters, kind) == Row(letters, Around(kind, <<"Type">>))
        Conformance(letter, kind) == Row(<<"W", letter>>, Around(kind, <<"ProtocolConformance">>))
        Thunk(letter, kind) ==
          <<Row(<<"T", letter, "G">>, Around(kind, <<"GenericSignature", "Type", "Type">>)),
            Row(<<"T", letter>>, Around(kind, <<"Type", "Type">>))>>
    IN <<Type1(<<"M", "P">>, "GenericTypeMetadataPattern"),
         Type1(<<"M", "a">>, "TypeMetadataAccessFunction"),
         Type1(<<"M", "L">>, "TypeMetadataLazyCache"),
         Type1(<<"M", "m">>, "Metaclass"),
         Type1(<<"M", "n">>, "NominalTypeDescriptor"),
         Type1(<<"M", "f">>, "FullTypeMetadata"),
         Row(<<"M", "p">>, Around("ProtocolDescriptor", <<"ProtocolName">>)),
         Type1(<<"M">>, "TypeMetadata"),
         Row(<<"P", "A", "o">>, <<New("PartialApplyObjCForwarder"), Run("Forwarded")>>),
         Row(<<"P", "A">>, <<New("PartialApplyForwarder"), Run("Forwarded")>>),
         Row(<<"P">>, <<Fail>>),
         Type1(<<"t">>, "TypeMangling"),
         Row(<<"w">>, <<Run("ValueWitnessKind")>> \o Child("Type")),
         Type1(<<"W", "V">>, "ValueWitnessTable"),
         Row(<<"W", "o">>, Around("WitnessTableOffset", <<"Entity">>)),
         Row(<<"W", "v">>, Around("FieldOffset", <<"Directness", "Entity">>)),
         Conformance("P", "ProtocolWitnessTable"),
         Conformance("G", "GenericProtocolWitnessTable"),
         Conformance("I", "GenericProtocolWitnessTableInstantiationFunction"),
         Row(<<"W", "l">>, Around("LazyProtocolWitnessTableAccessor",
                                  <<"Type", "ProtocolConformance">>)),
         Row(<<"W", "L">>, Around("LazyProtocolWitnessTableCacheVariable",
                                  <<"Type", "ProtocolConformance">>)),
         Conformance("a", "ProtocolWitnessTableAccessor"),
         Row(<<"W", "t">>, Around("AssociatedTypeMetadataAccessor",
                                  <<"ProtocolConformance", "DeclName">>)),
         Row(<<"W", "T">>, Around("AssociatedTypeWitnessTableAccessor",
                                  <<"ProtocolConformance", "DeclName", "ProtocolName">>)),
         Row(<<"W">>, <<Fail>>)>>
       \o Thunk("R", "ReabstractionThunkHelper") \o Thunk("r", "ReabstractionThunk")
       \o <<Row(<<"T", "W">>, Around("ProtocolWitness", <<"ProtocolConformance", "Entity">>)),
            Row(<<"T">>, <<Fail>>),
            AtEnd(<<Fail>>),
            Else(<<Run("Entity")>>)>>

PartialApply == <<Row(<<"_", "_", "T">>, Child("Global")), Else(<<>>)>>

demangleDirectness == <<Row(<<"d">>, <<NewIndex("Directness", 0)>>),
                        Row(<<"i">>, <<NewIndex("Directness", 1)>>)>>

\* The two letters of a value witness, by ValueWitnessKind.
WitnessLetters ==
    <<<<"a", "l">>, <<"c", "a">>, <<"t", "a">>, <<"d", "e">>, <<"x", "x">>, <<"X", "X">>,
      <<"C", "P">>, <<"C", "p">>, <<"c", "p">>, <<"T", "k">>, <<"t", "k">>, <<"p", "r">>,
      <<"T", "K">>, <<"X", "x">>, <<"C", "c">>, <<"T", "t">>, <<"t", "T">>, <<"x", "s">>,
      <<"x", "g">>, <<"u", "g">>, <<"u", "p">>>>

demangleValueWitnessKind ==
    [i \in DOMAIN WitnessLetters |->
        Row(WitnessLetters[i], <<NewIndex("ValueWitness", i - 1)>>)]
    \o <<Row(<<ANY, ANY>>, <<Fail>>), AnyLetter(<<Fail>>)>>

--------------------------------------------------------------------------------
(* Specializations.                                                              *)

demangleSpecializedAttribute ==
    <<Row(<<"g">>, <<New("GenericSpecialization"), Run("PassID"), Add,
                     Run("GenericSpecialization")>>),
      Row(<<"f">>, <<New("FunctionSignatureSpecialization"), Run("PassID"), Add,
                     Run("FunctionSignatureSpecialization")>>)>>

\* Any letter is a pass id; which one makes no difference.
PassID == <<AtEnd(<<Overread>>), AnyLetter(<<NewIndex("SpecializationPassID", 0)>>)>>

demangleGenericSpecialization ==
    <<Row(<<"_">>, <<>>),
      Else(<<Run("Type"), Build("GenericSpecializationParam", 1), Run("Conformances"), Add,
             Run("GenericSpecialization")>>)>>
Conformances == <<Row(<<"_">>, <<>>),
                  Else(Child("ProtocolConformance") \o <<Run("Conformances")>>)>>

\* FUNCSIGSPEC_CREATE_PARAM_KIND and FUNCSIGSPEC_CREATE_PARAM_PAYLOAD.
ParamKind(n) == <<NewIndex("FunctionSignatureSpecializationParamKind", n), Add>>
ParamPayload == <<As("FunctionSignatureSpecializationParamPayload"), Add>>

demangleFuncSigSpecializationConstantProp ==
    LET Named(n) == ParamKind(n) \o <<Run("Identifier")>> \o ParamPayload \o <<Expect("_")>>
        Number(n) == ParamKind(n) \o <<Push(TextLeaf("Number", <<>>)), Run("UpTo_")>> \o ParamPayload
        Quoted(encoding) ==
          ParamKind(4) \o <<NewText("FunctionSignatureSpecializationParamPayload", encoding), Add,
                            Expect("v"), Run("Identifier")>> \o ParamPayload \o <<Expect("_")>>
    IN <<Row(<<"f", "r">>, Named(0)),
         Row(<<"g">>, Named(1)),
         Row(<<"i">>, Number(2)),
         Row(<<"f", "l">>, Number(3)),
         Row(<<"s", "e", "0">>, Quoted("u8")),
         Row(<<"s", "e", "1">>, Quoted("u16")),
         RowAtEnd(<<"s", "e">>, <<Overread>>),
         Row(<<"s">>, <<Fail>>),
         Else(<<Unreachable>>)>>

\* NameSource::readUntil('_') and the terminator.
readUntil == <<Row(<<"_">>, <<>>), Else(<<Take, Run("UpTo_")>>)>>

demangleFuncSigSpecializationClosureProp ==
    <<Else(ParamKind(5) \o <<Run("Identifier")>> \o ParamPayload \o <<Run("ClosureTypes"), Expect("_")>>)>>
\* Types until one fails: what it consumed and remembered stays.
ClosureTypes == <<At("_", <<>>), AtEnd(<<Overread>>),
                  Else(<<Try("Type", <<Add, Run("ClosureTypes")>>)>>)>>

demangleFunctionSignatureSpecialization ==
    LET Parameter == "FunctionSignatureSpecializationParam"
        Options(letters, n) == Row(letters \o <<"_">>, ParamKind(n))
        Then(rows) == [i \in DOMAIN rows |->
              [rows[i] EXCEPT !.do = <<Numbered(Parameter)>> \o @
                                     \o <<Add, Run("FunctionSignatureSpecialization")>>]]
    IN <<Row(<<"_">>, <<>>)>> \o
       Then(<<Row(<<"n", "_">>, <<>>),
              Row(<<"c", "p">>, <<Run("ConstantProp")>>),
              Row(<<"c", "l">>, <<Run("ClosureProp")>>),
              Row(<<"i", "_">>, ParamKind(6)),
              Row(<<"k", "_">>, ParamKind(7)),
              Options(<<"d", "g", "s">>, 64 + 128 + 256), Options(<<"d", "g">>, 64 + 128),
              Options(<<"d", "s">>, 64 + 256), Options(<<"d">>, 64),
              Options(<<"g", "s">>, 128 + 256), Options(<<"g">>, 128), Options(<<"s">>, 256)>>)

--------------------------------------------------------------------------------
(* Names and numbers.                                                            *)

demangleDeclName ==
    <<Row(<<"L">>, Around("LocalDeclName", <<"Index", "Identifier">>)),
      Row(<<"P">>, Around("PrivateDeclName", <<"Identifier", "Identifier">>)),
      Else(<<Run("Identifier")>>)>>

\* The optional kind of the source tells the callers apart; operators are only
\* names where no kind is asked for.
demangleIdentifier(kind, operators) ==
    LET Operators(prefix) ==
          IF ~operators THEN <<Row(prefix \o <<"o">>, <<Fail>>)>>
          ELSE LET Fixity(letter, as) ==
                     Row(prefix \o <<"o", letter>>, <<Run("Natural"), Slice(as)>>
                            \o (IF prefix = <<>> THEN <<>> ELSE <<Decode>>) \o <<Operator>>)
               IN <<Fixity("p", "PrefixOperator"), Fixity("P", "PostfixOperator"),
                    Fixity("i", "InfixOperator"),
                    RowAtEnd(prefix \o <<"o">>, <<Overread>>),
                    Row(prefix \o <<"o", ANY>>, <<Fail>>)>>
    IN Operators(<<"X">>) \o <<Row(<<"X">>, <<Run("Natural"), Slice(kind), Decode>>)>>
       \o Operators(<<>>) \o <<Else(<<Run("Natural"), Slice(kind)>>)>>

\* op_char_table
OperatorOf ==
    [a |-> "&", c |-> "@", d |-> "/", e |-> "=", g |-> ">", l |-> "<", m |-> "*", n |-> "!",
     o |-> "|", p |-> "+", q |-> "?", r |-> "%", s |-> "-", t |-> "~", x |-> "^", z |-> "."]

demangleNatural ==
    [i \in DOMAIN Digits |-> Row(<<Digits[i]>>, <<NewIndex("Number", i - 1), Run("MoreDigits")>>)]
    \o <<AnyLetter(<<Fail>>)>>
MoreDigits ==
    [i \in DOMAIN Digits |-> Row(<<Digits[i]>>, <<Digit(i - 1), Run("MoreDigits")>>)]
    \o <<Else(<<>>)>>

demangleIndex == <<Row(<<"_">>, <<NewIndex("Number", 0)>>),
                   Else(<<Run("Natural"), Expect("_"), Plus(1)>>)>>

demangleSubstitutionIndex ==
    LET Standard(letter, kind, name) == Row(<<letter>>, <<Push(createSwiftType(kind, name))>>)
    IN <<Row(<<"o">>, <<Push(ObjC)>>),
         Row(<<"C">>, <<Push(Clang)>>),
         Standard("a", "Structure", "Array"),
         Standard("b", "Structure", "Bool"),
         Standard("c", "Structure", "UnicodeScalar"),
         Standard("d", "Structure", "Double"),
         Standard("f", "Structure", "Float"),
         Standard("i", "Structure", "Int"),
         Standard("P", "Structure", "UnsafePointer"),
         Standard("p", "Structure", "UnsafeMutablePointer"),
         Standard("q", "Enum", "Optional"),
         Standard("Q", "Enum", "ImplicitlyUnwrappedOptional"),
         Standard("R", "Structure", "UnsafeBufferPointer"),
         Standard("r", "Structure", "UnsafeMutableBufferPointer"),
         Standard("S", "Structure", "String"),
         Standard("u", "Structure", "UInt"),
         Else(<<Run("Index"), Recall>>)>>

--------------------------------------------------------------------------------
(* Modules, contexts and declarations.                                           *)

demangleModule ==
    <<Row(<<"s">>, <<Push(Stdlib)>>),
      Row(<<"S">>, <<Run("SubstitutionIndex"), ByKind(<<Case({"Module"}, <<>>)>>)>>),
      Else(<<Run("ModuleName"), Keep>>)>>

\* demangleDeclarationName(kind)
DeclarationName(kind) == Around(kind, <<"Context", "DeclName">>) \o <<Keep>>

demangleProtocolName == <<Else(Around("Type", <<"ProtocolNameImpl">>))>>
\* The context is on the stack.
demangleProtocolNameGivenContext ==
    <<Else(<<Run("DeclName"), Build("Protocol", 2), Keep>>)>>
demangleProtocolNameImpl ==
    <<Row(<<"S">>, <<Run("SubstitutionIndex"),
                     ByKind(<<Case({"Protocol"}, <<>>),
                              Case({"Module"}, <<Run("ProtocolNameGivenContext")>>)>>)>>),
      Row(<<"s">>, <<Push(Stdlib), Run("ProtocolNameGivenContext")>>),
      Else(DeclarationName("Protocol"))>>

demangleNominalType ==
    <<Row(<<"S">>, <<Run("SubstitutionIndex")>>),
      Row(<<"V">>, DeclarationName("Structure")),
      Row(<<"O">>, DeclarationName("Enum")),
      Row(<<"C">>, DeclarationName("Class")),
      Row(<<"P">>, DeclarationName("Protocol"))>>

\* isStartOfEntity(); Z stands for static.
EntityLetters == <<"F", "I", "v", "P", "s", "Z", "C", "V", "O">>

demangleContext ==
    <<AtEnd(<<Fail>>),
      Row(<<"E">>, Around("Extension", <<"Module", "Context">>)),
      Row(<<"e">>, <<Run("Module"), Run("GenericSignature"), Run("Context"),
                     BuildFrom("Extension", <<1, 3, 2>>)>>),
      Row(<<"S">>, <<Run("SubstitutionIndex")>>),
      Row(<<"s">>, <<Push(Stdlib)>>)>>
    \o AtOneOf(EntityLetters, <<Run("Entity")>>)
    \o <<Else(<<Run("Module")>>)>>

demangleProtocolList == <<Else(<<New("TypeList"), Run("Protocols"), Build("ProtocolList", 1)>>)>>
Protocols == <<Row(<<"_">>, <<>>), Else(Child("ProtocolName") \o <<Run("Protocols")>>)>>

demangleProtocolConformance ==
    <<Else(Around("ProtocolConformance", <<"Type", "ProtocolName", "Context">>))>>

--------------------------------------------------------------------------------
(* Entities. The context is on the stack when the name is parsed.                *)

EntityKinds == [F |-> "Function", v |-> "Variable", I |-> "Initializer", i |-> "Subscript"]

demangleEntity ==
    LET Of(letter) == <<Run("Context"), Run(EntityKinds[letter])>>
        Kinds == <<"F", "v", "I", "i">>
    IN [i \in DOMAIN Kinds |-> Row(<<"Z", Kinds[i]>>, Of(Kinds[i]) \o <<Build("Static", 1)>>)]
       \o <<Row(<<"Z">>, <<Run("NominalType")>>)>>
       \o [i \in DOMAIN Kinds |-> Row(<<Kinds[i]>>, Of(Kinds[i]))]
       \o <<Else(<<Run("NominalType")>>)>>

\* Mutant: the type of an entity is not parsed.
NamedUntyped(kind) == <<Run("DeclName"), Build(kind, 2)>>
NamedTyped(kind) == <<Run("DeclName"), Run("Type"), Build(kind, 3)>>
IndexedTyped(kind) == <<Run("Index"), Run("Type"), Build(kind, 3)>>

\* The names every kind of entity can have.
EntityNames ==
    LET Accessor(letters, kind) == Row(letters, NamedTyped(kind))
    IN <<Row(<<"D">>, <<Build("Deallocator", 1)>>),
         Row(<<"d">>, <<Build("Destructor", 1)>>),
         Row(<<"e">>, <<Build("IVarInitializer", 1)>>),
         Row(<<"E">>, <<Build("IVarDestroyer", 1)>>),
         Row(<<"C">>, <<Run("Type"), Build("Allocator", 2)>>),
         Row(<<"c">>, <<Run("Type"), Build("Constructor", 2)>>),
         Accessor(<<"a", "O">>, "OwningMutableAddressor"),
         Accessor(<<"a", "o">>, "NativeOwningMutableAddressor"),
         Accessor(<<"a", "p">>, "NativePinningMutableAddressor"),
         Accessor(<<"a", "u">>, "UnsafeMutableAddressor"),
         Row(<<"a">>, <<Fail>>),
         Accessor(<<"l", "O">>, "OwningAddressor"),
         Accessor(<<"l", "o">>, "NativeOwningAddressor"),
         Accessor(<<"l", "p">>, "NativePinningAddressor"),
         Accessor(<<"l", "u">>, "UnsafeAddressor"),
         Row(<<"l">>, <<Fail>>),
         Accessor(<<"g">>, "Getter"),
         Accessor(<<"G">>, "GlobalGetter"),
         Accessor(<<"s">>, "Setter"),
         Accessor(<<"m">>, "MaterializeForSet"),
         Accessor(<<"w">>, "WillSet"),
         Accessor(<<"W">>, "DidSet"),
         Row(<<"U">>, IndexedTyped("ExplicitClosure")),
         Row(<<"u">>, IndexedTyped("ImplicitClosure"))>>

EntityNameOf(kind) == EntityNames \o <<Else(NamedTyped(kind))>>
InitializerName ==
    EntityNames \o <<Row(<<"A">>, <<Run("Index"), Build("DefaultArgumentInitializer", 2)>>),
                     Row(<<"i">>, <<Build("Initializer", 1)>>)>>

--------------------------------------------------------------------------------
(* Generic parameters, associated types, signatures.                             *)

\* depth and index, then getDependentGenericParamType()
demangleGenericParamIndex ==
    LET Param == Build("DependentGenericParamType", 2)
        Index == As("Index")
    IN <<Row(<<"d">>, <<Run("Index"), Plus(1), Index, Run("Index"), Index, Param>>),
         Row(<<"x">>, <<NewIndex("Index", 0), NewIndex("Index", 0), Param>>),
         Else(<<NewIndex("Index", 0), Run("Index"), Plus(1), Index, Param>>)>>

\* The base is on the stack.
demangleDependentMemberTypeName ==
    LET Member == Build("DependentMemberType", 2)
    IN <<Row(<<"S">>, <<Deref("SubstitutionIndex"),
                        ByKind(<<Case({"DependentAssociatedTypeRef"}, <<>>)>>), Member>>),
         Row(<<"P">>, <<Run("ProtocolName"), Run("AssociatedTypeName"), Adopt, Keep, Member>>),
         Else(<<Run("AssociatedTypeName"), Keep, Member>>)>>

demangleAssociatedTypeSimple ==
    <<Else(<<Run("GenericParamIndex"), Build("Type", 1), Run("DependentMemberTypeName")>>)>>
demangleAssociatedTypeCompound == <<Else(<<Run("GenericParamIndex"), Run("MoreMembers")>>)>>
MoreMembers ==
    <<Row(<<"_">>, <<>>),
      Else(<<Build("Type", 1), Run("DependentMemberTypeName"), Run("MoreMembers")>>)>>

demangleDependentType ==
    <<AtEnd(<<Fail>>)>>
    \o AtOneOf(Digits \o <<"d", "_">>, <<Run("GenericParamIndex")>>)
    \o <<Else(<<Run("Type"), Run("DependentMemberTypeName")>>)>>

demangleConstrainedType ==
    LET Constrained(proc) == Around("Type", <<proc>>)
    IN <<Row(<<"w">>, Constrained("AssociatedTypeSimple")),
         Row(<<"W">>, Constrained("AssociatedTypeCompound")),
         Else(Constrained("GenericParamIndex"))>>

\* The counts of parameters per depth; none mangled means exactly one.
demangleGenericSignature == <<Else(<<New("DependentGenericSignature"), Run("ParamCounts")>>)>>
AddCount == <<As("DependentGenericParamCount"), Add, Run("MoreCounts")>>
CountRows == <<AtEnd(<<Overread>>),
               Row(<<"z">>, <<NewIndex("Number", 0)>> \o AddCount),
               Else(<<Run("Index"), Plus(1)>> \o AddCount)>>
ParamCounts == AtOneOf(<<"R", "r">>, <<NewIndex("Number", 1)>> \o AddCount) \o CountRows
MoreCounts == AtOneOf(<<"R", "r">>, <<Run("Requirements")>>) \o CountRows
Requirements == <<Row(<<"r">>, <<>>), Row(<<"R">>, <<Run("MoreRequirements")>>)>>
MoreRequirements == <<Row(<<"r">>, <<>>),
                      Else(Child("GenericRequirement") \o <<Run("MoreRequirements")>>)>>

demangleMetatypeRepresentation ==
    <<Row(<<"t">>, <<NewText("MetatypeRepresentation", "@thin")>>),
      Row(<<"T">>, <<NewText("MetatypeRepresentation", "@thick")>>),
      Row(<<"o">>, <<NewText("MetatypeRepresentation", "@objc_metatype")>>),
      Else(<<Unreachable>>)>>

demangleGenericRequirement == <<Else(<<Run("ConstrainedType"), Run("Constraint")>>)>>
Constraint ==
    LET Conforms == Build("DependentGenericConformanceRequirement", 2)
    IN <<Row(<<"z">>, <<Run("Type"), Build("DependentGenericSameTypeRequirement", 2)>>),
         AtEnd(<<Fail>>),
         At("C", <<Run("Type"), Conforms>>),
         Row(<<"S">>, <<Run("SubstitutionIndex"),
                        ByKind(<<Case({"Protocol", "Class"}, <<>>),
                                 Case({"Module"}, <<Run("ProtocolNameGivenContext")>>)>>),
                        Build("Type", 1), Conforms>>),
         Else(<<Run("ProtocolName"), Conforms>>)>>

demangleArchetypeType ==
    LET Self == <<Build("SelfTypeRef", 1), Keep>>
        Associated == <<Run("Identifier"), Build("AssociatedTypeRef", 2), Keep>>
        Archetype == Build("ArchetypeRef", 2)
        Index == As("Index")
    IN <<Row(<<"P">>, <<Run("ProtocolName")>> \o Self),
         Row(<<"Q">>, <<Run("ArchetypeType")>> \o Associated),
         Row(<<"S">>, <<Run("SubstitutionIndex"),
                        ByKind(<<Case({"Protocol"}, Self), Case({}, Associated)>>)>>),
         Row(<<"s">>, <<Push(Stdlib)>> \o Associated),
         Row(<<"d">>, <<Run("Index"), Plus(1), Index, Run("Index"), Index, Archetype>>),
         Row(<<"q">>, <<Run("Index"), Run("Context"), Build("DeclContext", 1),
                        Build("QualifiedArchetype", 2)>>),
         Else(<<NewIndex("Index", 0), Run("Index"), Index, Archetype>>)>>

--------------------------------------------------------------------------------
(* Types.                                                                        *)

demangleType == <<Else(Around("Type", <<"TypeImpl">>))>>

\* demangleTuple(): the elements, added to the tuple on the stack.
demangleTuple ==
    LET Labelled == <<Run("TupleElementName"), Run("Type"), Build("TupleElement", 2)>>
        Next == <<Add, Run("Tuple")>>
    IN <<Row(<<"_">>, <<>>), AtEnd(<<Fail>>)>>
       \o AtOneOf(Digits \o <<"o">>, Labelled \o Next)
       \o <<Else(Around("TupleElement", <<"Type">>) \o Next)>>

\* demangleFunctionType(kind) behind the given letters
FunctionRows(letters, kind) ==
    LET ArgumentsAndResult == <<Run("Type"), Build("ArgumentTuple", 1),
                                Run("Type"), Build("ReturnType", 1)>>
    IN <<Row(letters \o <<"z">>,
             <<New("ThrowsAnnotation")>> \o ArgumentsAndResult \o <<Build(kind, 3)>>),
         Row(letters, ArgumentsAndResult \o <<Build(kind, 2)>>)>>

BuiltinRows ==
    LET Builtin(letter, name) == Row(<<"B", letter>>, <<NewText("BuiltinTypeName", name)>>)
        Sized(letter) == Row(<<"B", letter>>, <<Run("BuiltinSize"), Spelled("BuiltinTypeName")>>)
    IN <<Builtin("b", "BridgeObject"), Builtin("B", "UnsafeValueBuffer"),
         Sized("f"), Sized("i"),
         Row(<<"B", "v">>, <<Run("Natural"), Spelled("BuiltinTypeName"), Run("VectorElement")>>),
         Builtin("O", "UnknownObject"), Builtin("o", "NativeObject"),
         Builtin("p", "RawPointer"), Builtin("w", "Word"),
         Row(<<"B", ANY>>, <<Fail>>), Row(<<"B">>, <<Fail>>)>>
demangleBuiltinSize == <<Else(<<Run("Natural"), Expect("_")>>)>>
\* The size is only part of the name.
VectorElement ==
    LET Sized == <<Run("BuiltinSize"), Drop>>
    IN <<Row(<<"B", "i">>, Sized), Row(<<"B", "f">>, Sized),
         Row(<<"B", "p">>, <<>>), Row(<<"B">>, <<Fail>>)>>

TypeArguments == <<Row(<<"_">>, <<Bind>>), Else(Child("Type") \o <<Run("TypeArguments")>>)>>

demangleTypeImpl ==
    LET Wrapped(letters, kind) == Row(letters, Around(kind, <<"Type">>))
        To(letters, proc) == Row(letters, <<Run(proc)>>)
        Represented(letters, kind) ==
          Row(letters, Around(kind, <<"MetatypeRepresentation", "Type">>))
    IN BuiltinRows \o <<Row(<<"a">>, DeclarationName("TypeAlias"))>>
       \o FunctionRows(<<"b">>, "ObjCBlock")
       \o FunctionRows(<<"c">>, "CFunctionPointer")
       \o <<Wrapped(<<"D">>, "DynamicSelf"),
            Row(<<"E", "R", "R">>, <<Push(TextLeaf("ErrorType", <<>>))>>),
            Row(<<"E", "R">>, <<Fail>>), Row(<<"E">>, <<Fail>>)>>
       \o FunctionRows(<<"F">>, "FunctionType")
       \o FunctionRows(<<"f">>, "UncurriedFunctionType")
       \o <<Row(<<"G">>, <<Run("Type"), New("TypeList"), Run("TypeArguments")>>),
            Wrapped(<<"X", "b">>, "SILBoxType")>>
       \o FunctionRows(<<"K">>, "AutoClosureType")
       \o <<Wrapped(<<"M">>, "Metatype"),
            Represented(<<"X", "M">>, "Metatype"),
            Wrapped(<<"P", "M">>, "ExistentialMetatype"),
            To(<<"P">>, "ProtocolList"),
            Represented(<<"X", "P", "M">>, "ExistentialMetatype"),
            To(<<"X", "P">>, "ProtocolList"),
            To(<<"Q">>, "ArchetypeType"),
            To(<<"q">>, "DependentType"),
            Row(<<"x">>, <<NewIndex("Index", 0), NewIndex("Index", 0),
                           Build("DependentGenericParamType", 2)>>),
            To(<<"w">>, "AssociatedTypeSimple"),
            To(<<"W">>, "AssociatedTypeCompound"),
            Row(<<"R">>, Around("InOut", <<"TypeImpl">>)),
            To(<<"S">>, "SubstitutionIndex"),
            Row(<<"T">>, <<New("NonVariadicTuple"), Run("Tuple")>>),
            Row(<<"t">>, <<New("VariadicTuple"), Run("Tuple")>>),
            Row(<<"u">>, Around("DependentGenericType", <<"GenericSignature", "Type">>))>>
       \o FunctionRows(<<"X", "f">>, "ThinFunctionType")
       \o <<Wrapped(<<"X", "o">>, "Unowned"),
            Wrapped(<<"X", "u">>, "Unmanaged"),
            Wrapped(<<"X", "w">>, "Weak"),
            To(<<"X", "F">>, "ImplFunctionType"),
            Row(<<"X">>, <<Fail>>),
            Row(<<"C">>, DeclarationName("Class")),
            Row(<<"V">>, DeclarationName("Structure")),
            Row(<<"O">>, DeclarationName("Enum")),
            AnyLetter(<<Fail>>)>>

--------------------------------------------------------------------------------
(* Function types of SIL.                                                        *)

demangleImplFunctionType ==
    <<Else(<<New("ImplFunctionType"), Run("ImplCalleeConvention"), Add, Run("ImplAttributes"),
             Run("ImplNoReturn"), Run("ImplGenerics"), Expect("_"),
             Run("ImplParameters"), Run("ImplResults")>>)>>

addImplFunctionAttribute(attr) == <<NewText("ImplFunctionAttribute", attr), Add>>
ImplAttributes ==
    LET Convention(letter, attr) == Row(<<"C", letter>>, addImplFunctionAttribute(attr))
    IN <<Convention("b", "block"), Convention("c", "c"), Convention("m", "method"),
         Convention("O", "objc_method"), Convention("w", "witness_method"),
         Row(<<"C">>, <<Fail>>), Else(<<>>)>>
ImplNoReturn == <<Row(<<"N">>, addImplFunctionAttribute("@noreturn")), Else(<<>>)>>
ImplGenerics == <<Row(<<"G">>, Child("GenericSignature")), Else(<<>>)>>

\* demangleImplConvention(): every letter of the table is consumed, the ones that
\* mean nothing in this context too. The second 'd' of the table is never reached.
demangleImplConvention(meanings) ==
    LET Letters == <<"a", "d", "g", "e", "i", "l", "o">>
    IN [i \in DOMAIN Letters |->
          Row(<<Letters[i]>>, IF Letters[i] \in DOMAIN meanings
                              THEN <<NewText("ImplConvention", meanings[Letters[i]])>>
                              ELSE <<Fail>>)]

CalleeConventions == demangleImplConvention(
    [d |-> "@callee_unowned", g |-> "@callee_guaranteed", o |-> "@callee_owned"])
ParameterConventions == demangleImplConvention(
    [d |-> "@unowned", g |-> "@guaranteed", e |-> "@deallocating", i |-> "@in",
     l |-> "@inout", o |-> "@owned"])
ResultConventions == demangleImplConvention(
    [a |-> "@autoreleased", d |-> "@unowned", i |-> "@out", o |-> "@owned"])

demangleImplCalleeConvention ==
    <<Row(<<"t">>, <<NewText("ImplConvention", "@convention(thin)")>>)>> \o CalleeConventions

\* demangleImplParameterOrResult(kind)
ParameterOrResult(convention, kind) == Around(kind, <<convention, "Type">>) \o <<Add>>

demangleImplParameters ==
    <<Row(<<"_">>, <<>>), Row(<<"z">>, <<Fail>>),
      Else(ParameterOrResult("ParameterConvention", "ImplParameter") \o <<Run("ImplParameters")>>)>>
demangleImplResults ==
    <<Row(<<"_">>, <<>>),
      Row(<<"z">>, ParameterOrResult("ResultConvention", "ImplErrorResult")
                   \o <<Run("ImplResults")>>),
      Else(ParameterOrResult("ResultConvention", "ImplResult") \o <<Run("ImplResults")>>)>>

--------------------------------------------------------------------------------
(* The procedures by name.                                                       *)

Grammar == [
    TopLevel |-> demangleTopLevel, Headers |-> Headers, AfterHeader |-> AfterHeader,
    Body |-> Body, Suffix |-> Suffix, Global |-> demangleGlobal, Forwarded |-> PartialApply,
    Directness |-> demangleDirectness, ValueWitnessKind |-> demangleValueWitnessKind,
    SpecializedAttribute |-> demangleSpecializedAttribute, PassID |-> PassID,
    GenericSpecialization |-> demangleGenericSpecialization, Conformances |-> Conformances,
    ConstantProp |-> demangleFuncSigSpecializationConstantProp, UpTo_ |-> readUntil,
    ClosureProp |-> demangleFuncSigSpecializationClosureProp, ClosureTypes |-> ClosureTypes,
    FunctionSignatureSpecialization |-> demangleFunctionSignatureSpecialization,
    DeclName |-> demangleDeclName, Identifier |-> demangleIdentifier("Identifier", TRUE),
    ModuleName |-> demangleIdentifier("Module", FALSE),
    TupleElementName |-> demangleIdentifier("TupleElementName", FALSE),
    AssociatedTypeName |-> demangleIdentifier("DependentAssociatedTypeRef", FALSE),
    Natural |-> demangleNatural, MoreDigits |-> MoreDigits, Index |-> demangleIndex,
    SubstitutionIndex |-> demangleSubstitutionIndex, Module |-> demangleModule,
    ProtocolName |-> demangleProtocolName, ProtocolNameImpl |-> demangleProtocolNameImpl,
    ProtocolNameGivenContext |-> demangleProtocolNameGivenContext,
    NominalType |-> demangleNominalType, Context |-> demangleContext,
    ProtocolList |-> demangleProtocolList, Protocols |-> Protocols,
    ProtocolConformance |-> demangleProtocolConformance, Entity |-> demangleEntity,
    Function |-> EntityNameOf("Function"), Variable |-> EntityNameOf("Variable"),
    Subscript |-> EntityNameOf("Subscript"), Initializer |-> InitializerName,
    GenericParamIndex |-> demangleGenericParamIndex,
    DependentMemberTypeName |-> demangleDependentMemberTypeName,
    AssociatedTypeSimple |-> demangleAssociatedTypeSimple,
    AssociatedTypeCompound |-> demangleAssociatedTypeCompound, MoreMembers |-> MoreMembers,
    DependentType |-> demangleDependentType, ConstrainedType |-> demangleConstrainedType,
    GenericSignature |-> demangleGenericSignature, ParamCounts |-> ParamCounts,
    MoreCounts |-> MoreCounts, Requirements |-> Requirements,
    MoreRequirements |-> MoreRequirements,
    MetatypeRepresentation |-> demangleMetatypeRepresentation,
    GenericRequirement |-> demangleGenericRequirement, Constraint |-> Constraint,
    ArchetypeType |-> demangleArchetypeType, Type |-> demangleType, TypeImpl |-> demangleTypeImpl,
    Tuple |-> demangleTuple, TypeArguments |-> TypeArguments,
    BuiltinSize |-> demangleBuiltinSize, VectorElement |-> VectorElement,
    ImplFunctionType |-> demangleImplFunctionType,
    ImplCalleeConvention |-> demangleImplCalleeConvention, ImplAttributes |-> ImplAttributes,
    ImplNoReturn |-> ImplNoReturn, ImplGenerics |-> ImplGenerics,
    ParameterConvention |-> ParameterConventions, ResultConvention |-> ResultConventions,
    ImplParameters |-> demangleImplParameters, ImplResults |-> demangleImplResults]
================================================================================
