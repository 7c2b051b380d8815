----------------------------- MODULE SwiftPrinter ------------------------------
(* What the Swift demangler prints for a tree (swift/Basic/Demangle.cpp, class   *)
(* NodePrinter): which children of a node are visited, in which order, and which *)
(* payloads are read. Wording and punctuation are one item, whatever they say.   *)
EXTENDS SwiftNodes, FiniteSets

LOCAL INSTANCE SequencesExt
LOCAL INSTANCE TLC

--------------------------------------------------------------------------------
(* A layout is a sequence of parts.                                              *)

Wording == <<[part |-> "wording"]>>
\* getText() and getIndex(), which assert the payload.
getText(node) == <<[part |-> "text", node |-> node]>>
getIndex(node) == <<[part |-> "index", node |-> node]>>
\* unreachable(), a failing assertion, or a child that is not there
Fault == <<[part |-> "fault"]>>
PrintAs(node, asContext, suppressType) ==
    <<[part |-> "node", node |-> node, asContext |-> asContext, suppressType |-> suppressType]>>

HasKid(node, i) == i \in DOMAIN node.kids
KidAs(node, i, asContext) ==
    IF HasKid(node, i) THEN PrintAs(node.kids[i], asContext, FALSE) ELSE Fault
Kid(node, i) == KidAs(node, i, FALSE)
KidsAt(node, order) == FlattenSeq([i \in DOMAIN order |-> Kid(node, order[i])])
printChildren(node) == KidsAt(node, [i \in DOMAIN node.kids |-> i])
When(shown, parts) == IF shown THEN parts ELSE <<>>
Require(condition, parts) == IF condition THEN parts ELSE Fault

--------------------------------------------------------------------------------
(* Entities.                                                                     *)

printContext(node, options) ==
    Require(HasKid(node, 1),
        KidAs(node, 1, TRUE)
        \o When(options.moduleNames \/ node.kids[1].kind # "Module", Wording))

Accessors ==
    {"OwningAddressor", "OwningMutableAddressor", "NativeOwningAddressor",
     "NativeOwningMutableAddressor", "NativePinningAddressor",
     "NativePinningMutableAddressor", "UnsafeAddressor", "UnsafeMutableAddressor",
     "GlobalGetter", "Getter", "Setter", "MaterializeForSet", "WillSet", "DidSet"}

AlwaysColon == Nominals \cup Accessors \cup
    {"Variable", "Initializer", "DefaultArgumentInitializer", "IVarInitializer"}
ColonUnlessFunction ==
    {"Subscript", "Function", "ExplicitClosure", "ImplicitClosure", "Allocator",
     "Constructor", "Destructor", "Deallocator", "IVarDestroyer"}
FunctionTypes == {"FunctionType", "UncurriedFunctionType", "CFunctionPointer", "ThinFunctionType"}

\* The type behind its generic signature.
RECURSIVE Ungeneric(_)
Ungeneric(type) ==
    IF type.kind = "DependentGenericType" THEN Ungeneric(type.kids[2].kids[1]) ELSE type

useColonForEntityType(entity, type) ==
    \/ entity.kind \in AlwaysColon
    \/ Ungeneric(type.kids[1]).kind \notin FunctionTypes

\* Without the types of entities only those of functions are printed.
EntityType(node, i, options) ==
    Require(/\ HasKid(node, i)
            /\ HasKid(node.kids[i], 1)
            /\ node.kind \in AlwaysColon \cup ColonUnlessFunction,
        When(options.entityTypes \/ ~useColonForEntityType(node, node.kids[i]),
             Wording \o Kid(node, i)))

\* printEntity(hasName, hasType, extraName)
printEntity(node, named, typed, extra, suppressType, options) ==
    printContext(node, options) \o When(named, Kid(node, 2)) \o extra
    \o When(typed /\ ~suppressType, EntityType(node, IF named THEN 3 ELSE 2, options))

EntityKindsPrinted ==
    Nominals \cup Accessors \cup
    {"Variable", "Function", "Subscript", "ExplicitClosure", "ImplicitClosure", "Initializer",
     "DefaultArgumentInitializer", "Allocator", "Constructor", "Destructor", "Deallocator",
     "IVarInitializer", "IVarDestroyer"}

\* How each kind calls printEntity().
EntityLayout(node, suppressType, options) ==
    LET Entity(named, typed, extra) ==
          printEntity(node, named, typed, extra, suppressType, options)
        Numbered == Require(HasKid(node, 2), Entity(FALSE, FALSE, Wording \o getIndex(node.kids[2])))
    IN CASE node.kind \in {"Variable", "Function", "Subscript"} -> Entity(TRUE, TRUE, <<>>)
         [] node.kind \in Nominals -> Entity(TRUE, FALSE, <<>>)
         [] node.kind \in Accessors -> Entity(TRUE, TRUE, Wording)
         [] node.kind \in {"Allocator", "Constructor"} -> Entity(FALSE, TRUE, Wording)
         [] node.kind \in {"ExplicitClosure", "ImplicitClosure", "DefaultArgumentInitializer"} -> Numbered
         [] OTHER -> Entity(FALSE, FALSE, Wording)

--------------------------------------------------------------------------------
(* Types.                                                                        *)

isIdentifier(node, desired) == node.kind = "Identifier" /\ node.text = <<desired>>

\* findSugar(): the number of arguments the sugar of a standard type takes.
Sugars == [BoundGenericEnum |-> [Optional |-> 1, ImplicitlyUnwrappedOptional |-> 1],
           BoundGenericStructure |-> [Array |-> 1, Dictionary |-> 2]]
findSugar(node) ==
    LET unbound == node.kids[1].kids[1]
    IN /\ node.kind \in DOMAIN Sugars
       /\ unbound.kids[1] = Stdlib
       /\ \E name \in DOMAIN Sugars[node.kind] :
              /\ isIdentifier(unbound.kids[2], name)
              /\ Len(node.kids[2].kids) = Sugars[node.kind][name]

printBoundGeneric(node, options) ==
    LET arguments == Require(HasKid(node, 2), printChildren(node.kids[2]))
    IN IF options.sugar /\ findSugar(node) THEN Wording \o arguments
       ELSE Kid(node, 1) \o Wording \o arguments

printFunctionType(node) ==
    Require(\/ Len(node.kids) = 2
            \/ Len(node.kids) = 3 /\ node.kids[1].kind = "ThrowsAnnotation",
        LET n == Len(node.kids) IN Kid(node, n - 1) \o Kid(node, n))

\* Attributes, then parameters, then results.
printImplFunctionType(node) ==
    LET State(kid) == CASE kid.kind = "ImplParameter" -> 2
                        [] kid.kind \in {"ImplResult", "ImplErrorResult"} -> 3
                        [] OTHER -> 1
    IN Require(\A i, j \in DOMAIN node.kids : i < j => State(node.kids[i]) <= State(node.kids[j]),
               Wording \o printChildren(node))

ArgumentTupleLayout(node) ==
    Require(\/ Len(node.kids) # 1
            \/ HasKid(node.kids[1], 1),
        printChildren(node))
ReturnTypeLayout(node) ==
    Wording \o (IF node.kids = <<>> THEN getText(node) ELSE printChildren(node))
TupleElementLayout(node) == When(Len(node.kids) \in {1, 2}, printChildren(node))

\* isExistentialType() asserts a type.
MetatypeLayout(node) ==
    LET type == IF Len(node.kids) = 2 THEN 2 ELSE 1
    IN Require(/\ HasKid(node, type)
               /\ node.kind = "Metatype" =>
                    node.kids[type].kind = "Type" /\ HasKid(node.kids[type], 1),
           printChildren(node) \o Wording)

ProtocolListLayout(node) == Require(HasKid(node, 1), Wording \o printChildren(node.kids[1]))

AssociatedTypeRefLayout(node) ==
    Require(HasKid(node, 2), Kid(node, 1) \o Wording \o getText(node.kids[2]))
QualifiedArchetypeLayout(node, options) ==
    IF options.shortArchetype THEN Wording
    ELSE When(Len(node.kids) >= 2, getIndex(node.kids[1]) \o Kid(node, 2))

--------------------------------------------------------------------------------
(* Specializations and signatures.                                               *)

\* printFunctionSigSpecializationParam(): the place behind the group that starts at i.
RECURSIVE BehindTypes(_, _)
BehindTypes(node, i) ==
    IF HasKid(node, i) /\ node.kids[i].kind = "Type" THEN BehindTypes(node, i + 1) ELSE i
NoGroup == 0
BehindGroup(node, i) ==
    LET kind == node.kids[i].index
    IN CASE node.kids[i].has # "index"       -> NoGroup
         [] kind \in {6, 7}                  -> i + 1
         [] kind \in {0, 1, 2, 3}            -> i + 2
         [] kind = 4                         -> i + 3
         [] kind = 5                         -> BehindTypes(node, i + 2)
         \* an option set
         [] kind \in {64, 128, 192, 256, 320, 384, 448} -> i + 1
         [] OTHER                            -> NoGroup
RECURSIVE Grouped(_, _)
Grouped(node, i) ==
    \/ i = Len(node.kids) + 1
    \/ /\ HasKid(node, i)
       /\ BehindGroup(node, i) # NoGroup
       /\ Grouped(node, BehindGroup(node, i))
FunctionSpecializationParamLayout(node) ==
    getIndex(node) \o Require(node.kids # <<>> /\ Grouped(node, 1), printChildren(node))

\* The pass id is skipped, and so are empty specializations.
SpecializationLayout(node, options) ==
    Wording \o When(options.specializations,
        FlattenSeq([i \in DOMAIN node.kids |->
            When(i > 1 /\ node.kids[i].kids # <<>>, Kid(node, i))]))

ThunkLayout(node, options) ==
    LET generics == \E i \in DOMAIN node.kids : node.kids[i].kind = "DependentGenericSignature"
    IN Wording \o When(~options.shortThunk,
           Require(Len(node.kids) = (IF generics THEN 3 ELSE 2), printChildren(node)))

\* The parameters of each depth, then the requirements.
GenericSignatureLayout(node, options) ==
    LET Count(kid) == kid.kind = "DependentGenericParamCount"
        depth == SelectInSeq(node.kids, LAMBDA kid : ~Count(kid))
        counts == IF depth = 0 THEN Len(node.kids) ELSE depth - 1
        Requirement(i) == IF i > counts THEN Kid(node, i) ELSE getIndex(node.kids[i])
        shown == IF options.whereClauses THEN Len(node.kids) ELSE counts
    IN Wording \o FlattenSeq([i \in 1..shown |-> Requirement(i)])

ProtocolConformanceLayout(node, options) ==
    Require(Len(node.kids) = 3, Kid(node, 1) \o When(options.conformances, KidsAt(node, <<2, 3>>)))

\* Mutant: what an extension belongs to is never printed.
ExtensionHidden(node, asContext, options) == Kid(node, 2)
ExtensionLayout(node, asContext, options) ==
    Require(Len(node.kids) \in {2, 3},
        When(options.extensionContexts, Wording \o KidAs(node, 1, TRUE))
        \o KidAs(node, 2, asContext) \o When(HasKid(node, 3), KidAs(node, 3, TRUE)))

--------------------------------------------------------------------------------
(* Kinds that consist of their payload, or of wording and their children in a    *)
(* fixed order.                                                                  *)

TextKinds ==
    {"Identifier", "TupleElementName", "BuiltinTypeName", "InfixOperator", "PrefixOperator",
     "PostfixOperator", "MetatypeRepresentation", "ArchetypeRef", "ImplConvention",
     "ImplFunctionAttribute", "DependentGenericParamType", "DependentAssociatedTypeRef",
     "FunctionSignatureSpecializationParamPayload"}
IndexKinds == {"Directness", "Index", "Number", "SpecializationPassID",
               "FunctionSignatureSpecializationParamKind"}
WordKinds == {"NonObjCAttribute", "ObjCAttribute", "DirectMethodReferenceAttribute",
              "DynamicAttribute", "VTableAttribute", "DynamicSelf", "ErrorType",
              "ThrowsAnnotation"}
\* All the children there are, without and with wording of their own.
ListKinds == {"Global", "TypeList"}
WordedListKinds ==
    {"ImplParameter", "ImplResult", "ImplErrorResult", "NonVariadicTuple", "VariadicTuple",
     "GenericSpecializationParam", "PartialApplyForwarder", "PartialApplyObjCForwarder"}

WitnessOrder ==
    [LazyProtocolWitnessTableAccessor |-> <<1, 2>>,
     LazyProtocolWitnessTableCacheVariable |-> <<1, 2>>,
     ProtocolWitnessTableAccessor |-> <<1>>, ProtocolWitnessTable |-> <<1>>,
     GenericProtocolWitnessTable |-> <<1>>,
     GenericProtocolWitnessTableInstantiationFunction |-> <<1>>,
     ProtocolWitness |-> <<2, 1>>]
MetadataOrder ==
    [GenericTypeMetadataPattern |-> <<1>>, Metaclass |-> <<1>>, ProtocolDescriptor |-> <<1>>,
     FullTypeMetadata |-> <<1>>, TypeMetadata |-> <<1>>, TypeMetadataAccessFunction |-> <<1>>,
     TypeMetadataLazyCache |-> <<1>>, AssociatedTypeMetadataAccessor |-> <<2, 1>>,
     AssociatedTypeWitnessTableAccessor |-> <<2, 3, 1>>, NominalTypeDescriptor |-> <<1>>,
     ValueWitnessTable |-> <<1>>, WitnessTableOffset |-> <<1>>]
TypeOrder ==
    [Weak |-> <<1>>, Unowned |-> <<1>>, Unmanaged |-> <<1>>, InOut |-> <<1>>,
     SILBoxType |-> <<1>>, SelfTypeRef |-> <<1>>]
DependentOrder ==
    [DependentGenericConformanceRequirement |-> <<1, 2>>,
     DependentGenericSameTypeRequirement |-> <<1, 2>>,
     DependentGenericType |-> <<1, 2>>, DependentMemberType |-> <<1, 2>>]
KidOrder == WitnessOrder @@ MetadataOrder @@ TypeOrder @@ DependentOrder

--------------------------------------------------------------------------------
(* The printer.                                                                  *)

TypeLayout(node, options) ==
    CASE node.kind \in {"FunctionType", "UncurriedFunctionType"} -> printFunctionType(node)
      [] node.kind \in {"AutoClosureType", "ThinFunctionType", "CFunctionPointer", "ObjCBlock"} ->
           Wording \o printFunctionType(node)
      [] node.kind \in {"BoundGenericClass", "BoundGenericStructure", "BoundGenericEnum"} ->
           printBoundGeneric(node, options)
      [] node.kind = "ImplFunctionType"   -> printImplFunctionType(node)
      [] node.kind = "ArgumentTuple"      -> ArgumentTupleLayout(node)
      [] node.kind = "ReturnType"         -> ReturnTypeLayout(node)
      [] node.kind = "TupleElement"       -> TupleElementLayout(node)
      [] node.kind \in {"Metatype", "ExistentialMetatype"} -> MetatypeLayout(node)
      [] node.kind = "ProtocolList"       -> ProtocolListLayout(node)
      [] node.kind = "AssociatedTypeRef"  -> AssociatedTypeRefLayout(node)
      [] node.kind = "QualifiedArchetype" -> QualifiedArchetypeLayout(node, options)
      [] node.kind = "DependentGenericSignature" -> GenericSignatureLayout(node, options)
      \* unreachable("bad node kind!"), a lone DependentGenericParamCount among them
      [] OTHER -> Fault

\* NodePrinter::print()
LayoutOf(node, asContext, suppressType, options) ==
    LET kind == node.kind
    IN CASE kind \in EntityKindsPrinted -> EntityLayout(node, suppressType, options)
         [] kind \in TextKinds  -> getText(node)
         [] kind \in IndexKinds -> getIndex(node)
         [] kind \in WordKinds  -> Wording
         [] kind \in ListKinds  -> printChildren(node)
         [] kind \in WordedListKinds -> Wording \o printChildren(node)
         [] kind \in DOMAIN KidOrder -> Wording \o KidsAt(node, KidOrder[kind])
         [] kind = "Static" ->
              Wording \o Require(HasKid(node, 1), PrintAs(node.kids[1], asContext, suppressType))
         [] kind \in {"Type", "DeclContext"} -> KidAs(node, 1, asContext)
         [] kind = "TypeMangling" -> Kid(node, 1)
         [] kind = "Module" -> When(options.moduleNames, getText(node))
         [] kind = "Suffix" -> When(options.suffix, Wording \o getText(node))
         [] kind = "Extension" -> ExtensionLayout(node, asContext, options)
         [] kind = "LocalDeclName" ->
              Require(Len(node.kids) = 2, Kid(node, 2) \o Wording \o getIndex(node.kids[1]))
         [] kind = "PrivateDeclName" ->
              Require(Len(node.kids) = 2, Kid(node, 2) \o Wording \o getText(node.kids[1]))
         [] kind = "FieldOffset" -> KidsAt(node, <<1, 2>>)
         [] kind = "ValueWitness" -> getIndex(node) \o Kid(node, 1)
         [] kind \in {"FunctionSignatureSpecialization", "GenericSpecialization"} ->
              SpecializationLayout(node, options)
         [] kind = "FunctionSignatureSpecializationParam" -> FunctionSpecializationParamLayout(node)
         [] kind \in {"ReabstractionThunk", "ReabstractionThunkHelper"} -> ThunkLayout(node, options)
         [] kind = "ProtocolConformance" -> ProtocolConformanceLayout(node, options)
         [] OTHER -> TypeLayout(node, options)

\* What is printed, item by item; an empty text prints nothing.
WORDS == <<"wording">>
FAULT == <<"fault">>
RECURSIVE Printed(_, _)
Printed(layout, options) ==
    LET part == Head(layout)
        first ==
          CASE part.part = "wording" -> <<WORDS>>
            [] part.part = "text" ->
                 IF part.node.has # "text" THEN <<FAULT>>
                 ELSE IF part.node.text = <<>> THEN <<>> ELSE <<part.node.text>>
            [] part.part = "index" -> IF part.node.has # "index" THEN <<FAULT>> ELSE <<WORDS>>
            [] part.part = "fault" -> <<FAULT>>
            [] part.part = "node"  ->
                 Printed(LayoutOf(part.node, part.asContext, part.suppressType, options), options)
    IN IF layout = <<>> THEN <<>> ELSE first \o Printed(Tail(layout), options)

\* NodePrinter::printRoot()
printRoot(root, options) == Printed(PrintAs(root, FALSE, FALSE), options)
================================================================================
