------------------------------ MODULE SwiftNodes ------------------------------
(* The tree the Swift demangler builds (swift/Basic/Demangle.h, class Node).     *)
(* A text is a sequence of letters and words, the standard names one word.       *)
EXTENDS Naturals, Sequences

LOCAL INSTANCE TLC

\* A node is a kind, a payload (a text, an index or none) and its children.
Node(kind, has, text, index, kids) ==
    [kind |-> kind, has |-> has, text |-> text, index |-> index, kids |-> kids]

\* NodeFactory::create() without payload, with a text and with an index.
Leaf(kind)            == Node(kind, "none", <<>>, 0, <<>>)
TextLeaf(kind, text)  == Node(kind, "text", text, 0, <<>>)
IndexLeaf(kind, n)    == Node(kind, "index", <<>>, n, <<>>)

\* Node::addChild().
addChild(parent, child) == [parent EXCEPT !.kids = Append(@, child)]

\* STDLIB_NAME, MANGLING_MODULE_OBJC and MANGLING_MODULE_C.
Stdlib  == TextLeaf("Module", <<"Swift">>)
ObjC    == TextLeaf("Module", <<"__ObjC">>)
Clang   == TextLeaf("Module", <<"__C">>)

\* Demangler::createSwiftType().
createSwiftType(kind, name) ==
    Node(kind, "none", <<>>, 0, <<Stdlib, TextLeaf("Identifier", <<name>>)>>)

\* What the mangling has letters of its own for: demangleSubstitutionIndex().
StandardNodes ==
    {Stdlib, ObjC, Clang}
    \cup {createSwiftType("Structure", name) : name \in
             {"Array", "Bool", "UnicodeScalar", "Double", "Float", "Int", "UnsafePointer",
              "UnsafeMutablePointer", "UnsafeBufferPointer", "UnsafeMutableBufferPointer",
              "String", "UInt"}}
    \cup {createSwiftType("Enum", name) : name \in {"Optional", "ImplicitlyUnwrappedOptional"}}

\* The kinds the mangling refers back to by index.
Nominals == {"Class", "Structure", "Enum", "Protocol", "TypeAlias"}
Substitutable == Nominals \cup {"Module", "DependentAssociatedTypeRef", "SelfTypeRef",
                                "AssociatedTypeRef"}

\* archetypeName(): the index in letters, the first one counting least, then the depth.
Alphabet == <<"A", "B", "C", "D", "E", "F", "G", "H", "I", "J", "K", "L", "M",
              "N", "O", "P", "Q", "R", "S", "T", "U", "V", "W", "X", "Y", "Z">>
archetypeName(index, depth) ==
    LET name[i \in Nat] == <<Alphabet[(i % 26) + 1]>>
                           \o (IF i \div 26 = 0 THEN <<>> ELSE name[i \div 26])
    IN name[index] \o (IF depth = 0 THEN <<>> ELSE <<ToString(depth)>>)

\* DemangleOptions: what NodePrinter shows. The two that are asked for; options both have
\* are left out.
DemangleOptions(full) ==
    [sugar |-> ~full, extensionContexts |-> full, suffix |-> full, moduleNames |-> full,
     specializations |-> full, conformances |-> full, whereClauses |-> full,
     entityTypes |-> full, shortThunk |-> ~full, shortArchetype |-> ~full]
Default == DemangleOptions(TRUE)
SimplifiedUIDemangleOptions == DemangleOptions(FALSE)
================================================================================
