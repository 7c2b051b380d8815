------------------------------- MODULE MCDemangle ------------------------------
(* Families of mangled names for TLC: how they start, and the letters that may   *)
(* follow, so that each part of the grammar is met with few letters.             *)
EXTENDS DemangleProperties

Family(start, letters, n) == [start |-> start, letters |-> letters, room |-> n]

\* Declarations and what refers back to them.
Contexts == Family(<<"_","T","t">>, {"C","P","S","1","a","_","s"}, 6)
Extended == Family(<<"_","T","t","C">>, {"E","e","s","r","1","a"}, 6)
Repeated == Family(<<"_","T","t","T","C","1","a","1","b">>, {"C","S","1","_","0"}, 5)
\* Specialization headers in front of an entity; one fails in the middle of a type.
Headed == Family(<<"_","T","T","S","g","5","C","1","a","1","b","_","_">>, {"_","T","t","S","C","1"}, 8)
Propagated == Family(<<"_","T","T","S","f","5">>,
    {"c","p","l","f","r","s","e","0","i","k","d","g","_","1","v"}, 5)
Closures == Family(<<"_","T","T","S","f","5","c","l","1","a","C","1","a">>, {"S","_","T","t","1"}, 6)
\* Functions, accessors, operators; static or not.
Functions == Family(<<"_","T","F","1","a","1","b">>, {"F","f","T","_","S","i","u","z"}, 5)
Accessed == Family(<<"_","T","F","1","a">>, {"g","l","O","1","S","i","U","D","E","A","_"}, 5)
Operators == Family(<<"_","T","F","s">>, {"o","i","X","1","g","S"}, 5)
Statics == Family(<<"_","T","Z">>, {"v","i","I","s","1","S","A","_"}, 6)
\* Generic signatures, generic types, function types of SIL.
Generics == Family(<<"_","T","t","u">>, {"R","r","x","z","_","d","S","w","P"}, 6)
Bounds == Family(<<"_","T","t","G">>, {"S","a","q","i","o","_","V"}, 6)
Arguments == Family(<<"_","T","t","G","C","1","a","1","b">>, {"S","_","0","i"}, 6)
Impls == Family(<<"_","T","t","X","F">>, {"d","o","G","N","C","b","_","S","i","z","t"}, 6)
\* Everything else, a few letters deep.
Witnesses == Family(<<"_","T">>, {"W","w","T","M","P","A","o","V","v","d","i","S","r","G","_"}, 4)
Types == Family(<<"_","T","t">>, {"B","b","f","i","v","p","D","E","R","M","X","P","Q","q","x","w",
    "W","T","t","u","S","_","0","1","a"}, 3)

\* Behind a closure whose last type failed, having read and remembered a module.
FailedClosure == Family(<<"_","T","T","S","f","5","c","l","1","a","C","1","C","_","_","_">>,
    {"_","T","t","C","1","S"}, 8)

Open == {Contexts, Extended, Repeated, Headed, Propagated, Closures, FailedClosure, Functions,
         Accessed, Operators, Statics, Generics, Bounds, Arguments, Impls, Witnesses, Types}

Whole == LET N == INSTANCE MangledNames
         IN {Family(N!Letters(name), {}, 0) : name \in N!AllNames}

AllScenarios == Open \cup Whole
================================================================================
