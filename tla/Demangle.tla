------------------------------- MODULE Demangle --------------------------------
(* demangle_symbol() of symsynd/demangle.py over demangle/demangle-all.cpp: the  *)
(* Swift demangler first, then the one for C++, and the symbol itself when both  *)
(* decline. Both write into the one buffer of the call.                          *)
EXTENDS SwiftDemangler

CONSTANTS BufferLengths,       \* sizes of the buffer; a text is as long as its letters
          nodeToString(_, _)   \* the text of a tree under given options

ASSUME BufferAssumption == BufferLengths \subseteq Nat \ {0}

VARIABLES stage,    \* who is working on the answer
          request,  \* the options and the buffer of the call
          buffer,   \* what was written, terminator included
          reply     \* what the caller gets
answer == <<stage, request, buffer, reply>>
allVars == <<vars, answer>>

NUL == <<"end of string">>
NoRequest == [simplified |-> FALSE, length |-> 0]
NoReply == [by |-> "nobody", text |-> <<>>]

\* size() of the text made of these items.
Size(items) ==
    LET upTo[i \in Nat] == IF i = 0 THEN 0 ELSE upTo[i - 1] + Len(items[i])
    IN upTo[Len(items)]

DemangleInit ==
    /\ Init
    /\ stage = "swift" /\ request = NoRequest /\ buffer = <<>> /\ reply = NoReply

Parse == stage = "swift" /\ Next /\ UNCHANGED answer

\* demangleSymbolAsString(): nothing for what is no Swift name.
demangleSymbolAsString(simplified) ==
    IF outcome = "tree"
    THEN nodeToString(values[1], IF simplified THEN SimplifiedUIDemangleOptions ELSE Default)
    ELSE <<>>

\* memcpy() and the terminator; ffi.string() reads up to it.
Deliver(by, items) ==
    /\ buffer' = Append(items, NUL)
    /\ reply' = [by |-> by, text |-> items]
    /\ stage' = "done"

\* Mutant: the terminator is forgotten.
demangle_swift_without_terminator ==
    /\ stage = "swift" /\ outcome \in {"tree", "null"}
    /\ \E simplified \in BOOLEAN, length \in BufferLengths :
           LET demangled == demangleSymbolAsString(simplified)
           IN /\ request' = [simplified |-> simplified, length |-> length]
              /\ IF Size(demangled) = 0 \/ Size(demangled) > length
                 THEN stage' = "cpp" /\ UNCHANGED <<buffer, reply>>
                 ELSE Deliver("swift", demangled)
    /\ UNCHANGED vars
demangle_swift ==
    /\ stage = "swift" /\ outcome \in {"tree", "null"}
    /\ \E simplified \in BOOLEAN, length \in BufferLengths :
           LET demangled == demangleSymbolAsString(simplified)
           IN /\ request' = [simplified |-> simplified, length |-> length]
              /\ IF Size(demangled) = 0 \/ Size(demangled) >= length
                 THEN stage' = "cpp" /\ UNCHANGED <<buffer, reply>>
                 ELSE Deliver("swift", demangled)
    /\ UNCHANGED vars

\* What __cxa_demangle() makes of the symbol is its own affair: nothing, or a text of
\* some length.
CppTexts == {[i \in 1..n |-> <<"C++">>] : n \in {0, request.length - 1, request.length}}

\* demangle_cpp(), and demangle_symbol() when it declines too.
demangle_cpp ==
    /\ stage = "cpp"
    /\ \/ \E demangled \in CppTexts :
              /\ Size(demangled) < request.length
              /\ Deliver("cpp", demangled)
       \/ /\ reply' = [by |-> "caller", text |-> <<<<"symbol">>>>]
          /\ stage' = "done"
          /\ UNCHANGED buffer
    /\ UNCHANGED <<vars, request>>

DemangleNext == Parse \/ demangle_swift \/ demangle_cpp

\* The call runs on one thread and nothing holds it up.
DemangleSpec == DemangleInit /\ [][DemangleNext]_allVars /\ WF_vars(Next)

--------------------------------------------------------------------------------
\* A text is a sequence of items, an item a sequence of letters and words.
Text == Seq(Seq(STRING))
TreesPrint ==
    outcome = "tree" => \A options \in {Default, SimplifiedUIDemangleOptions} :
                            nodeToString(values[1], options) \in Text

(* What was written fits the buffer with its terminator, whichever demangler     *)
(* wrote it: demangle_swift() and demangle_cpp() copy without further checks.    *)
FitsBuffer == Size(buffer) <= request.length

(* What the caller gets from the Swift demangler is not blank, although a        *)
(* simplified module name is.                                                    *)
NeverBlank == reply.by = "swift" => reply.text # <<>>
================================================================================
