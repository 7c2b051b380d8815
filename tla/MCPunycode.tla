------------------------------- MODULE MCPunycode ------------------------------
(* Names that were encoded, names of which the last letters are missing, and     *)
(* texts that no encoder made.                                                   *)
EXTENDS Punycode, FiniteSets

CONSTANTS
    CodePoints, MaxPoints,   \* of the names
    MaxCut,                  \* letters missing at the end of a name
    Letters, MaxLetters      \* of other texts

VARIABLE source  \* what the decoder was given

Names == UNION {[1..l -> CodePoints] : l \in 1..MaxPoints}
Texts == UNION {[1..l -> Letters] : l \in 0..MaxLetters}

\* The digits alone are cut: without its delimiter a name is another name.
DigitsIn(text) == Len(text) - SelectLastInSeq(text, LAMBDA c : c = delimiter)
MCInit ==
    \/ \E name \in Names, cut \in 0..MaxCut :
           LET text == encodePunycode(name)
           IN /\ cut <= DigitsIn(text)
              /\ source = [name |-> name, whole |-> cut = 0]
              /\ Start(SubSeq(text, 1, Len(text) - cut))
    \/ \E text \in Texts :
           /\ source = [name |-> <<>>, whole |-> FALSE]
           /\ Start(text)
MCSpec == MCInit /\ [][Next /\ UNCHANGED source]_<<vars, source>>

--------------------------------------------------------------------------------

(* What was encoded is decoded to itself, and no number on the way leaves the    *)
(* range of an int although decodePunycode() does not check it.                  *)
Roundtrip ==
    source.whole => /\ outcome \in {"reading", "decoded"}
                    /\ outcome = "decoded" => points = source.name

\* The order in which the decoder inserts the code points of a name.
Earlier(name, a, b) == name[a] < name[b] \/ (name[a] = name[b] /\ a < b)
FirstOnes(name, count) ==
    LET Rank(j) == Cardinality({l \in DOMAIN name : Earlier(name, l, j)})
        chosen == SetToSortSeq({j \in DOMAIN name : Rank(j) < count}, <)
    IN [j \in DOMAIN chosen |-> name[chosen[j]]]

(* At every moment the decoder holds the lowest code points of the name, in the  *)
(* order of the name: a name whose end is missing is shown with the code points  *)
(* that were read, none invented and none moved (decodePunycode() reports such a *)
(* name as decoded, so that this is what callers see).                           *)
Growing ==
    source.name # <<>> => points = FirstOnes(source.name, Len(points))

(* "Returns false if decoding failed." (Punycode.h)                              *)
FailureReported == outcome = "failed" => ~decodePunycode
================================================================================
