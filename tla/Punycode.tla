-------------------------------- MODULE Punycode -------------------------------
(* The Punycode of Swift identifiers (swift/Basic/Punycode.cpp, RFC 3492 with    *)
(* '_' for '-' and A-J for 0-9). A text is a sequence of character codes, a      *)
(* decoded one a sequence of code points. The decoder runs letter by letter.     *)
EXTENDS Integers, Sequences, SequencesExt

CONSTANT MaxInt  \* of type int

ASSUME MaxIntAssumption == MaxInt \in Nat

--------------------------------------------------------------------------------
(* Section 5: parameter values.                                                  *)

base == 36
tmin == 1
tmax == 26
skew == 38
damp == 700
initial_bias == 72
initial_n == 128
delimiter == 95

digit_value(digit) == IF digit < 26 THEN 97 + digit ELSE 65 + digit - 26
digit_index(value) ==
    IF value \in 97..122 THEN value - 97
    ELSE IF value \in 65..74 THEN value - 65 + 26 ELSE -1

isValidUnicodeScalar(s) == s < 55296 \/ (57344 <= s /\ s <= 2097151)

\* Section 6.1: bias adaptation, with its loop over what is left of delta.
scaled[delta \in Nat] ==
    IF delta > ((base - tmin) * tmax) \div 2
    THEN base + scaled[delta \div (base - tmin)]
    ELSE ((base - tmin + 1) * delta) \div (delta + skew)
adapt(delta, numpoints, firsttime) ==
    LET halved == IF firsttime THEN delta \div damp ELSE delta \div 2
    IN scaled[halved + halved \div numpoints]

threshold(k, bias) ==
    IF k <= bias THEN tmin ELSE IF k >= bias + tmax THEN tmax ELSE k - bias

--------------------------------------------------------------------------------
(* Section 6.3: the encoder.                                                     *)

\* A variable-length integer.
Digits(delta, bias) ==
    LET from[q \in Nat, k \in Nat] ==
          LET t == threshold(k, bias)
          IN IF q < t THEN <<digit_value(q)>>
             ELSE <<digit_value(t + ((q - t) % (base - t)))>>
                  \o from[(q - t) \div (base - t), k + base]
    IN from[delta, base]

\* One code point of the input while the encoder is at code point st.n.
EncodePoint(b, st, c) ==
    IF c < st.n THEN [st EXCEPT !.delta = @ + 1]
    ELSE IF c > st.n THEN st
    ELSE [st EXCEPT !.out = @ \o Digits(st.delta, st.bias),
                    !.bias = adapt(st.delta, st.h + 1, st.h = b),
                    !.delta = 0,
                    !.h = @ + 1]

\* The code points that are not basic, in increasing order, each in one pass over
\* the input. The input has code points up to 0x10FFFF.
encodePunycode(points) ==
    LET IsBasic(c) == c < 128
        basic == SelectSeq(points, IsBasic)
        b == Len(basic)
        higher == SetToSortSeq(ToSet(points) \ ToSet(basic), <)
        Pass(st, m) ==
          LET reached == [st EXCEPT !.delta = @ + (m - st.n) * (st.h + 1), !.n = m]
              passed == FoldLeft(LAMBDA s, c : EncodePoint(b, s, c), reached, points)
          IN [passed EXCEPT !.delta = @ + 1, !.n = @ + 1]
        start == [n |-> initial_n, delta |-> 0, bias |-> initial_bias, h |-> b,
                  out |-> IF b > 0 THEN Append(basic, delimiter) ELSE <<>>]
    IN FoldLeft(Pass, start, higher).out

--------------------------------------------------------------------------------
(* Section 6.2: the decoder.                                                     *)

VARIABLES input,   \* InputPunycode: what is not consumed
          points,  \* OutCodePoints
          n, i, bias,
          oldi, w, k,  \* of the number that is read
          outcome      \* "reading", or how the decoder came back
vars == <<input, points, n, i, bias, oldi, w, k, outcome>>

\* Mutant: up to the first delimiter.
StartAtFirst(text) ==
    LET first == SelectInSeq(text, LAMBDA c : c = delimiter)
    IN /\ input = SubSeq(text, first + 1, Len(text))
       /\ points = SubSeq(text, 1, first - 1)
       /\ outcome = "reading"
       /\ n = initial_n /\ i = 0 /\ bias = initial_bias
       /\ oldi = 0 /\ w = 1 /\ k = base
\* The code points before the last delimiter are taken as they are.
Start(text) ==
    LET last == SelectLastInSeq(text, LAMBDA c : c = delimiter)
        copied == SubSeq(text, 1, last - 1)
        wide == SelectInSeq(copied, LAMBDA c : c > 127)
    IN /\ input = SubSeq(text, last + 1, Len(text))
       /\ points = IF wide = 0 THEN copied ELSE SubSeq(copied, 1, wide - 1)
       /\ outcome = IF wide = 0 THEN "reading" ELSE "failed"
       /\ n = initial_n /\ i = 0 /\ bias = initial_bias
       /\ oldi = 0 /\ w = 1 /\ k = base

Finished == outcome = "reading" /\ input = <<>> /\ k = base
Finish ==
    /\ Finished
    /\ outcome' = "decoded"
    /\ UNCHANGED <<input, points, n, i, bias, oldi, w, k>>

number == <<n, i, bias, oldi, w, k>>
Stop(how) == outcome' = how /\ UNCHANGED <<input, points, number>>

\* What the next digit is worth. Mutant: as in a positional system.
weight_positional(t) == w * base
weight(t) == w * (base - t)

\* A product or a sum does not fit an int: what follows is undefined.
Overflows(digit, t) ==
    \/ digit # 0 /\ w > (MaxInt - i) \div digit
    \/ digit >= t /\ w > MaxInt \div (base - t)
\* A bound of the model: n, which is unsigned and may wrap, is beyond any code point.
Beyond(digit, t) == digit < t /\ n > MaxInt - (i + digit * w) \div (Len(points) + 1)

\* Mutant: the place is counted among the code points there were.
InsertBefore(m) ==
    LET size == Len(points) + 1
    IN /\ n' = n + m \div size
       /\ points' = InsertAt(points, IF m % size = 0 THEN 1 ELSE m % size, n')
       /\ i' = (m % size) + 1
       /\ oldi' = i'
       /\ bias' = adapt(m - oldi, size, oldi = 0)
       /\ w' = 1 /\ k' = base
\* The number m is complete: a code point goes where it says.
Insert(m) ==
    LET size == Len(points) + 1
    IN /\ n' = n + m \div size
       /\ points' = InsertAt(points, (m % size) + 1, n')
       /\ i' = (m % size) + 1
       /\ oldi' = i'
       /\ bias' = adapt(m - oldi, size, oldi = 0)
       /\ w' = 1 /\ k' = base
More(m, t) ==
    /\ i' = m
    /\ w' = weight(t)
    /\ k' = k + base
    /\ UNCHANGED <<points, n, bias, oldi>>

\* The next digit of a number.
ReadDigit ==
    /\ outcome = "reading" /\ ~Finished
    /\ IF input = <<>> THEN Stop("failed")
       ELSE LET digit == digit_index(Head(input))
                t == threshold(k, bias)
            IN IF digit < 0 THEN Stop("failed")
               ELSE IF Overflows(digit, t) THEN Stop("overflow")
               ELSE IF Beyond(digit, t) THEN Stop("beyond")
               ELSE /\ IF digit < t THEN Insert(i + digit * w) ELSE More(i + digit * w, t)
                    /\ input' = Tail(input)
                    /\ UNCHANGED outcome

Next == ReadDigit \/ Finish

\* Any text; see the instance for a bound.
Init == \E text \in Seq(0..255) : Start(text)
Spec == Init /\ [][Next]_vars

\* What decodePunycode() returns; on every path the same.
decodePunycode == outcome \in {"failed", "decoded"}

--------------------------------------------------------------------------------
(* UTF-8.                                                                        *)

Low(s) == 128 + (s % 64)
\* The bytes of a code point. Mutant: 0x800 still in two bytes.
utf8_late(s) ==
    IF s < 128 THEN <<s>>
    ELSE IF s <= 2048 THEN <<192 + s \div 64, Low(s)>>
    ELSE IF s < 65536 THEN <<224 + s \div 4096, Low(s \div 64), Low(s)>>
    ELSE <<240 + s \div 262144, Low(s \div 4096), Low(s \div 64), Low(s)>>
utf8(s) ==
    IF s < 128 THEN <<s>>
    ELSE IF s < 2048 THEN <<192 + s \div 64, Low(s)>>
    ELSE IF s < 65536 THEN <<224 + s \div 4096, Low(s \div 64), Low(s)>>
    ELSE <<240 + s \div 262144, Low(s \div 4096), Low(s \div 64), Low(s)>>

\* How a decoder of UTF-8 reads them: the first byte tells how many there are.
Announced(lead) ==
    IF lead < 128 THEN 1
    ELSE IF lead \in 192..223 THEN 2 ELSE IF lead \in 224..239 THEN 3 ELSE 4
ScalarOf(bytes) ==
    CASE Announced(bytes[1]) = 1 -> bytes[1]
      [] Announced(bytes[1]) = 2 -> (bytes[1] - 192) * 64 + bytes[2] - 128
      [] Announced(bytes[1]) = 3 -> ((bytes[1] - 224) * 64 + bytes[2] - 128) * 64 + bytes[3] - 128
      [] OTHER -> (((bytes[1] - 240) * 64 + bytes[2] - 128) * 64 + bytes[3] - 128) * 64
                  + bytes[4] - 128
\* The bytes of all of them, or nothing at all.
encodeToUTF8(scalars) ==
    IF \A j \in DOMAIN scalars : isValidUnicodeScalar(scalars[j])
    THEN FlattenSeq([j \in DOMAIN scalars |-> utf8(scalars[j])])
    ELSE <<>>

--------------------------------------------------------------------------------

\* 35 + 35^2 + ... + 35^6, what six digits are worth at most.
SixDigits == 1892332260

(* However a text was made, the arithmetic of decodePunycode() is safe for the   *)
(* first six digits of a number, as long as there are fewer code points than an  *)
(* int has room for beside them (i = i + digit * w in Punycode.cpp).             *)
SixDigitsFit ==
    outcome = "overflow" /\ Len(points) <= MaxInt - SixDigits => k > 6 * base

(* encodeToUTF8() delivers text that reads back as the very code points: the     *)
(* first byte of each announces how many follow, and no other byte looks like a  *)
(* first one. Or it delivers nothing.                                            *)
Utf8Exact ==
    encodeToUTF8(points) # <<>> =>
        \A j \in DOMAIN points :
            LET bytes == utf8(points[j])
            IN /\ Len(bytes) = Announced(bytes[1]) /\ bytes[1] \notin 128..191
               /\ ScalarOf(bytes) = points[j]
               /\ \A x \in DOMAIN bytes \ {1} : bytes[x] \in 128..191
================================================================================
