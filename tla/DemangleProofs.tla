----------------------------- MODULE DemangleProofs ----------------------------
(* For every printer, every symbol and every size of the buffer: the demanglers  *)
(* write no more than the caller of demangle_symbol() made room for.             *)
EXTENDS Demangle, Extremes, SequenceTheorems

--------------------------------------------------------------------------------
(* The size of a text is the sum of the sizes of its items. The sum is a         *)
(* recursive function: it exists because it does up to every length.             *)

IsSum(g, items, n) ==
    g = [i \in 0..n |-> IF i = 0 THEN 0 ELSE g[i - 1] + Len(items[i])]

LEMMA SumExists ==
    ASSUME NEW items
    PROVE  \A n \in Nat : \E g : IsSum(g, items, n)
  <1> DEFINE Missing == {n \in Nat : ~ \E g : IsSum(g, items, n)}
  <1>1. SUFFICES ASSUME Missing # {} PROVE FALSE
    OBVIOUS
  <1>2. PICK n \in Missing : \A other \in Missing : n <= other
    BY <1>1, MinOfNat
  <1>3. \E g : IsSum(g, items, n)
    <2>1. CASE n = 0
      <3>1. IsSum([i \in 0..0 |-> 0], items, 0)
        BY DEF IsSum
      <3>2. QED
        BY <2>1, <3>1
    <2>2. CASE n # 0
      <3>1. n \in Nat /\ n - 1 \in Nat /\ n - 1 \notin Missing
        BY <1>2, <2>2
      <3>2. PICK g : IsSum(g, items, n - 1)
        BY <3>1
      <3> DEFINE h == [i \in 0..n |-> IF i = 0 THEN 0 ELSE g[i - 1] + Len(items[i])]
      <3>3. \A i \in 0..(n - 1) : h[i] = g[i]
        BY <3>1, <3>2 DEF IsSum
      <3>4. \A i \in 0..n : i # 0 => h[i - 1] = g[i - 1]
        <4> HIDE DEF h
        <4>1. \A i \in 0..n : i # 0 => i - 1 \in 0..(n - 1)
          BY <3>1
        <4>2. QED
          BY <3>3, <4>1
      <3>5. IsSum(h, items, n)
        BY <3>4 DEF IsSum
      <3>6. QED
        BY <3>5
    <2>3. QED
      BY <2>1, <2>2
  <1>4. QED
    BY <1>2, <1>3

\* Two sums of texts that begin alike agree there.
LEMMA SumsAgree ==
    ASSUME NEW items, NEW others, NEW g, NEW h, NEW m \in Nat, NEW n \in Nat, NEW k \in Nat,
           IsSum(g, items, m), IsSum(h, others, n), k <= m, k <= n,
           \A i \in 1..k : items[i] = others[i]
    PROVE  g[k] = h[k]
  <1> DEFINE Bad == {i \in 0..k : g[i] # h[i]}
  <1>1. SUFFICES ASSUME Bad # {} PROVE FALSE
    OBVIOUS
  <1>2. PICK i \in Bad : \A other \in Bad : i <= other
    <2>1. Bad \in SUBSET Nat
      OBVIOUS
    <2> HIDE DEF Bad
    <2>2. QED
      BY <1>1, <2>1, MinOfNat
  <1>3. i \in 0..k /\ i \in 0..m /\ i \in 0..n /\ g[i] # h[i]
    OBVIOUS
  <1>4. i # 0
    BY <1>3 DEF IsSum
  <1>5. i - 1 \in 0..k /\ i - 1 \notin Bad /\ i \in 1..k
    BY <1>2, <1>3, <1>4
  <1>6. g[i - 1] = h[i - 1] /\ items[i] = others[i]
    BY <1>5
  <1>7. g[i] = g[i - 1] + Len(items[i]) /\ h[i] = h[i - 1] + Len(others[i])
    BY <1>3, <1>4 DEF IsSum
  <1>8. QED
    BY <1>3, <1>6, <1>7

\* Size() is the last value of the sum, however far that was taken.
LEMMA SizeIsSum ==
    ASSUME NEW S, NEW items \in Seq(Seq(S)), NEW g, NEW n \in Nat, Len(items) <= n,
           IsSum(g, items, n)
    PROVE  Size(items) = g[Len(items)]
  <1> DEFINE sum(i) == CHOOSE h : IsSum(h, items, i)
             all == [i \in Nat |-> sum(i)[i]]
             Recursive(f) ==
               f = [i \in Nat |-> IF i = 0 THEN 0 ELSE f[i - 1] + Len(items[i])]
             upTo == CHOOSE f : Recursive(f)
  <1>1. \A i \in Nat : IsSum(sum(i), items, i)
    BY SumExists
  <1>2. \A i \in Nat : all[i] = IF i = 0 THEN 0 ELSE all[i - 1] + Len(items[i])
    <2> SUFFICES ASSUME NEW i \in Nat
                 PROVE  all[i] = IF i = 0 THEN 0 ELSE all[i - 1] + Len(items[i])
      OBVIOUS
    <2>1. IsSum(sum(i), items, i) /\ all[i] = sum(i)[i] /\ i \in 0..i
      BY <1>1
    <2>2. CASE i = 0
      <3> HIDE DEF sum, all
      <3>1. QED
        BY <2>1, <2>2 DEF IsSum
    <2>3. CASE i # 0
      <3>1. i - 1 \in Nat /\ i - 1 <= i
        BY <2>3
      <3>2. IsSum(sum(i - 1), items, i - 1) /\ all[i - 1] = sum(i - 1)[i - 1]
        BY <1>1, <3>1
      <3> HIDE DEF sum, all
      <3>3. sum(i)[i - 1] = sum(i - 1)[i - 1]
        BY <2>1, <3>1, <3>2, SumsAgree
      <3>4. sum(i)[i] = sum(i)[i - 1] + Len(items[i])
        BY <2>1, <2>3 DEF IsSum
      <3>5. QED
        BY <2>1, <2>3, <3>2, <3>3, <3>4
    <2>4. QED
      BY <2>2, <2>3
  <1>3. Recursive(all)
    <2>1. all = [i \in Nat |-> all[i]]
      OBVIOUS
    <2> HIDE DEF all
    <2>2. QED
      BY <1>2, <2>1
  <1>4. Recursive(upTo)
    <2> HIDE DEF all, Recursive
    <2>1. QED
      BY <1>3
  <1>5. Size(items) = upTo[Len(items)]
    BY DEF Size
  <1> HIDE DEF upTo, all, sum
  <1> DEFINE part == [i \in 0..Len(items) |-> upTo[i]]
  <1>6. Len(items) \in Nat
    OBVIOUS
  <1>7. IsSum(part, items, Len(items))
    <2>1. \A i \in 0..Len(items) : part[i] = IF i = 0 THEN 0 ELSE part[i - 1] + Len(items[i])
      <3>1. \A i \in 0..Len(items) : upTo[i] = IF i = 0 THEN 0 ELSE upTo[i - 1] + Len(items[i])
        BY <1>4, <1>6
      <3>2. \A i \in 0..Len(items) : i # 0 => i - 1 \in 0..Len(items)
        BY <1>6
      <3>3. QED
        BY <3>1, <3>2
    <2>2. part = [i \in 0..Len(items) |-> part[i]]
      OBVIOUS
    <2> HIDE DEF part
    <2>3. QED
      BY <2>1, <2>2 DEF IsSum
  <1>8. part[Len(items)] = upTo[Len(items)]
    BY <1>6
  <1> HIDE DEF part
  <1>9. part[Len(items)] = g[Len(items)]
    BY <1>6, <1>7, SumsAgree
  <1>10. QED
    BY <1>5, <1>8, <1>9

LEMMA SizeOfNothing ==
    ASSUME NEW S, NEW items \in Seq(Seq(S)), Len(items) = 0
    PROVE  Size(items) = 0
  <1>1. PICK g : IsSum(g, items, 0)
    BY SumExists
  <1>2. Len(items) \in Nat /\ 0 \in Nat /\ Len(items) <= 0
    OBVIOUS
  <1>3. Size(items) = g[Len(items)]
    BY <1>1, <1>2, SizeIsSum
  <1>4. g[0] = 0
    BY <1>1 DEF IsSum
  <1>5. QED
    BY <1>3, <1>4

LEMMA SizeOfAppend ==
    ASSUME NEW S, NEW items \in Seq(Seq(S)), NEW item \in Seq(S)
    PROVE  Size(Append(items, item)) = Size(items) + Len(item)
  <1> DEFINE n == Len(items)
             longer == Append(items, item)
  <1>1. n \in Nat /\ longer \in Seq(Seq(S)) /\ Len(longer) = n + 1
        /\ longer[n + 1] = item /\ \A i \in 1..n : longer[i] = items[i]
    OBVIOUS
  <1>2. PICK g : IsSum(g, items, n)
    BY <1>1, SumExists
  <1>3. PICK h : IsSum(h, longer, n + 1)
    <2>1. n + 1 \in Nat
      BY <1>1
    <2>2. QED
      BY <2>1, SumExists
  <1>4. \A i \in 1..n : longer[i] = items[i]
    BY <1>1
  <1> HIDE DEF longer
  <1>5. Size(items) = g[n]
    <2>1. n \in Nat /\ n <= n
      BY <1>1
    <2>2. QED
      BY <1>2, <2>1, SizeIsSum
  <1>6. Size(longer) = h[n + 1]
    <2>1. n + 1 \in Nat /\ Len(longer) <= n + 1
      BY <1>1
    <2> HIDE DEF n
    <2>2. QED
      BY <1>1, <1>3, <2>1, SizeIsSum
  <1>7. g[n] = h[n]
    <2>1. n \in Nat /\ n + 1 \in Nat /\ n <= n /\ n <= n + 1
      BY <1>1
    <2>2. \A i \in 1..n : items[i] = longer[i]
      BY <1>4
    <2> HIDE DEF n
    <2>3. QED
      BY <1>2, <1>3, <2>1, <2>2, SumsAgree
  <1>8. h[n + 1] = h[n] + Len(longer[n + 1])
    <2>1. n \in Nat /\ n + 1 \in 0..(n + 1) /\ n + 1 # 0 /\ (n + 1) - 1 = n
      BY <1>1
    <2>2. QED
      BY <1>3, <2>1 DEF IsSum
  <1>9. QED
    BY <1>1, <1>5, <1>6, <1>7, <1>8 DEF longer

LEMMA SizeIsNat ==
    ASSUME NEW S, NEW items \in Seq(Seq(S))
    PROVE  Size(items) \in Nat
  <1>1. Len(items) \in Nat /\ \A i \in 1..Len(items) : Len(items[i]) \in Nat
    OBVIOUS
  <1>2. PICK g : IsSum(g, items, Len(items))
    BY <1>1, SumExists
  <1>3. Size(items) = g[Len(items)]
    BY <1>1, <1>2, SizeIsSum
  <1> DEFINE Bad == {i \in 0..Len(items) : g[i] \notin Nat}
  <1>4. SUFFICES ASSUME Bad # {} PROVE FALSE
    BY <1>1, <1>3
  <1>5. PICK i \in Bad : \A other \in Bad : i <= other
    <2>1. Bad \in SUBSET Nat
      OBVIOUS
    <2> HIDE DEF Bad
    <2>2. QED
      BY <1>4, <2>1, MinOfNat
  <1>6. i \in 0..Len(items) /\ g[i] \notin Nat
    OBVIOUS
  <1>7. i # 0
    BY <1>2, <1>6 DEF IsSum
  <1>8. i - 1 \in 0..Len(items) /\ i - 1 \notin Bad /\ i \in 1..Len(items)
    BY <1>1, <1>5, <1>6, <1>7
  <1>9. g[i - 1] \in Nat /\ Len(items[i]) \in Nat
    BY <1>1, <1>8
  <1>10. g[i] = g[i - 1] + Len(items[i])
    BY <1>2, <1>6, <1>7 DEF IsSum
  <1>11. QED
    BY <1>6, <1>9, <1>10

--------------------------------------------------------------------------------
(* The buffer.                                                                   *)

\* What holds of the call of a demangler at each stage: nothing is in the buffer before
\* one of them has delivered.
BufferInv ==
    /\ stage \in {"swift", "cpp", "done"}
    /\ stage = "swift" => request = NoRequest
    /\ stage = "cpp" => request.length \in BufferLengths
    /\ stage # "done" => buffer = <<>> /\ reply = NoReply
DeliveryInv == BufferInv /\ FitsBuffer /\ NeverBlank

LEMMA Singleton == ASSUME NEW S, NEW x \in S PROVE <<x>> \in Seq(S) /\ Len(<<x>>) = 1
  OBVIOUS

\* A text that leaves room for one more item fits with the terminator.
LEMMA Terminated ==
    ASSUME NEW S, NEW items \in Seq(Seq(S)), NEW length \in Nat, Size(items) < length
    PROVE  Size(Append(items, NUL)) <= length
  <1> DEFINE letters == S \cup {"end of string"}
  <1>1. NUL \in Seq(letters) /\ Len(NUL) = 1
    BY Singleton DEF NUL
  <1>2. items \in Seq(Seq(letters))
    <2>1. S \subseteq letters
      OBVIOUS
    <2> HIDE DEF letters
    <2>2. Seq(S) \subseteq Seq(letters)
      BY <2>1, SeqMonotonic
    <2>3. QED
      BY <2>2, SeqMonotonic
  <1> HIDE DEF letters
  <1>3. Size(Append(items, NUL)) = Size(items) + 1
    BY <1>1, <1>2, SizeOfAppend
  <1>4. Size(items) \in Nat
    BY SizeIsNat
  <1>5. QED
    BY <1>3, <1>4

(* Whatever the printer makes of trees, as long as it is a text: what is copied  *)
(* into the buffer of demangle_symbol() fits with its terminator, and the Swift  *)
(* demangler never answers with nothing.                                         *)
LEMMA DeliveryInductive ==
    /\ DemangleInit => DeliveryInv
    /\ DeliveryInv /\ TreesPrint /\ [DemangleNext]_allVars => DeliveryInv'
  <1>1. Size(<<>>) = 0 /\ <<>> \in Text
    <2>1. <<>> \in Seq(Seq(STRING)) /\ Len(<<>>) = 0
      OBVIOUS
    <2>2. QED
      BY <2>1, SizeOfNothing DEF Text
  <1>2. DemangleInit => DeliveryInv
    BY <1>1 DEF DemangleInit, DeliveryInv, BufferInv, FitsBuffer, NeverBlank, NoRequest, NoReply
  <1>3. ASSUME DeliveryInv, TreesPrint, [DemangleNext]_allVars PROVE DeliveryInv'
    <2> USE <1>3 DEF DeliveryInv, BufferInv, FitsBuffer, NeverBlank
    <2>1. CASE Parse
      BY <2>1 DEF Parse, answer
    <2>2. CASE demangle_swift
      <3>1. PICK simplified \in BOOLEAN, length \in BufferLengths :
              LET demangled == demangleSymbolAsString(simplified)
              IN /\ request' = [simplified |-> simplified, length |-> length]
                 /\ IF Size(demangled) = 0 \/ Size(demangled) >= length
                    THEN stage' = "cpp" /\ UNCHANGED <<buffer, reply>>
                    ELSE Deliver("swift", demangled)
        BY <2>2 DEF demangle_swift
      <3> DEFINE demangled == demangleSymbolAsString(simplified)
      <3>2. demangled \in Text
        BY <1>1, <1>3 DEF demangleSymbolAsString, TreesPrint
      <3> HIDE DEF demangled
      <3>3. length \in Nat /\ request'.length = length /\ stage = "swift" /\ buffer = <<>>
        BY <2>2, <3>1, BufferAssumption DEF demangle_swift
      <3>4. CASE Size(demangled) = 0 \/ Size(demangled) >= length
        BY <1>1, <3>1, <3>3, <3>4 DEF demangled, NoReply
      <3>5. CASE ~(Size(demangled) = 0 \/ Size(demangled) >= length)
        <4>1. Deliver("swift", demangled)
          BY <3>1, <3>5 DEF demangled
        <4>2. Size(demangled) \in Nat
          BY <3>2, SizeIsNat DEF Text
        <4>3. Size(Append(demangled, NUL)) <= length
          BY <3>2, <3>3, <3>5, <4>2, Terminated DEF Text
        <4>4. demangled # <<>>
          BY <1>1, <3>5
        <4>5. QED
          BY <3>3, <4>1, <4>3, <4>4 DEF Deliver
      <3>6. QED
        BY <3>4, <3>5
    <2>3. CASE demangle_cpp
      <3>1. request.length \in Nat /\ request' = request /\ buffer = <<>> /\ stage = "cpp"
        BY <2>3, BufferAssumption DEF demangle_cpp
      <3>2. ASSUME NEW demangled \in CppTexts, Size(demangled) < request.length,
                   Deliver("cpp", demangled)
            PROVE  DeliveryInv'
        <4>1. PICK n \in {0, request.length - 1, request.length} :
                     demangled = [i \in 1..n |-> <<"C++">>]
          BY <3>2 DEF CppTexts
        <4>2. n \in Nat
          BY <3>1, <4>1, BufferAssumption
        <4>3. demangled \in Seq(Seq({"C++"}))
          <5>1. <<"C++">> \in Seq({"C++"})
            BY Singleton
          <5>2. demangled \in [1..n -> Seq({"C++"})]
            BY <4>1, <5>1
          <5>3. QED
            BY <4>2, <5>2
        <4>4. Size(Append(demangled, NUL)) <= request.length
          BY <3>1, <3>2, <4>3, Terminated
        <4>5. QED
          BY <3>1, <3>2, <4>4 DEF Deliver
      <3>3. CASE reply'.by = "caller" /\ stage' = "done" /\ UNCHANGED buffer
        BY <1>1, <3>1, <3>3
      <3>4. QED
        BY <2>3, <3>2, <3>3 DEF demangle_cpp
    <2>4. CASE UNCHANGED allVars
      BY <2>4 DEF allVars, answer
    <2>5. QED
      BY <2>1, <2>2, <2>3, <2>4, <1>3 DEF DemangleNext
  <1>4. QED
    BY <1>2, <1>3

(* demangle_swift() and demangle_cpp() never write behind the buffer: what they  *)
(* wrote has, with its terminator, at most the size the caller gave.             *)
THEOREM BufferLargeEnough ==
    DemangleSpec /\ []TreesPrint => []FitsBuffer
  <1>1. DeliveryInv => FitsBuffer
    BY DEF DeliveryInv
  <1>2. QED
    BY <1>1, DeliveryInductive, PTL DEF DemangleSpec

(* A text that comes from the Swift demangler is not blank.                      *)
THEOREM SwiftTextsNotBlank ==
    DemangleSpec /\ []TreesPrint => []NeverBlank
  <1>1. DeliveryInv => NeverBlank
    BY DEF DeliveryInv
  <1>2. QED
    BY <1>1, DeliveryInductive, PTL DEF DemangleSpec
================================================================================
