----------------------------- MODULE PunycodeProofs ----------------------------
(* Module Punycode for every text: the range of the decoder's arithmetic and the *)
(* bytes of UTF-8.                                                               *)
EXTENDS Punycode, Extremes, SequenceTheorems

--------------------------------------------------------------------------------
(* The loop of adapt(). It ends, so that `scaled` has a value for every number:  *)
(* for each bound there is one table of values up to it, and `scaled` is what    *)
(* the tables agree on.                                                          *)

Limit == ((base - tmin) * tmax) \div 2
\* One round of the loop, when g is what the rounds after it add.
Round(g, d) ==
    IF d > Limit THEN base + g[d \div (base - tmin)]
    ELSE ((base - tmin + 1) * d) \div (d + skew)
IsTable(g, top) == g \in [0..top -> Nat] /\ \A d \in 0..top : g[d] = Round(g, d)

(* A round goes on with a smaller number, and adds a number that is not negative.*)
LEMMA RoundFacts ==
    ASSUME NEW d \in Nat
    PROVE  /\ d > Limit => d \div (base - tmin) \in Nat /\ d \div (base - tmin) < d
           /\ d <= Limit => \A g : Round(g, d) \in Nat
  <1>1. Limit = 455 /\ base - tmin = 35 /\ base - tmin + 1 = 36 /\ skew = 38
    BY DEF Limit, base, tmin, tmax, skew
  <1>2. (36 * d) \div (d + 38) \in Nat
    BY SMT
  <1>3. QED
    BY <1>1, <1>2 DEF Round

(* There is a table for every bound: a least bound without one could be reached  *)
(* from the table below it.                                                      *)
LEMMA TableExists == \A top \in Nat : \E g : IsTable(g, top)
  <1> DEFINE Missing == {top \in Nat : ~ \E g : IsTable(g, top)}
  <1>1. SUFFICES ASSUME Missing # {} PROVE FALSE
    OBVIOUS
  <1>2. PICK top \in Missing : \A other \in Missing : top <= other
    BY <1>1, MinOfNat
  <1>3. \E g : IsTable(g, top)
    <2>1. CASE top = 0
      <3> DEFINE g == [d \in 0..0 |-> Round(<<>>, d)]
      <3>1. 0 <= Limit
        BY DEF Limit, base, tmin, tmax
      <3>2. Round(<<>>, 0) \in Nat /\ Round(g, 0) = Round(<<>>, 0)
        BY <3>1, RoundFacts DEF Round
      <3>3. \A d \in 0..0 : d = 0
        OBVIOUS
      <3>4. IsTable(g, 0)
        BY <3>2, <3>3 DEF IsTable
      <3>5. QED
        BY <2>1, <3>4
    <2>2. CASE top # 0
      <3>1. top \in Nat /\ top - 1 \in Nat /\ top - 1 \notin Missing
        BY <1>2, <2>2
      <3>2. PICK g : IsTable(g, top - 1)
        BY <3>1
      <3> DEFINE h == [d \in 0..top |-> Round(g, d)]
      <3>3. \A d \in 0..top : d > Limit => d \div (base - tmin) \in 0..(top - 1)
        BY <3>1, RoundFacts
      <3>4. \A d \in 0..top : Round(g, d) \in Nat
        <4>1. \A d \in 0..top : d > Limit => g[d \div (base - tmin)] \in Nat
          BY <3>2, <3>3 DEF IsTable
        <4>2. base \in Nat /\ \A d \in 0..top : d \in Nat /\ (d > Limit \/ d <= Limit)
          BY DEF base, Limit, tmin, tmax
        <4>3. QED
          BY <4>1, <4>2, RoundFacts DEF Round
      <3>5. \A d \in 0..(top - 1) : h[d] = g[d]
        BY <3>1, <3>2 DEF IsTable
      <3>6. \A d \in 0..top : h[d] = Round(h, d)
        <4> SUFFICES ASSUME NEW d \in 0..top PROVE h[d] = Round(h, d)
          OBVIOUS
        <4>1. d > Limit => h[d \div (base - tmin)] = g[d \div (base - tmin)]
          BY <3>3, <3>5
        <4>2. h[d] = Round(g, d)
          OBVIOUS
        <4> HIDE DEF h
        <4>3. QED
          BY <4>1, <4>2 DEF Round
      <3>7. IsTable(h, top)
        BY <3>4, <3>6 DEF IsTable
      <3>8. QED
        BY <3>7
    <2>3. QED
      BY <2>1, <2>2
  <1>4. QED
    BY <1>2, <1>3

(* Two tables agree: there is no least number for which they do not.             *)
LEMMA TablesAgree ==
    ASSUME NEW a \in Nat, NEW b \in Nat, NEW g, NEW h, IsTable(g, a), IsTable(h, b),
           NEW d \in Nat, d <= a, d <= b
    PROVE  g[d] = h[d]
  <1> DEFINE Apart == {x \in Nat : x <= a /\ x <= b /\ g[x] # h[x]}
  <1>1. SUFFICES ASSUME Apart # {} PROVE FALSE
    OBVIOUS
  <1>2. PICK x \in Apart : \A y \in Apart : x <= y
    BY <1>1, MinOfNat
  <1>3. x \in 0..a /\ x \in 0..b
    OBVIOUS
  <1>4. g[x] = Round(g, x) /\ h[x] = Round(h, x)
    BY <1>3 DEF IsTable
  <1>5. x > Limit => g[x \div (base - tmin)] = h[x \div (base - tmin)]
    BY <1>2, RoundFacts
  <1>6. QED
    BY <1>4, <1>5 DEF Round

(* adapt() returns a number that is not negative.                                *)
LEMMA ScaledNat == scaled \in [Nat -> Nat]
  <1> DEFINE table(d) == CHOOSE g : IsTable(g, d)
             all == [d \in Nat |-> table(d)[d]]
  <1>1. \A d \in Nat : IsTable(table(d), d)
    BY TableExists
  <1>2. \A d \in Nat : all[d] = Round(all, d)
    <2> SUFFICES ASSUME NEW d \in Nat PROVE all[d] = Round(all, d)
      OBVIOUS
    <2>1. IsTable(table(d), d) /\ d \in 0..d
      BY <1>1
    <2>2. table(d)[d] = Round(table(d), d)
      BY <2>1 DEF IsTable
    <2>3. ASSUME d > Limit
          PROVE  table(d)[d \div (base - tmin)] = all[d \div (base - tmin)]
      <3>1. d \div (base - tmin) \in Nat /\ d \div (base - tmin) < d
        BY <2>3, RoundFacts
      <3>2. PICK e \in Nat : e = d \div (base - tmin) /\ e <= d
        BY <3>1
      <3>3. IsTable(table(e), e)
        BY <1>1
      <3> HIDE DEF table
      <3>4. table(d)[e] = table(e)[e]
        BY <2>1, <3>2, <3>3, TablesAgree
      <3>5. QED
        BY <3>2, <3>4
    <2>4. all[d] = table(d)[d]
      OBVIOUS
    <2> HIDE DEF all, table
    <2>5. QED
      BY <2>2, <2>3, <2>4 DEF Round
  <1>3. all = [d \in Nat |-> Round(all, d)]
    <2>1. all = [d \in Nat |-> all[d]]
      OBVIOUS
    <2> HIDE DEF all
    <2>2. QED
      BY <1>2, <2>1
  <1>4. scaled = [d \in Nat |-> Round(scaled, d)]
    <2> HIDE DEF all
    <2>1. QED
      BY <1>3 DEF scaled, Round, Limit
  <1> HIDE DEF all
  <1>5. \A d \in Nat : scaled[d] \in Nat
    <2> DEFINE Bad == {d \in Nat : scaled[d] \notin Nat}
    <2>1. SUFFICES ASSUME Bad # {} PROVE FALSE
      OBVIOUS
    <2>2. PICK d \in Bad : \A other \in Bad : d <= other
      BY <2>1, MinOfNat
    <2>3. scaled[d] = Round(scaled, d)
      BY <1>4
    <2>4. d > Limit => scaled[d \div (base - tmin)] \in Nat
      BY <2>2, RoundFacts
    <2>5. base \in Nat /\ (d > Limit \/ d <= Limit)
      BY DEF base, Limit, tmin, tmax
    <2>6. Round(scaled, d) \in Nat
      BY <2>4, <2>5, RoundFacts DEF Round
    <2>7. QED
      BY <2>3, <2>6
  <1>6. QED
    BY <1>4, <1>5

--------------------------------------------------------------------------------
(* The inductive invariant.                                                      *)

DecoderInv ==
    /\ points \in Seq(Nat)
    /\ n \in Nat /\ i \in Nat /\ oldi \in Nat /\ bias \in Nat /\ w \in Nat /\ k \in Nat
    /\ oldi <= i /\ oldi <= Len(points)

\* How much a digit can be worth, and the digits before it together.
Weights == <<1, 35, 1225, 42875, 1500625, 52521875>>
Sums == <<0, 35, 1260, 44135, 1544760, 54066635>>
WeightInv ==
    \/ \E j \in 1..6 : k = base * j /\ w <= Weights[j] /\ i <= oldi + Sums[j]
    \/ k > 6 * base

PunycodeInv == DecoderInv /\ WeightInv /\ SixDigitsFit

(* A digit is one of 36, and its threshold is between 1 and 26.                  *)
LEMMA DigitFacts ==
    ASSUME NEW value PROVE digit_index(value) \in -1..35
  BY DEF digit_index
LEMMA ThresholdFacts ==
    ASSUME NEW place \in Nat, NEW b \in Nat PROVE threshold(place, b) \in 1..26
  BY DEF threshold, tmin, tmax

(* Products of numbers that are not negative.                                    *)
LEMMA Products ==
    ASSUME NEW a \in Nat, NEW b \in 0..35
    PROVE  a * b \in Nat /\ a * b <= 35 * a
  OBVIOUS
LEMMA Quotients ==
    ASSUME NEW x \in Nat, NEW a \in Nat, NEW b \in 1..35, a * b <= x
    PROVE  a <= x \div b
  OBVIOUS
LEMMA Remainders ==
    ASSUME NEW x \in Nat, NEW b \in Nat \ {0}
    PROVE  x \div b \in Nat /\ x % b \in 0..(b - 1)
  OBVIOUS

(* A code point that is inserted makes the text one longer.                      *)
LEMMA Inserted ==
    ASSUME NEW s \in Seq(Nat), NEW place \in 1..(Len(s) + 1), NEW c \in Nat
    PROVE  InsertAt(s, place, c) \in Seq(Nat) /\ Len(InsertAt(s, place, c)) = Len(s) + 1
  <1> DEFINE front == SubSeq(s, 1, place - 1)
             back == SubSeq(s, place, Len(s))
  <1>1. Len(s) \in Nat
    OBVIOUS
  <1>2. front \in Seq(Nat) /\ Len(front) = place - 1
    BY <1>1, SubSeqProperties
  <1>3. back \in Seq(Nat) /\ Len(back) = Len(s) - place + 1
    BY <1>1, SubSeqProperties
  <1> HIDE DEF front, back
  <1>4. front \o <<c>> \in Seq(Nat) /\ Len(front \o <<c>>) = place
    BY <1>2, ConcatProperties
  <1>5. (front \o <<c>>) \o back \in Seq(Nat) /\ Len((front \o <<c>>) \o back) = Len(s) + 1
    <2>1. /\ (front \o <<c>>) \o back \in Seq(Nat)
          /\ Len((front \o <<c>>) \o back) = Len(front \o <<c>>) + Len(back)
      BY <1>3, <1>4, ConcatProperties
    <2>2. Len((front \o <<c>>) \o back) = place + (Len(s) - place + 1)
      BY <1>3, <1>4, <2>1
    <2>3. QED
      BY <1>1, <2>1, <2>2
  <1>6. QED
    BY <1>5 DEF InsertAt, front, back

(* adapt() is called with numbers that are not negative.                         *)
LEMMA AdaptNat ==
    ASSUME NEW delta \in Nat, NEW numpoints \in Nat \ {0}, NEW firsttime
    PROVE  adapt(delta, numpoints, firsttime) \in Nat
  <1> DEFINE halved == IF firsttime THEN delta \div damp ELSE delta \div 2
  <1>1. halved \in Nat
    BY DEF damp
  <1>2. halved \div numpoints \in Nat
    BY <1>1, Remainders
  <1> HIDE DEF halved
  <1>3. QED
    BY <1>1, <1>2, ScaledNat DEF adapt, halved

(* The decoder starts with the code points of the text before its last delimiter.*)
LEMMA StartInv == Init => PunycodeInv
  <1> SUFFICES ASSUME NEW text \in Seq(0..255), Start(text) PROVE PunycodeInv
    BY DEF Init
  <1> DEFINE last == SelectLastInSeq(text, LAMBDA c : c = delimiter)
             copied == SubSeq(text, 1, last - 1)
             wide == SelectInSeq(copied, LAMBDA c : c > 127)
  <1>1. text \in Seq(Nat)
    <2>1. 0..255 \subseteq Nat
      OBVIOUS
    <2>2. QED
      BY <2>1, SeqMonotonic
  <1>2. last \in 0..Len(text)
    <2> DEFINE at == {j \in 1..Len(text) : text[j] = delimiter}
    <2>1. last = IF at # {} THEN Max(at) ELSE 0
      BY DEF SelectLastInSeq
    <2>2. at \in SUBSET Nat /\ Len(text) \in Nat /\ \A j \in at : j <= Len(text)
      OBVIOUS
    <2> HIDE DEF at, last
    <2>3. at # {} => Max(at) \in at
      BY <2>2, MaxOfBounded
    <2>4. at # {} => Max(at) \in 1..Len(text)
      BY <2>3 DEF at
    <2>5. Len(text) \in Nat
      OBVIOUS
    <2>6. QED
      BY <2>1, <2>4, <2>5
  <1>3. copied \in Seq(Nat)
    <2> HIDE DEF last
    <2>1. QED
      BY <1>1, <1>2, SubSeqProperties
  <1>4. wide \in 0..Len(copied)
    <2> DEFINE at == {j \in 1..Len(copied) : copied[j] > 127}
    <2>1. wide = IF at # {} THEN Min(at) ELSE 0
      BY DEF SelectInSeq
    <2> HIDE DEF copied
    <2>2. at \in SUBSET Nat /\ Len(copied) \in Nat
      BY <1>3
    <2> HIDE DEF at, wide
    <2>3. at # {} => Min(at) \in at
      BY <2>2, MinOfNat
    <2>4. at # {} => Min(at) \in 1..Len(copied)
      BY <2>3 DEF at
    <2>5. QED
      BY <2>1, <2>2, <2>4
  <1>5. points = IF wide = 0 THEN copied ELSE SubSeq(copied, 1, wide - 1)
    BY DEF Start
  <1>6. /\ n = 128 /\ i = 0 /\ bias = 72 /\ oldi = 0 /\ w = 1 /\ k = base
        /\ outcome \in {"reading", "failed"}
    BY DEF Start, initial_n, initial_bias
  <1> HIDE DEF copied, wide
  <1>7. points \in Seq(Nat)
    BY <1>3, <1>4, <1>5, SubSeqProperties
  <1>8. Len(points) \in Nat
    BY <1>7
  <1>9. QED
    BY <1>6, <1>7, <1>8, SMT DEF PunycodeInv, DecoderInv, WeightInv, SixDigitsFit, Weights, Sums, base

(* Each weight is at most 35 times the one before, and the sums follow.          *)
LEMMA WeightFacts ==
    \A j \in 1..6 :
        /\ Weights[j] \in Nat /\ Sums[j] \in Nat
        /\ Sums[j] + 35 * Weights[j] <= SixDigits /\ 35 * Weights[j] <= SixDigits
        /\ j < 6 => /\ Weights[j + 1] = 35 * Weights[j]
                    /\ Sums[j + 1] = Sums[j] + 35 * Weights[j]
  <1>1. \A j \in 1..6 : j = 1 \/ j = 2 \/ j = 3 \/ j = 4 \/ j = 5 \/ j = 6
    OBVIOUS
  <1>2. QED
    BY <1>1, SMT DEF Weights, Sums, SixDigits
LEMMA SixDigitsNat == SixDigits \in Nat
  BY SMT DEF SixDigits

(* With the weights of its place, a digit keeps the number in its range.         *)
LEMMA DigitsSum ==
    ASSUME DecoderInv, WeightInv, NEW digit \in 0..35
    PROVE  /\ i + digit * w \in Nat /\ oldi <= i + digit * w
           /\ k <= 6 * base => i + digit * w <= Len(points) + SixDigits /\ 35 * w <= SixDigits
           /\ k < 6 * base =>
                 \E j \in 2..6 : /\ k + base = base * j
                                 /\ 35 * w <= Weights[j] /\ i + digit * w <= oldi + Sums[j]
  <1>1. /\ i \in Nat /\ w \in Nat /\ oldi \in Nat /\ k \in Nat /\ oldi <= i
        /\ oldi <= Len(points) /\ Len(points) \in Nat
    BY DEF DecoderInv
  <1>2. digit * w \in Nat /\ digit * w <= 35 * w
    BY <1>1, Products
  <1>3. PICK product \in Nat : product = digit * w /\ product <= 35 * w
    BY <1>2
  <1>4. ASSUME NEW j \in 1..6, k = base * j, w <= Weights[j], i <= oldi + Sums[j]
        PROVE  /\ i + product <= Len(points) + SixDigits /\ 35 * w <= SixDigits
               /\ j < 6 => /\ k + base = base * (j + 1) /\ 35 * w <= Weights[j + 1]
                           /\ i + product <= oldi + Sums[j + 1]
    <2>1. PICK weight_ \in Nat, sum \in Nat : weight_ = Weights[j] /\ sum = Sums[j]
      BY WeightFacts
    <2>2. /\ w <= weight_ /\ i <= oldi + sum
          /\ sum + 35 * weight_ <= SixDigits /\ 35 * weight_ <= SixDigits
          /\ j < 6 => Weights[j + 1] = 35 * weight_ /\ Sums[j + 1] = sum + 35 * weight_
      BY <1>4, <2>1, WeightFacts
    <2>3. /\ product <= 35 * weight_ /\ 35 * w <= 35 * weight_
          /\ i + product <= oldi + (sum + 35 * weight_)
      <3>1. product <= 35 * w /\ i \in Nat /\ w \in Nat /\ oldi \in Nat
        BY <1>1, <1>3
      <3>2. w <= weight_ /\ i <= oldi + sum
        BY <2>2
      <3>3. QED
        BY <3>1, <3>2
    <2>4. k + base = base * (j + 1)
      BY <1>4 DEF base
    <2>5. i + product <= Len(points) + SixDigits /\ 35 * w <= SixDigits
      <3>1. /\ i \in Nat /\ w \in Nat /\ oldi \in Nat /\ Len(points) \in Nat
            /\ oldi <= Len(points)
        BY <1>1
      <3>2. sum + 35 * weight_ <= SixDigits /\ 35 * weight_ <= SixDigits
        BY <2>2
      <3>3. QED
        BY <2>3, <3>1, <3>2, SixDigitsNat
    <2>6. QED
      BY <2>2, <2>3, <2>4, <2>5
  <1>5. \A j \in 1..6 : k = base * j /\ k < 6 * base => j < 6 /\ j + 1 \in 2..6
    BY DEF base
  <1>6. i + digit * w \in Nat /\ oldi <= i + digit * w
    BY <1>1, <1>3
  <1>7. CASE k > 6 * base
    BY <1>1, <1>6, <1>7 DEF base
  <1>8. CASE \E j \in 1..6 : k = base * j /\ w <= Weights[j] /\ i <= oldi + Sums[j]
    <2>1. PICK j \in 1..6 : k = base * j /\ w <= Weights[j] /\ i <= oldi + Sums[j]
      BY <1>8
    <2>2. QED
      BY <1>3, <1>4, <1>5, <1>6, <2>1
  <1>9. QED
    BY <1>7, <1>8 DEF WeightInv

(* The number goes on: its place and its weight grow together.                   *)
LEMMA MoreInv ==
    ASSUME PunycodeInv, outcome = "reading", UNCHANGED outcome, NEW digit \in 0..35,
           More(i + digit * w, threshold(k, bias))
    PROVE  PunycodeInv'
  <1> DEFINE t == threshold(k, bias)
  <1>1. DecoderInv /\ WeightInv
    BY DEF PunycodeInv
  <1>2. /\ i' = i + digit * w /\ w' = w * (base - t) /\ k' = k + base
        /\ points' = points /\ n' = n /\ bias' = bias /\ oldi' = oldi
    BY DEF More, weight
  <1>3. t \in 1..26
    BY <1>1, ThresholdFacts DEF DecoderInv
  <1> HIDE DEF t
  <1>4. w' \in Nat /\ w' <= 35 * w
    <2>1. base - t \in 0..35
      BY <1>3 DEF base
    <2>2. QED
      BY <1>1, <1>2, <2>1, Products DEF DecoderInv
  <1>5. i' \in Nat /\ oldi <= i'
    BY <1>1, <1>2, DigitsSum
  <1>6. DecoderInv'
    BY <1>1, <1>2, <1>4, <1>5 DEF DecoderInv, base
  <1>7. WeightInv'
    <2>1. w \in Nat /\ k \in Nat
      BY <1>1 DEF DecoderInv
    <2>2. CASE k < 6 * base
      <3>1. PICK j \in 2..6 : /\ k + base = base * j
                              /\ 35 * w <= Weights[j] /\ i + digit * w <= oldi + Sums[j]
        BY <1>1, <2>2, DigitsSum
      <3>2. Weights[j] \in Nat
        BY SMT DEF Weights
      <3>3. j \in 1..6 /\ k' = base * j /\ w' <= Weights[j] /\ i' <= oldi' + Sums[j]
        BY <1>2, <1>4, <2>1, <3>1, <3>2
      <3>4. QED
        BY <3>3, SMT DEF WeightInv, Weights, Sums
    <2>3. CASE k >= 6 * base
      BY <1>2, <2>1, <2>3 DEF WeightInv, base
    <2>4. QED
      BY <2>1, <2>2, <2>3 DEF base
  <1>8. SixDigitsFit'
    BY DEF SixDigitsFit
  <1>9. QED
    BY <1>6, <1>7, <1>8 DEF PunycodeInv

(* The number is complete: the text grows by one code point, and the next number *)
(* starts where this one was inserted.                                           *)
LEMMA InsertInv ==
    ASSUME PunycodeInv, outcome = "reading", UNCHANGED outcome, NEW digit \in 0..35,
           Insert(i + digit * w)
    PROVE  PunycodeInv'
  <1> DEFINE size == Len(points) + 1
             m == i + digit * w
  <1>1. DecoderInv /\ WeightInv
    BY DEF PunycodeInv
  <1>2. size \in Nat \ {0} /\ n \in Nat /\ oldi \in Nat /\ points \in Seq(Nat)
    BY <1>1 DEF DecoderInv
  <1>3. m \in Nat /\ oldi <= m
    BY <1>1, DigitsSum
  <1>4. /\ n' = n + m \div size /\ points' = InsertAt(points, (m % size) + 1, n')
        /\ i' = (m % size) + 1 /\ oldi' = i' /\ bias' = adapt(m - oldi, size, oldi = 0)
        /\ w' = 1 /\ k' = base
    BY DEF Insert
  <1> HIDE DEF m
  <1>5. m \div size \in Nat /\ m % size \in 0..(size - 1)
    BY <1>2, <1>3, Remainders
  <1>6. n' \in Nat /\ i' \in 1..size
    BY <1>2, <1>4, <1>5
  <1>7. points' \in Seq(Nat) /\ Len(points') = size
    <2>1. (m % size) + 1 \in 1..(Len(points) + 1)
      BY <1>2, <1>5
    <2>2. QED
      BY <1>2, <1>4, <1>6, <2>1, Inserted
  <1>8. bias' \in Nat
    <2>1. m - oldi \in Nat
      BY <1>2, <1>3
    <2> HIDE DEF size
    <2>2. QED
      BY <1>2, <1>4, <2>1, AdaptNat
  <1>9. DecoderInv'
    BY <1>2, <1>4, <1>6, <1>7, <1>8 DEF DecoderInv, base
  <1>10. WeightInv'
    BY <1>4, <1>6, SMT DEF WeightInv, Weights, Sums, base
  <1>11. SixDigitsFit'
    BY DEF SixDigitsFit
  <1>12. QED
    BY <1>9, <1>10, <1>11 DEF PunycodeInv

(* No product and no sum of the first six digits leaves the range of an int.     *)
LEMMA RoomForSix ==
    ASSUME DecoderInv, WeightInv, NEW digit \in 0..35, NEW t \in 1..26,
           Overflows(digit, t), Len(points) <= MaxInt - SixDigits
    PROVE  k > 6 * base
  <1>1. SUFFICES ASSUME k <= 6 * base PROVE FALSE
    BY DEF DecoderInv, base
  <1>2. /\ i + digit * w \in Nat /\ i + digit * w <= Len(points) + SixDigits
        /\ 35 * w <= SixDigits
    BY <1>1, DigitsSum
  <1>3. i \in Nat /\ w \in Nat /\ Len(points) \in Nat /\ MaxInt \in Nat /\ SixDigits \in Nat
    BY MaxIntAssumption, SixDigitsNat DEF DecoderInv
  <1>4. digit * w \in Nat /\ w * (base - t) \in Nat /\ w * (base - t) <= 35 * w
    BY <1>3, Products DEF base
  <1>5. digit # 0 => w <= (MaxInt - i) \div digit
    <2>1. SUFFICES ASSUME digit # 0 PROVE w <= (MaxInt - i) \div digit
      OBVIOUS
    <2>2. PICK product \in Nat : product = digit * w
      BY <1>4
    <2>3. MaxInt - i \in Nat /\ product <= MaxInt - i
      BY <1>2, <1>3, <2>2
    <2>4. w * digit <= MaxInt - i
      BY <1>3, <2>2, <2>3
    <2>5. QED
      BY <1>3, <2>1, <2>3, <2>4, Quotients
  <1>6. w <= MaxInt \div (base - t)
    <2>1. w * (base - t) <= MaxInt
      <3>1. PICK product \in Nat : product = w * (base - t)
        BY <1>4
      <3>2. product <= MaxInt
        BY <1>2, <1>3, <1>4, <3>1
      <3>3. QED
        BY <3>1, <3>2
    <2>2. base - t \in 1..35
      BY DEF base
    <2>3. QED
      BY <1>3, <2>1, <2>2, Quotients
  <1>7. (MaxInt - i) \div digit \in Int \/ digit = 0
    BY <1>3
  <1>8. MaxInt \div (base - t) \in Int
    BY <1>3 DEF base
  <1>9. QED
    BY <1>3, <1>5, <1>6, <1>7, <1>8 DEF Overflows

(* The invariant holds for every text.                                           *)
THEOREM DecoderInvariant == Spec => []PunycodeInv
  <1>1. PunycodeInv /\ [Next]_vars => PunycodeInv'
    <2> SUFFICES ASSUME PunycodeInv, [Next]_vars PROVE PunycodeInv'
      OBVIOUS
    <2>1. CASE ReadDigit
      <3> DEFINE digit == digit_index(Head(input))
                 t == threshold(k, bias)
      <3>1. DecoderInv /\ WeightInv /\ SixDigitsFit /\ outcome = "reading"
        BY <2>1 DEF PunycodeInv, ReadDigit
      <3>2. digit \in -1..35 /\ t \in 1..26
        BY <3>1, DigitFacts, ThresholdFacts DEF DecoderInv
      <3>3. CASE \E how \in {"failed", "beyond"} : Stop(how)
        BY <3>1, <3>3
        DEF Stop, number, PunycodeInv, DecoderInv, WeightInv, SixDigitsFit
      <3>4. CASE digit >= 0 /\ Overflows(digit, t) /\ Stop("overflow")
        <4> HIDE DEF digit, t
        <4>1. Len(points) <= MaxInt - SixDigits => k > 6 * base
          <5>1. digit \in 0..35
            BY <3>2, <3>4
          <5>2. QED
            BY <3>1, <3>2, <3>4, <5>1, RoomForSix
        <4>2. /\ points' = points /\ n' = n /\ i' = i /\ bias' = bias /\ oldi' = oldi
              /\ w' = w /\ k' = k
          BY <3>4 DEF Stop, number
        <4>3. QED
          BY <3>1, <4>1, <4>2 DEF PunycodeInv, DecoderInv, WeightInv, SixDigitsFit
      <3>5. CASE digit >= 0 /\ More(i + digit * w, t) /\ UNCHANGED outcome
        BY <3>1, <3>2, <3>5, MoreInv
      <3>6. CASE digit >= 0 /\ Insert(i + digit * w) /\ UNCHANGED outcome
        BY <3>1, <3>2, <3>6, InsertInv
      <3>7. QED
        <4> HIDE DEF digit, t
        <4>1. digit < 0 \/ digit >= 0
          BY <3>2
        <4>2. \/ Stop("failed") \/ Stop("beyond")
              \/ digit >= 0 /\ Overflows(digit, t) /\ Stop("overflow")
              \/ digit >= 0 /\ More(i + digit * w, t) /\ UNCHANGED outcome
              \/ digit >= 0 /\ Insert(i + digit * w) /\ UNCHANGED outcome
          BY <2>1, <4>1 DEF ReadDigit, digit, t
        <4>3. QED
          BY <3>3, <3>4, <3>5, <3>6, <4>2
    <2>2. CASE Finish \/ UNCHANGED vars
      <3>1. /\ points' = points /\ n' = n /\ i' = i /\ bias' = bias /\ oldi' = oldi
            /\ w' = w /\ k' = k /\ (outcome' = outcome \/ outcome' = "decoded")
        BY <2>2 DEF Finish, vars
      <3>2. QED
        BY <3>1 DEF PunycodeInv, DecoderInv, WeightInv, SixDigitsFit
    <2>3. QED
      BY <2>1, <2>2 DEF Next
  <1>2. QED
    BY <1>1, StartInv, PTL DEF Spec

(* For every text, of any length: the first six digits of each number fit the    *)
(* arithmetic of decodePunycode(), which checks nothing.                         *)
THEOREM DigitsFit == Spec => []SixDigitsFit
  <1>1. PunycodeInv => SixDigitsFit
    BY DEF PunycodeInv
  <1>2. QED
    BY <1>1, DecoderInvariant, PTL

--------------------------------------------------------------------------------
(* UTF-8.                                                                        *)

\* What Utf8Exact says of one code point.
ReadsBack(s) ==
    LET bytes == utf8(s)
    IN /\ Len(bytes) = Announced(bytes[1]) /\ bytes[1] \notin 128..191
       /\ ScalarOf(bytes) = s
       /\ \A x \in DOMAIN bytes \ {1} : bytes[x] \in 128..191

(* Every code point up to 0x1FFFFF reads back from its one to four bytes.        *)
LEMMA ScalarReadsBack ==
    ASSUME NEW s \in Nat, s <= 2097151 PROVE ReadsBack(s)
  <1>1. Low(s) \in 128..191 /\ Low(s \div 64) \in 128..191 /\ Low(s \div 4096) \in 128..191
    BY SMT DEF Low
  <1>2. CASE s < 128
    BY <1>2, SMT DEF ReadsBack, utf8, Announced, ScalarOf
  <1>3. CASE 128 <= s /\ s < 2048
    <2> DEFINE a == 192 + s \div 64
    <2>1. utf8(s) = <<a, Low(s)>>
      BY <1>3, SMT DEF utf8
    <2>2. a \in 194..223
      BY <1>3, SMT
    <2>3. (a - 192) * 64 + Low(s) - 128 = s
      BY <1>3, SMT DEF Low
    <2> HIDE DEF a
    <2>4. Announced(a) = 2
      BY <2>2, SMT DEF Announced
    <2>5. QED
      BY <1>1, <2>1, <2>2, <2>3, <2>4, SMT DEF ReadsBack, ScalarOf
  <1>4. CASE 2048 <= s /\ s < 65536
    <2> DEFINE a == 224 + s \div 4096
    <2>1. utf8(s) = <<a, Low(s \div 64), Low(s)>>
      BY <1>4, SMT DEF utf8
    <2>2. a \in 224..239
      BY <1>4, SMT
    <2>3. ((a - 224) * 64 + Low(s \div 64) - 128) * 64 + Low(s) - 128 = s
      BY <1>4, SMT DEF Low
    <2> HIDE DEF a
    <2>4. Announced(a) = 3
      BY <2>2, SMT DEF Announced
    <2>5. QED
      BY <1>1, <2>1, <2>2, <2>3, <2>4, SMT DEF ReadsBack, ScalarOf
  <1>5. CASE 65536 <= s
    <2> DEFINE a == 240 + s \div 262144
    <2>1. utf8(s) = <<a, Low(s \div 4096), Low(s \div 64), Low(s)>>
      BY <1>5, SMT DEF utf8
    <2>2. a \in 240..247
      BY <1>5, SMT
    <2>3. (((a - 240) * 64 + Low(s \div 4096) - 128) * 64 + Low(s \div 64) - 128) * 64
            + Low(s) - 128 = s
      <3>1. PICK q \in Nat : q = s \div 64 /\ s = 64 * q + (s % 64)
        BY <1>5, SMT
      <3>2. PICK r \in Nat : r = s \div 4096 /\ q = 64 * r + (q % 64)
        BY <1>5, <3>1, SMT
      <3>3. r = 64 * (s \div 262144) + (r % 64)
        BY <1>5, <3>2, SMT
      <3>4. QED
        BY <3>1, <3>2, <3>3, SMT DEF Low
    <2> HIDE DEF a
    <2>4. Announced(a) = 4
      BY <2>2, SMT DEF Announced
    <2> DEFINE b == Low(s \div 4096)
               c == Low(s \div 64)
               d == Low(s)
               bytes == <<a, b, c, d>>
    <2>5. b \in 128..191 /\ c \in 128..191 /\ d \in 128..191
      BY <1>1, SMT
    <2>6. utf8(s) = bytes
      BY <2>1, SMT
    <2>7. ScalarOf(bytes) = s
      BY <2>3, <2>4, SMT DEF ScalarOf
    <2> HIDE DEF b, c, d
    <2>8. Len(bytes) = 4 /\ bytes[1] = a /\ \A x \in DOMAIN bytes \ {1} : bytes[x] \in 128..191
      BY <2>5, SMT
    <2> HIDE DEF bytes
    <2>9. QED
      BY <2>2, <2>4, <2>6, <2>7, <2>8, SMT DEF ReadsBack
  <1>6. QED
    BY <1>2, <1>3, <1>4, <1>5, SMT

(* Whatever text is decoded, encodeToUTF8() turns all its code points into bytes *)
(* that read back as they are, or it delivers nothing.                           *)
THEOREM Utf8ReadsBack == Spec => []Utf8Exact
  <1>1. PunycodeInv => Utf8Exact
    <2> SUFFICES ASSUME PunycodeInv, encodeToUTF8(points) # <<>>, NEW j \in DOMAIN points
                 PROVE  ReadsBack(points[j])
      BY SMT DEF Utf8Exact, ReadsBack
    <2>1. isValidUnicodeScalar(points[j])
      BY SMT DEF encodeToUTF8
    <2>2. points[j] \in Nat
      BY SMT DEF PunycodeInv, DecoderInv
    <2>3. points[j] \in Nat /\ points[j] <= 2097151
      BY <2>1, <2>2, SMT DEF isValidUnicodeScalar
    <2>4. QED
      BY <2>3, ScalarReadsBack, SMT
  <1>2. QED
    BY <1>1, DecoderInvariant, PTL
================================================================================
