---------------------------- MODULE CsvLines_proofs ----------------------------
(***************************************************************************)
(* Proofs about the lines of CSV as MCAccounts instantiates them: what an  *)
(* import makes of any line that an export wrote, for any number of cells  *)
(* of any length.                                                          *)
(***************************************************************************)
EXTENDS MCAccounts, SequenceTheorems, WellFoundedInduction, TLAPS

-------------------------------------------------------------------------------
(* Numbers *)

\* A set of numbers has a least one.
LEMMA Least ==
    ASSUME NEW S \in SUBSET Nat, S # {}
    PROVE  \E k \in S : \A m \in S : k <= m
<1>1. PICK k \in S : \A m \in S : ~(<<m, k>> \in OpToRel(<, Nat))
  BY NatLessThanWellFounded, WFMin
<1>2. \A m \in S : ~(m < k)
  BY <1>1 DEF OpToRel
<1>3. \A m \in S : k <= m
  BY <1>2
<1> QED
  BY <1>3

\* Induction up to n, of membership in a set: the theorems of NaturalsInduction take
\* the statement as an operator.
LEMMA UpTo ==
    ASSUME NEW n \in Nat, NEW T, 0 \in T,
           \A k \in 0..n : k \in T /\ k < n => k + 1 \in T
    PROVE  \A k \in 0..n : k \in T
<1> DEFINE Missing == (0..n) \ T
<1> SUFFICES ASSUME Missing # {} PROVE FALSE
  OBVIOUS
<1>0. Missing \in SUBSET Nat
  OBVIOUS
<1>1. PICK k \in Missing : \A m \in Missing : k <= m
  <2> HIDE DEF Missing
  <2> QED
    BY <1>0, Least
<1>2. k \in 1..n /\ k - 1 \in 0..n
  OBVIOUS
<1>3. k - 1 \in T
  BY <1>1, <1>2
<1> QED
  BY <1>2, <1>3

\* Numbers up to a bound have a greatest and a least, and Max and Min are these.
LEMMA Extremes ==
    ASSUME NEW n \in Nat, NEW S \in SUBSET (1..n), S # {}
    PROVE  /\ Csv!Min(S) \in S /\ \A i \in S : Csv!Min(S) <= i
           /\ Csv!Max(S) \in S /\ \A i \in S : i <= Csv!Max(S)
<1>1. \E k \in S : \A i \in S : k <= i
  BY Least
<1> DEFINE Room == {r \in 0..n : n - r \in S}
<1>2. Room \in SUBSET Nat /\ Room # {}
  <2>1. PICK i \in S : i \in 1..n
    OBVIOUS
  <2>2. n - i \in Room
    BY <2>1
  <2>3. \A r \in Room : r \in Nat
    OBVIOUS
  <2> HIDE DEF Room
  <2> QED
    BY <2>2, <2>3
<1>3. PICK r \in Room : \A q \in Room : r <= q
  <2> HIDE DEF Room
  <2> QED
    BY <1>2, Least
<1>4. n - r \in S /\ \A i \in S : i <= n - r
  BY <1>3
<1>5. \E k \in S : \A i \in S : k >= i
  BY <1>4
<1> QED
  BY <1>1, <1>5 DEF Csv!Min, Csv!Max

-------------------------------------------------------------------------------
(* Concatenation: where each piece of a flattened sequence is *)

\* flat[i] is the first i of the n sequences in s, one after another; the recursion by
\* which FlattenSeq defines it has a solution.
Flattens(flat, n, s) ==
    flat = [i \in 1..n |-> IF i = 1 THEN s[i] ELSE flat[i - 1] \o s[i]]

LEMMA FlattensExists ==
    ASSUME NEW S, NEW n \in Nat \ {0}, NEW s \in [1..n -> Seq(S)]
    PROVE  \E f : Flattens(f, n, s)
<1> DEFINE Begins(f, k) == \A i \in 1..k : f[i] = IF i = 1 THEN s[i] ELSE f[i - 1] \o s[i]
           T == {k \in 0..n : \E f \in [1..k -> Seq(S)] : Begins(f, k)}
<1>1. 0 \in T
  <2>1. <<>> \in [1..0 -> Seq(S)] /\ Begins(<<>>, 0)
    OBVIOUS
  <2>2. 0 \in 0..n
    OBVIOUS
  <2> QED
    BY <2>1, <2>2
<1>2. ASSUME NEW k \in 0..n, k \in T, k < n PROVE k + 1 \in T
  <2>0. PICK f \in [1..k -> Seq(S)] : Begins(f, k)
    BY <1>2
  <2>1. \A i \in 1..k : f[i] = IF i = 1 THEN s[i] ELSE f[i - 1] \o s[i]
    BY <2>0
  <2> DEFINE new == IF k = 0 THEN s[1] ELSE f[k] \o s[k + 1]
             g == [i \in 1..k + 1 |-> IF i = k + 1 THEN new ELSE f[i]]
  <2>2. new \in Seq(S)
    <3>1. CASE k = 0
      BY <3>1
    <3>2. CASE k # 0
      <4>1. f[k] \in Seq(S) /\ s[k + 1] \in Seq(S)
        BY <3>2, <1>2
      <4> QED
        BY <4>1, <3>2
    <3> QED
      BY <3>1, <3>2
  <2>3. g \in [1..k + 1 -> Seq(S)]
    BY <2>2
  <2>4. Begins(g, k + 1)
    <3> SUFFICES ASSUME NEW i \in 1..k + 1
                 PROVE  g[i] = IF i = 1 THEN s[i] ELSE g[i - 1] \o s[i]
      OBVIOUS
    <3>1. CASE i = k + 1
      BY <3>1
    <3>2. CASE i # k + 1
      <4>1. i \in 1..k /\ g[i] = f[i]
        BY <3>2
      <4>2. i # 1 => i - 1 \in 1..k /\ g[i - 1] = f[i - 1]
        BY <4>1
      <4> HIDE DEF g
      <4> QED
        BY <4>1, <4>2, <2>1
    <3> QED
      BY <3>1, <3>2
  <2>5. k + 1 \in 0..n
    BY <1>2
  <2> QED
    BY <2>3, <2>4, <2>5
<1>3. n \in T
  <2>1. \A k \in 0..n : k \in T
    <3> HIDE DEF T
    <3> QED
      BY <1>1, <1>2, UpTo
  <2> HIDE DEF T
  <2> QED
    BY <2>1
<1>4. PICK f \in [1..n -> Seq(S)] : Begins(f, n)
  BY <1>3
<1>5. Flattens(f, n, s)
  BY <1>4 DEF Flattens
<1> QED
  BY <1>5

Grows(flat, n, s) == flat[1] = s[1] /\ \A i \in 2..n : flat[i] = flat[i - 1] \o s[i]

LEMMA FlattensGrows ==
    ASSUME NEW n \in Nat \ {0}, NEW s, NEW flat, Flattens(flat, n, s)
    PROVE  Grows(flat, n, s)
<1>1. \A i \in 1..n : flat[i] = IF i = 1 THEN s[i] ELSE flat[i - 1] \o s[i]
  BY DEF Flattens
<1>2. 1 \in 1..n /\ \A i \in 2..n : i \in 1..n /\ i # 1
  OBVIOUS
<1> QED
  BY <1>1, <1>2 DEF Grows

LEMMA FlattensType ==
    ASSUME NEW S, NEW n \in Nat \ {0}, NEW s \in [1..n -> Seq(S)],
           NEW flat, Flattens(flat, n, s)
    PROVE  flat \in [1..n -> Seq(S)]
<1>1. Grows(flat, n, s)
  BY FlattensGrows
<1>2. flat[1] = s[1] /\ \A i \in 2..n : flat[i] = flat[i - 1] \o s[i]
  BY <1>1 DEF Grows
<1> DEFINE T == {k \in 0..n : \A i \in 1..k : flat[i] \in Seq(S)}
<1>3. 0 \in T
  OBVIOUS
<1>4. ASSUME NEW k \in 0..n, k \in T, k < n PROVE k + 1 \in T
  <2>1. k + 1 \in 1..n /\ s[k + 1] \in Seq(S)
    BY <1>4
  <2>2. flat[k + 1] \in Seq(S)
    <3>1. CASE k = 0
      BY <3>1, <2>1, <1>2
    <3>2. CASE k # 0
      <4>1. flat[k] \in Seq(S) /\ k + 1 \in 2..n
        BY <3>2, <1>4
      <4>2. flat[k + 1] = flat[k] \o s[k + 1]
        <5>1. (k + 1) - 1 = k
          OBVIOUS
        <5> QED
          BY <4>1, <5>1, <1>2
      <4> QED
        BY <4>1, <4>2, <2>1
    <3> QED
      BY <3>1, <3>2
  <2>3. \A i \in 1..k + 1 : flat[i] \in Seq(S)
    <3> SUFFICES ASSUME NEW i \in 1..k + 1 PROVE flat[i] \in Seq(S)
      OBVIOUS
    <3>1. CASE i = k + 1
      BY <3>1, <2>2
    <3>2. CASE i # k + 1
      BY <3>2, <1>4
    <3> QED
      BY <3>1, <3>2
  <2>4. k + 1 \in 0..n
    BY <1>4
  <2> QED
    BY <2>3, <2>4
<1>5. \A k \in 0..n : k \in T
  <2> HIDE DEF T
  <2> QED
    BY <1>3, <1>4, UpTo
<1>6. \A i \in 1..n : flat[i] \in Seq(S)
  <2>1. n \in T
    <3> HIDE DEF T
    <3> QED
      BY <1>5
  <2> QED
    BY <2>1
<1>7. flat = [i \in 1..n |-> flat[i]]
  BY DEF Flattens
<1> QED
  BY <1>6, <1>7

\* Where the pieces are: widths[k] is the length of the first k of them.
Places(widths, n, s, whole) ==
    /\ widths \in [0..n -> Nat] /\ widths[0] = 0 /\ widths[n] = Len(whole)
    /\ \A k \in 1..n : /\ widths[k] = widths[k - 1] + Len(s[k])
                       /\ widths[k] <= Len(whole)
                       /\ \A m \in 1..Len(s[k]) : whole[widths[k - 1] + m] = s[k][m]

LEMMA FlattensPlaces ==
    ASSUME NEW S, NEW n \in Nat \ {0}, NEW s \in [1..n -> Seq(S)],
           NEW flat, Flattens(flat, n, s)
    PROVE  \E widths : Places(widths, n, s, flat[n])
<1>1. /\ flat \in [1..n -> Seq(S)] /\ flat[1] = s[1]
      /\ \A i \in 2..n : flat[i] = flat[i - 1] \o s[i]
  <2>1. flat \in [1..n -> Seq(S)] /\ Grows(flat, n, s)
    BY FlattensType, FlattensGrows
  <2> QED
    BY <2>1 DEF Grows
<1> DEFINE widths == [k \in 0..n |-> IF k = 0 THEN 0 ELSE Len(flat[k])]
<1>2. widths[0] = 0 /\ \A k \in 1..n : widths[k] = Len(flat[k])
  OBVIOUS
<1>3. widths \in [0..n -> Nat]
  BY <1>1
<1> HIDE DEF widths
<1>4. ASSUME NEW k \in 1..n
      PROVE  /\ widths[k] = widths[k - 1] + Len(s[k])
             /\ \A m \in 1..Len(s[k]) : flat[k][widths[k - 1] + m] = s[k][m]
             /\ \A m \in 1..widths[k - 1] : flat[k][m] = flat[k - 1][m]
  <2>1. CASE k = 1
    BY <2>1, <1>1, <1>2
  <2>2. CASE k # 1
    <3>1. k \in 2..n /\ k - 1 \in 1..n
      BY <2>2
    <3>2. /\ flat[k] = flat[k - 1] \o s[k]
          /\ flat[k - 1] \in Seq(S) /\ s[k] \in Seq(S)
          /\ widths[k] = Len(flat[k]) /\ widths[k - 1] = Len(flat[k - 1])
      BY <3>1, <1>1, <1>2
    <3> QED
      BY <3>2, ConcatProperties
  <2> QED
    BY <2>1, <2>2
\* The whole begins with each of the flat[k]: by induction from the last one down.
<1> DEFINE Prefix(k) == /\ widths[k] <= widths[n]
                        /\ \A m \in 1..widths[k] : flat[n][m] = flat[k][m]
           T == {d \in 0..n : d = n \/ Prefix(n - d)}
<1>5. 0 \in T
  BY <1>3
<1>6. ASSUME NEW d \in 0..n, d \in T, d < n PROVE d + 1 \in T
  <2>1. CASE d + 1 = n
    BY <2>1
  <2>2. CASE d + 1 # n
    <3> DEFINE k == n - d
    <3>1. k \in 1..n /\ k - 1 \in 1..n /\ n - (d + 1) = k - 1 /\ d + 1 \in 0..n
      BY <1>6, <2>2
    <3>2. Prefix(k)
      BY <1>6
    <3>3. Prefix(k - 1)
      <4> HIDE DEF k
      <4>1. widths[k] \in Nat /\ widths[k - 1] \in Nat /\ widths[n] \in Nat /\ Len(s[k]) \in Nat
        BY <1>3, <3>1
      <4>2. /\ widths[k] = widths[k - 1] + Len(s[k])
            /\ \A m \in 1..widths[k - 1] : flat[k][m] = flat[k - 1][m]
        BY <3>1, <1>4
      <4>3. widths[k - 1] <= widths[k] /\ 1..widths[k - 1] \subseteq 1..widths[k]
        BY <4>1, <4>2
      <4>4. widths[k - 1] <= widths[n]
        BY <4>1, <4>3, <3>2
      <4> QED
        BY <4>2, <4>3, <4>4, <3>2
    <3> QED
      BY <3>1, <3>3
  <2> QED
    BY <2>1, <2>2
<1>7. \A d \in 0..n : d \in T
  <2> HIDE DEF T
  <2> QED
    BY <1>5, <1>6, UpTo
<1>8. ASSUME NEW k \in 1..n
      PROVE  /\ widths[k] <= Len(flat[n])
             /\ \A m \in 1..Len(s[k]) : flat[n][widths[k - 1] + m] = s[k][m]
  <2>1. n - k \in 0..n /\ n - k # n /\ n - (n - k) = k
    OBVIOUS
  <2>2. Prefix(k)
    BY <2>1, <1>7
  <2>3. widths[k] \in Nat /\ widths[k - 1] \in Nat /\ Len(s[k]) \in Nat
    BY <1>3
  <2>4. \A m \in 1..Len(s[k]) : widths[k - 1] + m \in 1..widths[k]
    BY <2>3, <1>4
  <2>5. widths[n] = Len(flat[n])
    BY <1>2
  <2>6. \A m \in 1..Len(s[k]) : flat[k][widths[k - 1] + m] = s[k][m]
    BY <1>4
  <2> QED
    BY <2>2, <2>4, <2>5, <2>6
<1>9. widths[n] = Len(flat[n])
  BY <1>2
<1>10. \A k \in 1..n : /\ widths[k] = widths[k - 1] + Len(s[k])
                       /\ widths[k] <= Len(flat[n])
                       /\ \A m \in 1..Len(s[k]) : flat[n][widths[k - 1] + m] = s[k][m]
  BY <1>4, <1>8
<1>11. Places(widths, n, s, flat[n])
  BY <1>2, <1>3, <1>9, <1>10 DEF Places
<1> QED
  BY <1>11

LEMMA Flattened ==
    ASSUME NEW S, NEW s \in Seq(Seq(S))
    PROVE  /\ Csv!FlattenSeq(s) \in Seq(S)
           /\ \E widths : Places(widths, Len(s), s, Csv!FlattenSeq(s))
<1> DEFINE n == Len(s)
<1>0. n \in Nat /\ s \in [1..n -> Seq(S)]
  OBVIOUS
<1>1. CASE n = 0
  <2>1. s = <<>> /\ Csv!FlattenSeq(s) = <<>>
    BY <1>1 DEF Csv!FlattenSeq
  <2> DEFINE none == [k \in 0..0 |-> 0]
  <2>2. none \in [0..0 -> Nat] /\ none[0] = 0
    OBVIOUS
  <2>3. Places(none, 0, s, Csv!FlattenSeq(s))
    BY <2>1, <2>2 DEF Places
  <2> QED
    BY <1>1, <2>1, <2>3
<1>2. CASE n # 0
  <2> DEFINE flat == CHOOSE f : f = [i \in 1..n |-> IF i = 1 THEN s[i] ELSE f[i - 1] \o s[i]]
  <2>1. Csv!FlattenSeq(s) = flat[n]
    BY <1>2 DEF Csv!FlattenSeq
  <2>2. Flattens(flat, n, s)
    <3>1. \E f : Flattens(f, n, s)
      <4> HIDE DEF n
      <4> QED
        BY <1>0, <1>2, FlattensExists
    <3> QED
      BY <3>1 DEF Flattens
  <2> HIDE DEF flat, n
  <2>3. flat \in [1..n -> Seq(S)]
    BY <1>0, <1>2, <2>2, FlattensType
  <2>4. \E widths : Places(widths, n, s, flat[n])
    BY <1>0, <1>2, <2>2, FlattensPlaces
  <2>5. flat[n] \in Seq(S)
    BY <1>0, <1>2, <2>3
  <2> QED
    BY <2>1, <2>4, <2>5 DEF n
<1> QED
  BY <1>1, <1>2

-------------------------------------------------------------------------------
(* trim() *)

Inks(s) == {i \in 1..Len(s) : s[i] # "space"}

\* Trim cuts from the first character that is no space to the last.
LEMMA TrimCuts ==
    ASSUME NEW s \in Seq(Csv!Characters)
    PROVE  /\ Inks(s) = {} => Csv!Trim(s) = <<>>
           /\ \A a, b \in Inks(s) : (\A i \in Inks(s) : a <= i /\ i <= b)
                                       => Csv!Trim(s) = SubSeq(s, a, b)
<1> DEFINE Ink(c) == c # "space"
<1>1. Inks(s) \in SUBSET (1..Len(s)) /\ Len(s) \in Nat
  BY DEF Inks
<1>2. /\ Csv!SelectInSeq(s, Ink) = IF Inks(s) # {} THEN Csv!Min(Inks(s)) ELSE 0
      /\ Csv!SelectLastInSeq(s, Ink) = IF Inks(s) # {} THEN Csv!Max(Inks(s)) ELSE 0
  BY DEF Csv!SelectInSeq, Csv!SelectLastInSeq, Inks
<1>3. Csv!Trim(s) = IF Csv!SelectInSeq(s, Ink) = 0 THEN <<>>
                    ELSE SubSeq(s, Csv!SelectInSeq(s, Ink), Csv!SelectLastInSeq(s, Ink))
  BY DEF Csv!Trim
<1>4. Inks(s) = {} => Csv!Trim(s) = <<>>
  BY <1>2, <1>3
<1>5. ASSUME NEW a \in Inks(s), NEW b \in Inks(s), \A i \in Inks(s) : a <= i /\ i <= b
      PROVE  Csv!Trim(s) = SubSeq(s, a, b)
  <2>1. /\ Csv!Min(Inks(s)) \in Inks(s) /\ \A i \in Inks(s) : Csv!Min(Inks(s)) <= i
        /\ Csv!Max(Inks(s)) \in Inks(s) /\ \A i \in Inks(s) : i <= Csv!Max(Inks(s))
    BY <1>1, Extremes
  <2>2. a \in 1..Len(s) /\ b \in 1..Len(s)
    BY <1>1
  <2>3. Csv!Min(Inks(s)) = a /\ Csv!Max(Inks(s)) = b
    BY <1>1, <1>5, <2>1, <2>2
  <2>4. Inks(s) # {} /\ a # 0
    BY <2>2
  <2>5. Csv!SelectInSeq(s, Ink) = a /\ Csv!SelectLastInSeq(s, Ink) = b
    BY <1>2, <2>3, <2>4
  <2> QED
    BY <1>3, <2>4, <2>5
<1> QED
  BY <1>4, <1>5

LEMMA SubSeqShifts ==
    ASSUME NEW S, NEW s \in Seq(S), NEW t \in Seq(S), Len(t) = Len(s) + 1,
           \A i \in 1..Len(s) : t[i + 1] = s[i],
           NEW a \in 1..Len(s), NEW b \in 1..Len(s)
    PROVE  SubSeq(t, a + 1, b + 1) = SubSeq(s, a, b) /\ SubSeq(s, a, b) \in Seq(S)
<1> DEFINE cut == SubSeq(s, a, b)
           moved == SubSeq(t, a + 1, b + 1)
<1>1. PICK n \in Nat : n = Len(s)
  OBVIOUS
<1>2. a \in 1..n /\ b \in 1..n
  BY <1>1
<1>3. /\ a \in 1..Len(s) /\ b \in 1..Len(s)
      /\ a + 1 \in 1..Len(t) /\ b + 1 \in 1..Len(t)
  BY <1>1, <1>2
<1>4. /\ cut \in Seq(S) /\ Len(cut) = IF a <= b THEN b - a + 1 ELSE 0
      /\ \A i \in 1..b - a + 1 : cut[i] = s[a + i - 1]
  BY <1>3, SubSeqProperties
<1>5. /\ moved \in Seq(S) /\ Len(moved) = IF a + 1 <= b + 1 THEN (b + 1) - (a + 1) + 1 ELSE 0
      /\ \A i \in 1..(b + 1) - (a + 1) + 1 : moved[i] = t[(a + 1) + i - 1]
  BY <1>3, SubSeqProperties
<1> HIDE DEF cut, moved
<1>6. a \in Nat /\ b \in Nat /\ (b + 1) - (a + 1) + 1 = b - a + 1 /\ (a + 1 <= b + 1 <=> a <= b)
  BY <1>2
<1>7. Len(moved) = Len(cut) /\ Len(cut) <= IF a <= b THEN b - a + 1 ELSE 0
  BY <1>4, <1>5, <1>6
<1>8. ASSUME NEW i \in 1..Len(moved) PROVE moved[i] = cut[i]
  <2>1. a <= b /\ i \in 1..b - a + 1
    BY <1>4, <1>6, <1>7
  <2>2. a + i - 1 \in 1..n /\ (a + 1) + i - 1 = (a + i - 1) + 1
    BY <1>2, <2>1
  <2>3. moved[i] = t[(a + i - 1) + 1] /\ cut[i] = s[a + i - 1]
    BY <1>4, <1>5, <1>6, <2>1, <2>2
  <2> QED
    BY <1>1, <2>2, <2>3
<1>9. moved = cut
  BY <1>4, <1>5, <1>7, <1>8, SeqEqual
<1> QED
  BY <1>4, <1>9 DEF cut, moved

\* A space before, such as the byte order mark, makes no difference.
LEMMA TrimLead ==
    ASSUME NEW s \in Seq(Csv!Characters)
    PROVE  /\ Csv!Trim(<<"space">> \o s) = Csv!Trim(s)
           /\ Csv!Trim(s) \in Seq(Csv!Characters)
<1> DEFINE t == <<"space">> \o s
<1>0. "space" \in Csv!Characters
  BY DEF Csv!Characters
<1>1. /\ t \in Seq(Csv!Characters) /\ Len(t) = Len(s) + 1 /\ Len(s) \in Nat
      /\ t[1] = "space" /\ \A i \in 1..Len(s) : t[i + 1] = s[i]
  BY <1>0
<1> HIDE DEF t
<1>2. /\ \A i \in Inks(s) : i + 1 \in Inks(t)
      /\ \A i \in Inks(t) : i - 1 \in Inks(s)
  <2>1. ASSUME NEW i \in Inks(s) PROVE i + 1 \in Inks(t)
    BY <1>1 DEF Inks
  <2>2. ASSUME NEW i \in Inks(t) PROVE i - 1 \in Inks(s)
    <3>1. i \in 1..Len(t) /\ t[i] # "space"
      BY DEF Inks
    <3>2. i - 1 \in 1..Len(s) /\ (i - 1) + 1 = i
      BY <1>1, <3>1
    <3>3. s[i - 1] # "space"
      BY <1>1, <3>1, <3>2
    <3> QED
      BY <3>2, <3>3 DEF Inks
  <2> QED
    BY <2>1, <2>2
<1>3. CASE Inks(s) = {}
  <2>1. Inks(t) = {}
    BY <1>2, <1>3
  <2>2. Csv!Trim(s) = <<>> /\ Csv!Trim(t) = <<>>
    BY <1>1, <1>3, <2>1, TrimCuts
  <2> QED
    BY <2>2 DEF t
<1>4. CASE Inks(s) # {}
  <2> DEFINE a == Csv!Min(Inks(s))
             b == Csv!Max(Inks(s))
  <2>0. Inks(s) \in SUBSET (1..Len(s))
    BY DEF Inks
  <2>1. a \in Inks(s) /\ b \in Inks(s) /\ \A i \in Inks(s) : a <= i /\ i <= b
    BY <1>1, <1>4, <2>0, Extremes
  <2> HIDE DEF a, b
  <2>2. a \in 1..Len(s) /\ b \in 1..Len(s)
    BY <2>0, <2>1
  <2>3. Csv!Trim(s) = SubSeq(s, a, b)
    BY <2>1, TrimCuts
  <2>4. \A i \in Inks(t) : a + 1 <= i /\ i <= b + 1
    <3> SUFFICES ASSUME NEW i \in Inks(t) PROVE a + 1 <= i /\ i <= b + 1
      OBVIOUS
    <3>1. i \in Int
      BY DEF Inks
    <3>2. a <= i - 1 /\ i - 1 <= b
      BY <1>2, <2>1
    <3> QED
      BY <2>2, <3>1, <3>2
  <2>5. Csv!Trim(t) = SubSeq(t, a + 1, b + 1)
    BY <1>1, <1>2, <2>1, <2>4, TrimCuts
  <2>6. SubSeq(t, a + 1, b + 1) = SubSeq(s, a, b) /\ SubSeq(s, a, b) \in Seq(Csv!Characters)
    BY <1>1, <2>2, SubSeqShifts
  <2> QED
    BY <2>3, <2>5, <2>6 DEF t
<1> QED
  BY <1>3, <1>4

-------------------------------------------------------------------------------
(* The writer: where the characters of a cell and the cells of a line are *)

\* The first j characters of a cell take width[j] of the escaped one.
Spelled(width, cell) ==
    /\ width[0] = 0 /\ width[Len(cell)] = Len(Csv!Doubled(cell))
    /\ \A j \in 1..Len(cell) :
         IF cell[j] = "quote"
         THEN /\ width[j] = width[j - 1] + 2
              /\ Csv!Doubled(cell)[width[j - 1] + 1] = "quote"
              /\ Csv!Doubled(cell)[width[j - 1] + 2] = "quote"
         ELSE /\ width[j] = width[j - 1] + 1
              /\ Csv!Doubled(cell)[width[j - 1] + 1] = cell[j]

LEMMA DoubledSpells ==
    ASSUME NEW cell \in Seq(Csv!Characters)
    PROVE  /\ Csv!Doubled(cell) \in Seq(Csv!Characters)
           /\ \E width \in [0..Len(cell) -> 0..Len(Csv!Doubled(cell))] : Spelled(width, cell)
<1> DEFINE pieces == [i \in DOMAIN cell |-> IF cell[i] = "quote" THEN <<"quote", "quote">>
                                                                ELSE <<cell[i]>>]
           whole == Csv!Doubled(cell)
<1>0. "quote" \in Csv!Characters
  BY DEF Csv!Characters
<1>1. /\ pieces \in Seq(Seq(Csv!Characters)) /\ Len(pieces) = Len(cell) /\ Len(cell) \in Nat
      /\ \A i \in 1..Len(cell) :
           pieces[i] = IF cell[i] = "quote" THEN <<"quote", "quote">> ELSE <<cell[i]>>
  <2>1. DOMAIN cell = 1..Len(cell) /\ Len(cell) \in Nat
    OBVIOUS
  <2>2. \A i \in 1..Len(cell) : cell[i] \in Csv!Characters
    OBVIOUS
  <2>3. \A i \in 1..Len(cell) : pieces[i] \in Seq(Csv!Characters)
    BY <1>0, <2>1, <2>2
  <2>4. pieces \in [1..Len(cell) -> Seq(Csv!Characters)]
    BY <2>1, <2>3
  <2>5. \A i \in 1..Len(cell) :
           pieces[i] = IF cell[i] = "quote" THEN <<"quote", "quote">> ELSE <<cell[i]>>
    BY <2>1
  <2> HIDE DEF pieces
  <2> QED
    BY <2>1, <2>4, <2>5
<1>2. whole = Csv!FlattenSeq(pieces)
  BY DEF Csv!Doubled
<1> HIDE DEF pieces, whole
<1>3. /\ whole \in Seq(Csv!Characters)
      /\ \E width : Places(width, Len(cell), pieces, whole)
  BY <1>1, <1>2, Flattened
<1>4. PICK width : Places(width, Len(cell), pieces, whole)
  BY <1>3
<1>5. /\ width \in [0..Len(cell) -> Nat] /\ width[0] = 0 /\ width[Len(cell)] = Len(whole)
      /\ \A k \in 1..Len(cell) :
           /\ width[k] = width[k - 1] + Len(pieces[k])
           /\ width[k] <= Len(whole)
           /\ \A m \in 1..Len(pieces[k]) : whole[width[k - 1] + m] = pieces[k][m]
  BY <1>4 DEF Places
<1>6. width \in [0..Len(cell) -> 0..Len(whole)]
  <2>1. ASSUME NEW k \in 0..Len(cell) PROVE width[k] \in 0..Len(whole)
    <3>1. Len(whole) \in Nat /\ width[k] \in Nat
      BY <1>3, <1>5
    <3>2. k = 0 \/ k \in 1..Len(cell)
      BY <1>1
    <3> QED
      BY <1>5, <3>1, <3>2
  <2> QED
    BY <1>5, <2>1
<1>7. ASSUME NEW j \in 1..Len(cell)
      PROVE  IF cell[j] = "quote"
             THEN /\ width[j] = width[j - 1] + 2
                  /\ whole[width[j - 1] + 1] = "quote"
                  /\ whole[width[j - 1] + 2] = "quote"
             ELSE /\ width[j] = width[j - 1] + 1
                  /\ whole[width[j - 1] + 1] = cell[j]
  <2>1. CASE cell[j] = "quote"
    <3>1. pieces[j] = <<"quote", "quote">>
      BY <1>1, <2>1
    <3>2. Len(pieces[j]) = 2 /\ pieces[j][1] = "quote" /\ pieces[j][2] = "quote"
      BY <3>1
    <3>3. 1 \in 1..Len(pieces[j]) /\ 2 \in 1..Len(pieces[j])
      BY <3>2
    <3> QED
      BY <1>5, <2>1, <3>2, <3>3
  <2>2. CASE cell[j] # "quote"
    <3>1. pieces[j] = <<cell[j]>>
      BY <1>1, <2>2
    <3>2. Len(pieces[j]) = 1 /\ pieces[j][1] = cell[j]
      BY <3>1
    <3>3. 1 \in 1..Len(pieces[j])
      BY <3>2
    <3> QED
      BY <1>5, <2>2, <3>2, <3>3
  <2> QED
    BY <2>1, <2>2
<1>8. Spelled(width, cell)
  BY <1>5, <1>7 DEF Spelled, whole
<1> QED
  BY <1>3, <1>6, <1>8 DEF whole

\* A title holds no quotes and is its own escape.
LEMMA DoubledPlain ==
    ASSUME NEW cell \in Seq(Csv!Characters), \A i \in 1..Len(cell) : cell[i] # "quote"
    PROVE  Csv!Doubled(cell) = cell
<1>1. Csv!Doubled(cell) \in Seq(Csv!Characters) /\ Len(cell) \in Nat
  BY DoubledSpells
<1>2. PICK width \in [0..Len(cell) -> 0..Len(Csv!Doubled(cell))] : Spelled(width, cell)
  BY DoubledSpells
<1>3. /\ width[0] = 0 /\ width[Len(cell)] = Len(Csv!Doubled(cell))
      /\ \A j \in 1..Len(cell) : /\ width[j] = width[j - 1] + 1
                                 /\ Csv!Doubled(cell)[width[j - 1] + 1] = cell[j]
  BY <1>2 DEF Spelled
<1> DEFINE T == {j \in 0..Len(cell) : width[j] = j}
<1>4. 0 \in T
  BY <1>1, <1>3
<1>5. ASSUME NEW k \in 0..Len(cell), k \in T, k < Len(cell) PROVE k + 1 \in T
  <2>1. k + 1 \in 1..Len(cell) /\ (k + 1) - 1 = k
    BY <1>1, <1>5
  <2>2. width[k + 1] = width[k] + 1
    BY <1>3, <2>1
  <2> QED
    BY <1>5, <2>1, <2>2
<1>6. \A k \in 0..Len(cell) : k \in T
  <2> HIDE DEF T
  <2> QED
    BY <1>1, <1>4, <1>5, UpTo
<1>7. Len(Csv!Doubled(cell)) = Len(cell)
  BY <1>1, <1>3, <1>6
<1>8. ASSUME NEW j \in 1..Len(cell) PROVE Csv!Doubled(cell)[j] = cell[j]
  <2>1. j - 1 \in 0..Len(cell) /\ (j - 1) + 1 = j
    BY <1>1
  <2>2. width[j - 1] = j - 1
    BY <1>6, <2>1
  <2> QED
    BY <1>3, <2>1, <2>2
<1> QED
  BY <1>1, <1>7, <1>8, SeqEqual

\* The quote that opens cell k is at open[k].  Whatever comes before the first, a comma
\* and the next quote follow each but the last.
Laid(open, quoted, text) ==
    \A k \in 1..Len(quoted) :
      LET close == open[k] + Len(quoted[k]) + 1
      IN /\ k <= open[k] /\ close <= Len(text)
         /\ text[open[k]] = "quote" /\ text[close] = "quote"
         /\ \A m \in 1..Len(quoted[k]) : text[open[k] + m] = quoted[k][m]
         /\ IF k = Len(quoted) THEN close = Len(text)
            ELSE text[close + 1] = "comma" /\ open[k + 1] = close + 2

\* A line begins with a quote, or with the byte order mark and a quote.
Begun(open, text) == open[1] = IF text[1] = "space" THEN 2 ELSE 1

LEMMA LineLays ==
    ASSUME NEW quoted \in Seq(Seq(Csv!Characters)), quoted # <<>>
    PROVE  /\ Csv!Line(quoted) \in Seq(Csv!Characters)
           /\ Csv!Line(quoted) # <<>> /\ Csv!Line(quoted)[1] = "quote"
           /\ \E open \in [1..Len(quoted) -> 1..Len(Csv!Line(quoted))] :
                Laid(open, quoted, Csv!Line(quoted)) /\ open[1] = 1
<1> DEFINE comma(i) == IF i = 1 THEN <<>> ELSE <<"comma">>
           pieces == [i \in DOMAIN quoted |-> comma(i) \o <<"quote">> \o quoted[i] \o <<"quote">>]
           text == Csv!Line(quoted)
           n == Len(quoted)
           skip(i) == IF i = 1 THEN 0 ELSE 1
<1>0. "quote" \in Csv!Characters /\ "comma" \in Csv!Characters
  BY DEF Csv!Characters
<1>1. /\ n \in Nat \ {0} /\ DOMAIN quoted = 1..n
      /\ \A i \in 1..n : quoted[i] \in Seq(Csv!Characters) /\ Len(quoted[i]) \in Nat
  OBVIOUS
<1>2. ASSUME NEW i \in 1..n
      PROVE  /\ pieces[i] \in Seq(Csv!Characters)
             /\ Len(pieces[i]) = skip(i) + Len(quoted[i]) + 2
             /\ i # 1 => pieces[i][1] = "comma"
             /\ pieces[i][skip(i) + 1] = "quote"
             /\ \A m \in 1..Len(quoted[i]) : pieces[i][skip(i) + 1 + m] = quoted[i][m]
             /\ pieces[i][skip(i) + Len(quoted[i]) + 2] = "quote"
  <2>1. quoted[i] \in Seq(Csv!Characters)
    BY <1>1
  <2>2. CASE i = 1
    <3>1. pieces[i] = <<>> \o <<"quote">> \o quoted[i] \o <<"quote">>
      BY <1>1, <2>2
    <3> QED
      BY <1>0, <2>1, <2>2, <3>1
  <2>3. CASE i # 1
    <3>1. pieces[i] = <<"comma">> \o <<"quote">> \o quoted[i] \o <<"quote">>
      BY <1>1, <2>3
    <3> QED
      BY <1>0, <2>1, <2>3, <3>1
  <2> QED
    BY <2>2, <2>3
<1>3. pieces \in Seq(Seq(Csv!Characters)) /\ Len(pieces) = n
  <2>1. pieces \in [1..n -> Seq(Csv!Characters)]
    <3>1. \A i \in 1..n : pieces[i] \in Seq(Csv!Characters)
      BY <1>2
    <3>2. DOMAIN pieces = 1..n /\ pieces = [i \in 1..n |-> pieces[i]]
      BY <1>1
    <3> HIDE DEF pieces, n
    <3> QED
      BY <3>1, <3>2
  <2> HIDE DEF pieces, n
  <2> QED
    BY <2>1, <1>1
<1>4. text = Csv!FlattenSeq(pieces)
  BY DEF Csv!Line
<1> HIDE DEF pieces, text
<1>5. text \in Seq(Csv!Characters) /\ \E at : Places(at, n, pieces, text)
  BY <1>3, <1>4, Flattened
<1> HIDE DEF n
<1>6. PICK at : Places(at, n, pieces, text)
  BY <1>5
<1>7. /\ at \in [0..n -> Nat] /\ at[0] = 0 /\ at[n] = Len(text)
      /\ \A k \in 1..n : /\ at[k] = at[k - 1] + Len(pieces[k])
                         /\ at[k] <= Len(text)
                         /\ \A m \in 1..Len(pieces[k]) : text[at[k - 1] + m] = pieces[k][m]
  BY <1>6 DEF Places
<1> DEFINE T == {k \in 0..n : k <= at[k]}
<1>8. \A k \in 0..n : k <= at[k]
  <2>1. 0 \in T
    BY <1>1, <1>7
  <2>2. ASSUME NEW k \in 0..n, k \in T, k < n PROVE k + 1 \in T
    <3>1. k + 1 \in 1..n /\ (k + 1) - 1 = k
      BY <2>2, <1>1
    <3>2. at[k + 1] = at[k] + Len(pieces[k + 1])
      BY <3>1, <1>7
    <3>3. Len(pieces[k + 1]) \in Nat /\ Len(pieces[k + 1]) >= 2
      <4>1. PICK l \in Nat : l = Len(quoted[k + 1])
        BY <1>1, <3>1
      <4>2. Len(pieces[k + 1]) = l + 2 \/ Len(pieces[k + 1]) = l + 3
        <5>1. Len(pieces[k + 1]) = skip(k + 1) + l + 2 /\ skip(k + 1) \in {0, 1}
          BY <1>2, <3>1, <4>1
        <5> QED
          BY <5>1
      <4> QED
        BY <4>2
    <3>4. at[k] \in Nat /\ k <= at[k]
      BY <2>2, <1>7
    <3> QED
      BY <3>1, <3>2, <3>3, <3>4
  <2> HIDE DEF T
  <2>3. \A k \in 0..n : k \in T
    BY <1>1, <2>1, <2>2, UpTo
  <2> QED
    BY <2>3 DEF T
<1> DEFINE open == [k \in 1..n |-> at[k - 1] + skip(k) + 1]
<1>9. ASSUME NEW k \in 1..n
      PROVE  /\ open[k] \in 1..Len(text) /\ k <= open[k]
             /\ open[k] + Len(quoted[k]) + 1 = at[k] /\ at[k] <= Len(text)
             /\ text[open[k]] = "quote" /\ text[at[k]] = "quote"
             /\ \A m \in 1..Len(quoted[k]) : text[open[k] + m] = quoted[k][m]
             /\ k # 1 => text[at[k - 1] + 1] = "comma"
  <2>1. /\ k - 1 \in 0..n /\ at[k - 1] \in Nat /\ at[k] \in Nat /\ Len(text) \in Nat
        /\ k - 1 <= at[k - 1] /\ Len(quoted[k]) \in Nat /\ k \in Nat /\ k >= 1
    BY <1>1, <1>5, <1>7, <1>8
  <2>2. PICK e \in 0..1 : e = skip(k)
    OBVIOUS
  <2>3. /\ Len(pieces[k]) = e + Len(quoted[k]) + 2
        /\ k # 1 => pieces[k][1] = "comma"
        /\ pieces[k][e + 1] = "quote"
        /\ \A m \in 1..Len(quoted[k]) : pieces[k][e + 1 + m] = quoted[k][m]
        /\ pieces[k][e + Len(quoted[k]) + 2] = "quote"
        /\ open[k] = at[k - 1] + e + 1
    BY <1>2, <2>2
  <2>4. /\ at[k] = at[k - 1] + Len(pieces[k])
        /\ at[k] <= Len(text)
        /\ \A m \in 1..Len(pieces[k]) : text[at[k - 1] + m] = pieces[k][m]
    BY <1>7
  <2> HIDE DEF open, skip
  <2> DEFINE l == Len(quoted[k])
             p == Len(pieces[k])
             o == open[k]
             from == at[k - 1]
             to == at[k]
             size == Len(text)
  <2>5. /\ l \in Nat /\ from \in Nat /\ to \in Nat /\ size \in Nat /\ k - 1 <= from /\ to <= size
        /\ p = e + l + 2 /\ o = from + e + 1 /\ to = from + p /\ k \in Nat /\ k >= 1
    BY <2>1, <2>3, <2>4
  <2> HIDE DEF l, p, o, from, to, size
  <2>6. o + l + 1 = to /\ o \in 1..size /\ k <= o
    BY <2>5
  <2>7. e + 1 \in 1..p /\ e + l + 2 \in 1..p /\ 1 \in 1..p
    BY <2>5
  <2>8. \A m \in 1..l : e + 1 + m \in 1..p /\ o + m = from + (e + 1 + m)
    BY <2>5
  <2>9. open[k] + Len(quoted[k]) + 1 = at[k] /\ open[k] \in 1..Len(text) /\ k <= open[k]
    BY <2>6 DEF l, o, to, size
  <2>10. e + 1 \in 1..Len(pieces[k]) /\ e + Len(quoted[k]) + 2 \in 1..Len(pieces[k])
    BY <2>7 DEF l, p
  <2>11. text[open[k]] = "quote"
    <3>1. open[k] = at[k - 1] + (e + 1)
      BY <2>1, <2>3
    <3> QED
      BY <2>3, <2>4, <2>10, <3>1
  <2>12. text[at[k]] = "quote"
    BY <2>3, <2>4, <2>10
  <2>13. ASSUME NEW m \in 1..Len(quoted[k]) PROVE text[open[k] + m] = quoted[k][m]
    <3>1. e + 1 + m \in 1..Len(pieces[k]) /\ open[k] + m = at[k - 1] + (e + 1 + m)
      BY <2>8 DEF l, p, o, from
    <3> QED
      BY <3>1, <2>3, <2>4
  <2>14. k # 1 => text[at[k - 1] + 1] = "comma"
    <3>1. 1 \in 1..Len(pieces[k])
      BY <2>7 DEF p
    <3> QED
      BY <3>1, <2>3, <2>4
  <2> QED
    BY <2>4, <2>9, <2>11, <2>12, <2>13, <2>14
<1>10. open[1] = 1 /\ 1 \in 1..n
  BY <1>1, <1>7
<1>11. \A k \in 1..n : k # n => /\ k + 1 \in 1..n /\ open[k + 1] = at[k] + 2
                                  /\ text[at[k] + 1] = "comma"
  <2> SUFFICES ASSUME NEW k \in 1..n, k # n
               PROVE  k + 1 \in 1..n /\ open[k + 1] = at[k] + 2 /\ text[at[k] + 1] = "comma"
    OBVIOUS
  <2>1. k + 1 \in 1..n /\ (k + 1) - 1 = k /\ k + 1 # 1 /\ at[k] \in Nat
    BY <1>1, <1>7
  <2>2. text[at[(k + 1) - 1] + 1] = "comma"
    BY <2>1, <1>9
  <2> QED
    BY <2>1, <2>2
<1>12. open \in [1..n -> 1..Len(text)]
  BY <1>9
<1> HIDE DEF open
<1>13. Laid(open, quoted, text)
  BY <1>7, <1>9, <1>11 DEF Laid, n
<1>14. text # <<>> /\ text[1] = "quote"
  BY <1>5, <1>9, <1>10
<1> QED
  BY <1>5, <1>10, <1>12, <1>13, <1>14 DEF n, text

-------------------------------------------------------------------------------
(* The reader *)

Titles == Cells({"comma", "space", "x"})
Contents == Cells({"quote", "comma", "space", "x"})

Quoted(row) == [i \in DOMAIN row |-> Csv!Doubled(row[i])]

Parses == [i : Nat, current : Seq(Csv!Characters), inQuotes : BOOLEAN,
           values : Seq(Seq(Csv!Characters)), ended : BOOLEAN]

\* The byte order mark is read into the first title.
Lead(k, text) == IF k = 1 /\ text[1] = "space" THEN <<"space">> ELSE <<>>

\* A reader at cell k has stored those before, and is
\* at the byte order mark, at the quote that opens the cell, inside with j characters
\* of it read, or behind it.
Reading(p, row, text, open, k) ==
    /\ ~p.ended /\ p.values = [i \in 1..k - 1 |-> Csv!Trim(row[i])]
    /\ \/ k = 1 /\ text[1] = "space" /\ p.i = 1 /\ ~p.inQuotes /\ p.current = <<>>
       \/ p.i = open[k] /\ ~p.inQuotes /\ p.current = Lead(k, text)
       \/ \E width \in [0..Len(row[k]) -> 0..Len(Csv!Doubled(row[k]))] :
            /\ Spelled(width, row[k]) /\ p.inQuotes
            /\ \E j \in 0..Len(row[k]) :
                 p.i = open[k] + 1 + width[j] /\ p.current = Lead(k, text) \o SubSeq(row[k], 1, j)
       \/ /\ p.i = open[k] + Len(Csv!Doubled(row[k])) + 2 /\ ~p.inQuotes
          /\ p.current = Lead(k, text) \o row[k]

Finished(p, row, text) ==
    /\ p.ended /\ p.i = Len(text) + 1
    /\ p.values = [i \in 1..Len(row) |-> Csv!Trim(row[i])]

CsvInv ==
    /\ cells \in UNION {[1..n -> Titles \cup Contents] : n \in 0..MaxCells}
    /\ line \in Seq(Csv!Characters) /\ parse \in Parses
    /\ line = <<>> => parse = Csv!Start
    /\ line # <<>> =>
         /\ cells # <<>>
         /\ \E open \in [1..Len(cells) -> 1..Len(line)] :
              /\ Laid(open, Quoted(cells), line) /\ Begun(open, line)
              /\ \/ \E k \in 1..Len(cells) : Reading(parse, cells, line, open, k)
                 \/ Finished(parse, cells, line)

LEMMA CellsAreStrings ==
    /\ Titles \subseteq Seq(Csv!Characters) /\ Contents \subseteq Seq(Csv!Characters)
    /\ \A cell \in Titles : \A i \in 1..Len(cell) : cell[i] # "quote"
<1>1. /\ {"comma", "space", "x"} \subseteq Csv!Characters
      /\ {"quote", "comma", "space", "x"} \subseteq Csv!Characters
  BY DEF Csv!Characters
<1>2. ASSUME NEW S, S \subseteq Csv!Characters, NEW cell \in Cells(S)
      PROVE  cell \in Seq(Csv!Characters) /\ \A i \in 1..Len(cell) : cell[i] \in S
  <2>1. PICK n \in 0..MaxLength : cell \in [1..n -> S]
    BY DEF Cells
  <2>2. n \in Nat
    BY AccountsAssumption
  <2>3. cell \in Seq(S)
    BY <2>1, <2>2
  <2> QED
    BY <1>2, <2>3
<1>3. \A cell \in Titles : cell \in Seq(Csv!Characters) /\ \A i \in 1..Len(cell) : cell[i] # "quote"
  <2> SUFFICES ASSUME NEW cell \in Titles
               PROVE  cell \in Seq(Csv!Characters) /\ \A i \in 1..Len(cell) : cell[i] # "quote"
    OBVIOUS
  <2>1. cell \in Cells({"comma", "space", "x"})
    BY DEF Titles
  <2>2. cell \in Seq(Csv!Characters) /\ \A i \in 1..Len(cell) : cell[i] \in {"comma", "space", "x"}
    BY <1>1, <1>2, <2>1
  <2> QED
    BY <2>2
<1>4. \A cell \in Contents : cell \in Seq(Csv!Characters)
  BY <1>1, <1>2 DEF Contents
<1> QED
  BY <1>3, <1>4

LEMMA RowsAreStrings ==
    ASSUME NEW row \in UNION {[1..n -> Titles \cup Contents] : n \in 0..MaxCells}
    PROVE  /\ row \in Seq(Seq(Csv!Characters)) /\ Quoted(row) \in Seq(Seq(Csv!Characters))
           /\ Len(Quoted(row)) = Len(row)
           /\ \A k \in 1..Len(row) : /\ row[k] \in Seq(Csv!Characters)
                                     /\ Quoted(row)[k] = Csv!Doubled(row[k])
                                     /\ Csv!Doubled(row[k]) \in Seq(Csv!Characters)
<1>1. PICK n \in 0..MaxCells : row \in [1..n -> Titles \cup Contents]
  OBVIOUS
<1>2. n \in Nat
  BY AccountsAssumption
<1>3. row \in [1..n -> Seq(Csv!Characters)]
  BY <1>1, CellsAreStrings
<1>4. \A k \in 1..n : Csv!Doubled(row[k]) \in Seq(Csv!Characters)
  BY <1>3, DoubledSpells
<1>5. /\ Quoted(row) \in [1..n -> Seq(Csv!Characters)]
      /\ \A k \in 1..n : Quoted(row)[k] = Csv!Doubled(row[k])
  BY <1>3, <1>4 DEF Quoted
<1>6. Len(row) = n /\ Len(Quoted(row)) = n
  BY <1>2, <1>3, <1>5
<1>7. row \in Seq(Seq(Csv!Characters)) /\ Quoted(row) \in Seq(Seq(Csv!Characters))
  <2>1. \A f \in [1..n -> Seq(Csv!Characters)] : f \in Seq(Seq(Csv!Characters))
    BY <1>2
  <2> QED
    BY <1>3, <1>5, <2>1
<1> QED
  BY <1>3, <1>4, <1>5, <1>6, <1>7

\* What follows the position of a reader.
Ahead(row, text, open, k) ==
    LET coded == Csv!Doubled(row[k])
    IN /\ open[k] \in Nat /\ 1 <= open[k] /\ k <= open[k]
       /\ open[k] + Len(coded) + 1 <= Len(text)
       /\ text[open[k]] = "quote" /\ text[open[k] + Len(coded) + 1] = "quote"
       /\ \A m \in 1..Len(coded) : text[open[k] + m] = coded[m]
       /\ k = Len(row) => open[k] + Len(coded) + 1 = Len(text)
       /\ k # Len(row) => /\ text[open[k] + Len(coded) + 2] = "comma"
                          /\ open[k + 1] = open[k] + Len(coded) + 3

LEMMA CellAhead ==
    ASSUME NEW row \in UNION {[1..n -> Titles \cup Contents] : n \in 0..MaxCells},
           NEW text \in Seq(Csv!Characters),
           NEW open \in [1..Len(row) -> 1..Len(text)], Laid(open, Quoted(row), text),
           NEW k \in 1..Len(row)
    PROVE  Ahead(row, text, open, k)
<1>1. /\ Len(Quoted(row)) = Len(row) /\ Quoted(row)[k] = Csv!Doubled(row[k])
      /\ Len(Csv!Doubled(row[k])) \in Nat /\ Len(row) \in Nat /\ Len(text) \in Nat
  BY RowsAreStrings
<1> DEFINE l == Len(Csv!Doubled(row[k]))
<1>2. open[k] \in 1..Len(text)
  OBVIOUS
<1>3. /\ k <= open[k] /\ open[k] + l + 1 <= Len(text)
      /\ text[open[k]] = "quote" /\ text[open[k] + l + 1] = "quote"
      /\ \A m \in 1..l : text[open[k] + m] = Csv!Doubled(row[k])[m]
      /\ IF k = Len(row) THEN open[k] + l + 1 = Len(text)
         ELSE text[(open[k] + l + 1) + 1] = "comma" /\ open[k + 1] = (open[k] + l + 1) + 2
  BY <1>1 DEF Laid
<1>4. (open[k] + l + 1) + 1 = open[k] + l + 2 /\ (open[k] + l + 1) + 2 = open[k] + l + 3
  <2>1. \A o, m \in Nat : (o + m + 1) + 1 = o + m + 2 /\ (o + m + 1) + 2 = o + m + 3
    OBVIOUS
  <2>2. open[k] \in Nat /\ l \in Nat
    BY <1>1, <1>2
  <2> HIDE DEF l
  <2> QED
    BY <2>1, <2>2
<1> QED
  <2>1. open[k] \in Nat /\ 1 <= open[k]
    BY <1>2
  <2> QED
    BY <2>1, <1>3, <1>4 DEF Ahead

LEMMA LeadIsString ==
    ASSUME NEW k, NEW text
    PROVE  Lead(k, text) \in Seq(Csv!Characters)
<1>1. "space" \in Csv!Characters
  BY DEF Csv!Characters
<1>2. <<"space">> \in Seq(Csv!Characters) /\ <<>> \in Seq(Csv!Characters)
  BY <1>1
<1>3. Lead(k, text) = <<"space">> \/ Lead(k, text) = <<>>
  BY DEF Lead
<1> QED
  BY <1>2, <1>3

LEMMA AppendLast ==
    ASSUME NEW S, NEW s \in Seq(S), NEW t \in Seq(S), NEW e \in S
    PROVE  Append(s \o t, e) = s \o (t \o <<e>>)
<1>1. s \o t \in Seq(S) /\ <<e>> \in Seq(S)
  OBVIOUS
<1>2. Append(s \o t, e) = (s \o t) \o <<e>>
  BY <1>1, AppendIsConcat
<1> QED
  BY <1>1, <1>2, ConcatAssociative

\* A turn of the loop.
Moved(p, q, d, current, inQuotes, values) ==
    q = [i |-> p.i + d, current |-> current, inQuotes |-> inQuotes, values |-> values,
         ended |-> FALSE]

LEMMA MovedFields ==
    ASSUME NEW p \in Parses, NEW q, NEW d \in Nat, NEW current \in Seq(Csv!Characters),
           NEW inQuotes \in BOOLEAN, NEW values \in Seq(Seq(Csv!Characters)),
           Moved(p, q, d, current, inQuotes, values)
    PROVE  /\ q \in Parses /\ q.i = p.i + d /\ q.current = current
           /\ q.inQuotes = inQuotes /\ q.values = values /\ q.ended = FALSE
BY DEF Moved, Parses

LEMMA ReaderSteps == CsvInv /\ Csv!Step => CsvInv'
<1> SUFFICES ASSUME CsvInv, Csv!Step PROVE CsvInv'
  OBVIOUS
<1>1. /\ cells \in UNION {[1..n -> Titles \cup Contents] : n \in 0..MaxCells}
      /\ line \in Seq(Csv!Characters) /\ parse \in Parses
      /\ line # <<>> /\ parse.i <= Len(line) /\ ~parse.ended /\ cells # <<>>
      /\ UNCHANGED <<cells, line>>
  BY DEF CsvInv, Csv!Step
<1>2. PICK open \in [1..Len(cells) -> 1..Len(line)] :
        /\ Laid(open, Quoted(cells), line) /\ Begun(open, line)
        /\ \E k \in 1..Len(cells) : Reading(parse, cells, line, open, k)
  BY <1>1 DEF CsvInv, Finished
<1>3. PICK k \in 1..Len(cells) : Reading(parse, cells, line, open, k)
  BY <1>2
<1> DEFINE cell == cells[k]
           coded == Csv!Doubled(cell)
           lead == Lead(k, line)
           stored == parse.values
\* It is enough that the reader is at some cell.
<1>4. SUFFICES ASSUME TRUE
               PROVE  /\ parse' \in Parses
                      /\ \E h \in 1..Len(cells) : Reading(parse', cells, line, open, h)
  BY <1>1, <1>2 DEF CsvInv
<1>0. Ahead(cells, line, open, k)
  BY <1>1, <1>2, CellAhead
<1>5. /\ open[k] \in Nat /\ 1 <= open[k]
      /\ open[k] + Len(coded) + 1 <= Len(line)
      /\ line[open[k]] = "quote" /\ line[open[k] + Len(coded) + 1] = "quote"
      /\ \A m \in 1..Len(coded) : line[open[k] + m] = coded[m]
      /\ k = Len(cells) => open[k] + Len(coded) + 1 = Len(line)
      /\ k # Len(cells) => /\ line[open[k] + Len(coded) + 2] = "comma"
                           /\ open[k + 1] = open[k] + Len(coded) + 3
  BY <1>0 DEF Ahead
<1>6. /\ cell \in Seq(Csv!Characters) /\ coded \in Seq(Csv!Characters)
      /\ Len(cell) \in Nat /\ Len(coded) \in Nat /\ Len(cells) \in Nat /\ Len(line) \in Nat
      /\ k \in Nat /\ 1 <= k
  BY <1>1, RowsAreStrings
<1>7. "quote" \in Csv!Characters /\ "space" \in Csv!Characters /\ lead \in Seq(Csv!Characters)
  BY LeadIsString DEF Csv!Characters
<1>8. /\ parse.i \in Nat /\ parse.current \in Seq(Csv!Characters) /\ parse.inQuotes \in BOOLEAN
      /\ stored \in Seq(Seq(Csv!Characters)) /\ parse.ended = FALSE
      /\ stored = [i \in 1..k - 1 |-> Csv!Trim(cells[i])]
  BY <1>1, <1>3 DEF Parses, Reading
\* The four branches of the loop, and what they make of the fields.
<1> DEFINE Two == /\ line[parse.i] = "quote" /\ parse.inQuotes /\ parse.i < Len(line)
                  /\ line[parse.i + 1] = "quote"
           Fields(d, current, inQuotes, values) ==
              /\ parse' \in Parses /\ parse'.i = parse.i + d /\ parse'.current = current
              /\ parse'.inQuotes = inQuotes /\ parse'.values = values /\ parse'.ended = FALSE
<1>9. ASSUME Two PROVE Fields(2, Append(parse.current, "quote"), TRUE, stored)
  <2>1. parse' = [parse EXCEPT !.i = parse.i + 2, !.current = Append(parse.current, "quote")]
    BY <1>9 DEF Csv!Step, Csv!DoubledQuote, Csv!Char
  <2>2. Moved(parse, parse', 2, Append(parse.current, "quote"), TRUE, stored)
    BY <1>1, <1>8, <1>9, <2>1 DEF Parses, Moved
  <2>3. Append(parse.current, "quote") \in Seq(Csv!Characters)
    BY <1>7, <1>8
  <2> QED
    BY <1>1, <1>8, <2>2, <2>3, MovedFields
<1>10. ASSUME line[parse.i] = "quote", ~Two, NEW b \in BOOLEAN, parse.inQuotes = ~b
       PROVE  Fields(1, parse.current, b, stored)
  <2>1. parse' = [parse EXCEPT !.i = parse.i + 1, !.inQuotes = ~parse.inQuotes]
    BY <1>10 DEF Csv!Step, Csv!DoubledQuote, Csv!Char
  <2>2. parse' = [parse EXCEPT !.i = parse.i + 1, !.inQuotes = b]
    BY <1>10, <2>1
  <2>3. Moved(parse, parse', 1, parse.current, b, stored)
    BY <1>1, <1>8, <2>2 DEF Parses, Moved
  <2> QED
    <3>1. 1 \in Nat /\ parse \in Parses /\ parse.current \in Seq(Csv!Characters)
          /\ stored \in Seq(Seq(Csv!Characters))
      BY <1>1, <1>8
    <3>2. CASE b = TRUE
      <4>1. Moved(parse, parse', 1, parse.current, TRUE, stored)
        BY <2>3, <3>2
      <4>2. Fields(1, parse.current, TRUE, stored)
        BY <3>1, <4>1, MovedFields
      <4> QED
        BY <3>2, <4>2
    <3>3. CASE b = FALSE
      <4>1. Moved(parse, parse', 1, parse.current, FALSE, stored)
        BY <2>3, <3>3
      <4>2. Fields(1, parse.current, FALSE, stored)
        BY <3>1, <4>1, MovedFields
      <4> QED
        BY <3>3, <4>2
    <3> QED
      BY <3>2, <3>3
<1>11. ASSUME line[parse.i] = "comma", ~parse.inQuotes
       PROVE  Fields(1, <<>>, FALSE, Append(stored, Csv!Trim(parse.current)))
  <2>1. parse' = [[parse EXCEPT !.values = Append(stored, Csv!Trim(parse.current)),
                                !.current = <<>>]
                    EXCEPT !.i = parse.i + 1]
    BY <1>1, <1>11 DEF Csv!Step, Csv!DoubledQuote, Csv!Char, Csv!Push, Parses
  <2>2. Moved(parse, parse', 1, <<>>, FALSE, Append(stored, Csv!Trim(parse.current)))
    BY <1>1, <1>8, <1>11, <2>1 DEF Parses, Moved
  <2>3. Append(stored, Csv!Trim(parse.current)) \in Seq(Seq(Csv!Characters))
    BY <1>8, TrimLead
  <2>4. <<>> \in Seq(Csv!Characters)
    OBVIOUS
  <2> QED
    BY <1>1, <2>2, <2>3, <2>4, MovedFields
<1>12. ASSUME parse.i \in 1..Len(line), line[parse.i] # "quote",
              line[parse.i] # "comma" \/ parse.inQuotes,
              NEW b \in BOOLEAN, parse.inQuotes = b
       PROVE  Fields(1, Append(parse.current, line[parse.i]), b, stored)
  <2>1. parse' = [parse EXCEPT !.i = parse.i + 1, !.current = Append(parse.current, line[parse.i])]
    BY <1>12 DEF Csv!Step, Csv!DoubledQuote, Csv!Char
  <2>2. Moved(parse, parse', 1, Append(parse.current, line[parse.i]), b, stored)
    BY <1>1, <1>8, <1>12, <2>1 DEF Parses, Moved
  <2>3. Append(parse.current, line[parse.i]) \in Seq(Csv!Characters)
    BY <1>1, <1>8, <1>12
  <2>4. PICK longer \in Seq(Csv!Characters) : longer = Append(parse.current, line[parse.i])
    BY <2>3
  <2> QED
    <3>1. 1 \in Nat /\ parse \in Parses /\ stored \in Seq(Seq(Csv!Characters))
      BY <1>1, <1>8
    <3>2. CASE b = TRUE
      <4>1. Moved(parse, parse', 1, longer, TRUE, stored)
        BY <2>2, <2>4, <3>2
      <4>2. Fields(1, longer, TRUE, stored)
        BY <3>1, <4>1, MovedFields
      <4> QED
        BY <2>4, <3>2, <4>2
    <3>3. CASE b = FALSE
      <4>1. Moved(parse, parse', 1, longer, FALSE, stored)
        BY <2>2, <2>4, <3>3
      <4>2. Fields(1, longer, FALSE, stored)
        BY <3>1, <4>1, MovedFields
      <4> QED
        BY <2>4, <3>3, <4>2
    <3> QED
      BY <2>4, <3>2, <3>3
<1>13. CASE k = 1 /\ line[1] = "space" /\ parse.i = 1 /\ ~parse.inQuotes /\ parse.current = <<>>
  <2>1. Fields(1, Append(<<>>, "space"), FALSE, stored)
    <3>1. parse.i \in 1..Len(line) /\ parse.inQuotes = FALSE /\ line[parse.i] = "space"
      BY <1>1, <1>6, <1>8, <1>13
    <3> HIDE DEF Fields
    <3> QED
      BY <1>12, <1>13, <3>1
  <2>2. parse'.i = open[k] /\ parse'.current = lead
    BY <1>2, <1>13, <2>1 DEF Begun, Lead
  <2>3. Reading(parse', cells, line, open, k)
    BY <1>8, <2>1, <2>2 DEF Reading
  <2> QED
    BY <2>1, <2>3
<1>14. CASE parse.i = open[k] /\ ~parse.inQuotes /\ parse.current = lead
  <2>1. Fields(1, lead, TRUE, stored)
    <3>1. parse.inQuotes = ~TRUE /\ ~Two /\ line[parse.i] = "quote"
      BY <1>5, <1>8, <1>14
    <3> HIDE DEF Fields, Two
    <3> QED
      BY <1>10, <1>14, <3>1
  <2>2. PICK width \in [0..Len(cell) -> 0..Len(coded)] : Spelled(width, cell)
    BY <1>6, DoubledSpells
  <2>3. /\ parse'.i = open[k] + 1 + width[0]
        /\ parse'.current = lead \o SubSeq(cell, 1, 0) /\ parse'.inQuotes
    <3>1. width[0] = 0
      BY <2>2 DEF Spelled
    <3>2. SubSeq(cell, 1, 0) = <<>> /\ lead \o <<>> = lead
      BY <1>7
    <3>3. parse'.i = open[k] + 1 /\ open[k] + 1 = open[k] + 1 + 0
      BY <1>5, <1>14, <2>1
    <3>4. parse'.current = lead /\ parse'.inQuotes
      BY <2>1
    <3> QED
      BY <3>1, <3>2, <3>3, <3>4
  <2>4. 0 \in 0..Len(cell) /\ ~parse'.ended /\ parse'.values = stored
    BY <1>6, <2>1
  <2>5. Reading(parse', cells, line, open, k)
    BY <1>8, <2>2, <2>3, <2>4 DEF Reading
  <2> QED
    BY <2>1, <2>5
<1>15. CASE \E width \in [0..Len(cell) -> 0..Len(coded)] :
              /\ Spelled(width, cell) /\ parse.inQuotes
              /\ \E j \in 0..Len(cell) : /\ parse.i = open[k] + 1 + width[j]
                                         /\ parse.current = lead \o SubSeq(cell, 1, j)
  <2>1. PICK width \in [0..Len(cell) -> 0..Len(coded)], j \in 0..Len(cell) :
          /\ Spelled(width, cell) /\ parse.inQuotes
          /\ parse.i = open[k] + 1 + width[j] /\ parse.current = lead \o SubSeq(cell, 1, j)
    BY <1>15
  <2>2. CASE j = Len(cell)
    <3>1. width[j] = Len(coded)
      BY <2>1, <2>2 DEF Spelled
    <3>2. parse.i = open[k] + Len(coded) + 1
      BY <1>5, <1>6, <2>1, <3>1
    <3>3. ~Two
      <4>1. CASE k = Len(cells)
        BY <1>5, <1>6, <3>2, <4>1
      <4>2. CASE k # Len(cells)
        <5>1. parse.i + 1 = open[k] + Len(coded) + 2
          BY <1>5, <1>6, <3>2
        <5> QED
          BY <1>5, <4>2, <5>1
      <4> QED
        BY <4>1, <4>2
    <3>4. Fields(1, parse.current, FALSE, stored)
      <4>1. parse.inQuotes = ~FALSE /\ line[parse.i] = "quote"
        BY <1>5, <1>8, <2>1, <3>2
      <4> HIDE DEF Fields, Two
      <4> QED
        BY <1>10, <3>3, <4>1
    <3>5. parse.current = lead \o cell
      BY <1>6, <2>1, <2>2, SubSeqFull
    <3>6. parse'.i = open[k] + Len(coded) + 2
      BY <1>5, <1>6, <3>2, <3>4
    <3>7. Reading(parse', cells, line, open, k)
      BY <1>8, <3>4, <3>5, <3>6 DEF Reading
    <3> QED
      BY <3>4, <3>7
  <2>3. CASE j # Len(cell)
    <3>1. j + 1 \in 1..Len(cell) /\ (j + 1) - 1 = j /\ j + 1 \in 0..Len(cell)
      BY <1>6, <2>3
    <3>2. /\ width[j] \in Nat /\ width[j + 1] \in 0..Len(coded)
          /\ IF cell[j + 1] = "quote"
             THEN /\ width[j + 1] = width[j] + 2
                  /\ coded[width[j] + 1] = "quote" /\ coded[width[j] + 2] = "quote"
             ELSE width[j + 1] = width[j] + 1 /\ coded[width[j] + 1] = cell[j + 1]
      <4>1. j \in 0..Len(cell) /\ width[j] \in 0..Len(coded) /\ width[j + 1] \in 0..Len(coded)
        BY <3>1
      <4>2. IF cell[j + 1] = "quote"
            THEN /\ width[j + 1] = width[(j + 1) - 1] + 2
                 /\ coded[width[(j + 1) - 1] + 1] = "quote"
                 /\ coded[width[(j + 1) - 1] + 2] = "quote"
            ELSE /\ width[j + 1] = width[(j + 1) - 1] + 1
                 /\ coded[width[(j + 1) - 1] + 1] = cell[j + 1]
        BY <2>1, <3>1 DEF Spelled
      <4>3. width[j] \in Nat
        BY <1>6, <4>1
      <4> QED
        BY <3>1, <4>1, <4>2, <4>3
    <3>3. Append(parse.current, cell[j + 1]) = lead \o SubSeq(cell, 1, j + 1)
      <4>1. SubSeq(cell, 1, j + 1) = SubSeq(cell, 1, j) \o <<cell[j + 1]>>
        BY <1>6, <3>1, SubSeqRecursiveSecond
      <4>2. SubSeq(cell, 1, j) \in Seq(Csv!Characters) /\ cell[j + 1] \in Csv!Characters
        BY <1>6, <3>1
      <4>3. Append(lead \o SubSeq(cell, 1, j), cell[j + 1])
              = lead \o (SubSeq(cell, 1, j) \o <<cell[j + 1]>>)
        BY <1>7, <4>2, AppendLast
      <4> QED
        BY <2>1, <4>1, <4>3
    <3>4. CASE cell[j + 1] = "quote"
      <4>1. width[j] + 1 \in 1..Len(coded) /\ width[j] + 2 \in 1..Len(coded)
        <5>1. PICK w \in Nat, l \in Nat : w = width[j] /\ l = Len(coded)
          BY <1>6, <3>2
        <5>2. w + 2 \in 0..l
          BY <3>2, <3>4, <5>1
        <5>3. w + 1 \in 1..l /\ w + 2 \in 1..l
          BY <5>2
        <5> QED
          BY <5>1, <5>3
      <4>2. line[open[k] + (width[j] + 1)] = "quote" /\ line[open[k] + (width[j] + 2)] = "quote"
        BY <1>5, <3>2, <3>4, <4>1
      <4>3. /\ parse.i = open[k] + (width[j] + 1) /\ parse.i + 1 = open[k] + (width[j] + 2)
            /\ parse.i < Len(line)
        <5>1. PICK w \in Nat, o \in Nat, l \in Nat, size \in Nat :
                w = width[j] /\ o = open[k] /\ l = Len(coded) /\ size = Len(line)
          BY <1>5, <1>6, <3>2
        <5>2. parse.i = o + 1 + w /\ o + l + 1 <= size /\ w + 2 <= l
          BY <1>5, <2>1, <4>1, <5>1
        <5>3. parse.i = o + (w + 1) /\ parse.i + 1 = o + (w + 2) /\ parse.i < size
          BY <5>2
        <5> QED
          BY <5>1, <5>3
      <4>4. Fields(2, Append(parse.current, "quote"), TRUE, stored)
        <5>1. Two
          BY <2>1, <4>2, <4>3
        <5> HIDE DEF Fields, Two
        <5> QED
          BY <1>9, <5>1
      <4>5. parse'.i = open[k] + 1 + width[j + 1]
        BY <1>5, <2>1, <3>2, <3>4, <4>4
      <4>6. parse'.current = lead \o SubSeq(cell, 1, j + 1) /\ parse'.inQuotes
        BY <3>3, <3>4, <4>4
      <4>7. Reading(parse', cells, line, open, k)
        BY <1>8, <2>1, <3>1, <4>4, <4>5, <4>6 DEF Reading
      <4> QED
        BY <4>4, <4>7
    <3>5. CASE cell[j + 1] # "quote"
      <4>1. width[j] + 1 \in 1..Len(coded)
        BY <1>6, <3>2, <3>5
      <4>2. line[open[k] + (width[j] + 1)] = cell[j + 1]
        BY <1>5, <3>2, <3>5, <4>1
      <4>3. parse.i = open[k] + (width[j] + 1)
        BY <1>5, <1>6, <2>1, <3>2
      <4>4. Fields(1, Append(parse.current, cell[j + 1]), TRUE, stored)
        <5>1. /\ parse.i \in 1..Len(line) /\ line[parse.i] = cell[j + 1]
              /\ parse.inQuotes = TRUE
          BY <1>1, <1>5, <1>6, <1>8, <2>1, <3>2, <4>2, <4>3
        <5> HIDE DEF Fields
        <5> QED
          BY <1>12, <3>5, <5>1
      <4>5. parse'.i = open[k] + 1 + width[j + 1]
        BY <1>5, <2>1, <3>2, <3>5, <4>4
      <4>6. parse'.current = lead \o SubSeq(cell, 1, j + 1) /\ parse'.inQuotes
        BY <3>3, <4>4
      <4>7. Reading(parse', cells, line, open, k)
        BY <1>8, <2>1, <3>1, <4>4, <4>5, <4>6 DEF Reading
      <4> QED
        BY <4>4, <4>7
    <3> QED
      BY <3>4, <3>5
  <2> QED
    BY <2>2, <2>3
<1>16. CASE /\ parse.i = open[k] + Len(coded) + 2 /\ ~parse.inQuotes
            /\ parse.current = lead \o cell
  <2>1. k # Len(cells)
    BY <1>1, <1>5, <1>6, <1>16
  <2>2. Fields(1, <<>>, FALSE, Append(stored, Csv!Trim(parse.current)))
    BY <1>5, <1>11, <1>16, <2>1
  <2>3. Csv!Trim(parse.current) = Csv!Trim(cell)
    <3>1. <<>> \o cell = cell
      BY <1>6
    <3> QED
      BY <1>6, <1>16, <3>1, TrimLead DEF Lead
  <2>4. k + 1 \in 1..Len(cells) /\ k + 1 # 1 /\ (k + 1) - 1 = k
    BY <1>6, <2>1
  <2>5. Append(stored, Csv!Trim(cell)) = [i \in 1..k |-> Csv!Trim(cells[i])]
    BY <1>6, <1>8
  <2>6. parse'.i = open[k + 1] /\ parse'.current = Lead(k + 1, line)
    BY <1>5, <1>6, <1>16, <2>1, <2>2, <2>4 DEF Lead
  <2>7. Reading(parse', cells, line, open, k + 1)
    BY <2>2, <2>3, <2>4, <2>5, <2>6 DEF Reading
  <2> QED
    BY <2>2, <2>4, <2>7
<1> QED
  BY <1>3, <1>13, <1>14, <1>15, <1>16 DEF Reading

\* Only a reader behind the last cell is at the end of the line.
LEMMA ReaderEnds == CsvInv /\ Csv!End => CsvInv'
<1> SUFFICES ASSUME CsvInv, Csv!End PROVE CsvInv'
  OBVIOUS
<1>1. /\ cells \in UNION {[1..n -> Titles \cup Contents] : n \in 0..MaxCells}
      /\ line \in Seq(Csv!Characters) /\ parse \in Parses
      /\ line # <<>> /\ parse.i = Len(line) + 1 /\ ~parse.ended /\ cells # <<>>
      /\ UNCHANGED <<cells, line>>
  BY DEF CsvInv, Csv!End
<1>2. PICK open \in [1..Len(cells) -> 1..Len(line)] :
        /\ Laid(open, Quoted(cells), line) /\ Begun(open, line)
        /\ \E k \in 1..Len(cells) : Reading(parse, cells, line, open, k)
  BY <1>1 DEF CsvInv, Finished
<1>3. PICK k \in 1..Len(cells) : Reading(parse, cells, line, open, k)
  BY <1>2
<1> DEFINE cell == cells[k]
           coded == Csv!Doubled(cell)
<1>4. Ahead(cells, line, open, k)
  BY <1>1, <1>2, CellAhead
<1>5. /\ open[k] \in Nat /\ 1 <= open[k] /\ open[k] + Len(coded) + 1 <= Len(line)
      /\ k # Len(cells) => /\ line[open[k] + Len(coded) + 2] = "comma"
                           /\ open[k + 1] = open[k] + Len(coded) + 3
  BY <1>4 DEF Ahead
<1>6. /\ cell \in Seq(Csv!Characters) /\ Len(cell) \in Nat /\ Len(coded) \in Nat
      /\ Len(cells) \in Nat /\ Len(line) \in Nat /\ k \in Nat /\ 1 <= k
  <2>1. cell \in Seq(Csv!Characters) /\ coded \in Seq(Csv!Characters)
    BY <1>1, RowsAreStrings
  <2>2. Len(cells) \in Nat
    BY <1>1, RowsAreStrings
  <2> HIDE DEF cell, coded
  <2> QED
    BY <1>1, <2>1, <2>2
<1>7. /\ parse.i = open[k] + Len(coded) + 2 /\ ~parse.inQuotes
      /\ parse.current = Lead(k, line) \o cell
  <2>1. ~(k = 1 /\ line[1] = "space" /\ parse.i = 1) /\ parse.i # open[k]
    BY <1>1, <1>5, <1>6
  <2>2. ASSUME NEW width \in [0..Len(cell) -> 0..Len(coded)], NEW j \in 0..Len(cell)
        PROVE  parse.i # open[k] + 1 + width[j]
    <3>1. width[j] \in Nat /\ width[j] <= Len(coded)
      BY <1>6
    <3> QED
      BY <1>1, <1>5, <1>6, <3>1
  <2> QED
    BY <1>3, <2>1, <2>2 DEF Reading
<1>8. k = Len(cells)
  <2> SUFFICES ASSUME k # Len(cells) PROVE FALSE
    OBVIOUS
  <2>1. k + 1 \in 1..Len(cells)
    BY <1>6
  <2>2. open[k + 1] \in 1..Len(line)
    BY <2>1
  <2> QED
    BY <1>1, <1>5, <1>6, <1>7, <2>2
<1>9. Csv!Trim(parse.current) = Csv!Trim(cell) /\ Csv!Trim(cell) \in Seq(Csv!Characters)
  <2>1. <<>> \o cell = cell
    BY <1>6
  <2> QED
    BY <1>6, <1>7, <2>1, TrimLead DEF Lead
<1>10. /\ parse.values = [i \in 1..k - 1 |-> Csv!Trim(cells[i])]
       /\ parse.values \in Seq(Seq(Csv!Characters))
  BY <1>1, <1>3 DEF Reading, Parses
<1>11. Append(parse.values, Csv!Trim(cell)) = [i \in 1..Len(cells) |-> Csv!Trim(cells[i])]
  BY <1>6, <1>8, <1>10
<1>12. parse' = [i |-> parse.i, current |-> <<>>, inQuotes |-> parse.inQuotes,
                 values |-> Append(parse.values, Csv!Trim(cell)), ended |-> TRUE]
  <2>1. parse' = [[parse EXCEPT !.values = Append(parse.values, Csv!Trim(parse.current)),
                                !.current = <<>>] EXCEPT !.ended = TRUE]
    BY DEF Csv!End, Csv!Push
  <2> QED
    BY <1>1, <1>9, <2>1 DEF Parses
<1>13. parse' \in Parses
  <2>1. Append(parse.values, Csv!Trim(cell)) \in Seq(Seq(Csv!Characters))
    BY <1>9, <1>10
  <2>2. <<>> \in Seq(Csv!Characters)
    OBVIOUS
  <2> QED
    BY <1>1, <1>12, <2>1, <2>2 DEF Parses
<1>14. Finished(parse', cells, line)
  BY <1>1, <1>11, <1>12 DEF Finished
<1> QED
  BY <1>1, <1>2, <1>13, <1>14 DEF CsvInv

\* A reader that starts at a line of cells.
LEMMA ReaderStarts ==
    ASSUME NEW row \in UNION {[1..n -> Titles \cup Contents] : n \in 0..MaxCells},
           row # <<>>, NEW text \in Seq(Csv!Characters), text # <<>>,
           NEW open \in [1..Len(row) -> 1..Len(text)],
           Laid(open, Quoted(row), text), Begun(open, text),
           cells' = row, line' = text, parse' = Csv!Start
    PROVE  CsvInv'
<1>1. parse' \in Parses
  <2>1. <<>> \in Seq(Csv!Characters) /\ <<>> \in Seq(Seq(Csv!Characters))
    OBVIOUS
  <2> QED
    BY <2>1 DEF Parses, Csv!Start
<1>2. 1 \in 1..Len(row)
  BY RowsAreStrings
<1>3. Reading(parse', row, text, open, 1)
  <2>1. /\ ~Csv!Start.ended /\ Csv!Start.values = [i \in 1..1 - 1 |-> Csv!Trim(row[i])]
        /\ Csv!Start.i = 1 /\ ~Csv!Start.inQuotes /\ Csv!Start.current = <<>>
    BY DEF Csv!Start
  <2>2. CASE text[1] = "space"
    BY <2>1, <2>2 DEF Reading
  <2>3. CASE text[1] # "space"
    <3>1. open[1] = 1 /\ Lead(1, text) = <<>>
      BY <2>3 DEF Begun, Lead
    <3> QED
      BY <2>1, <3>1 DEF Reading
  <2> QED
    BY <2>2, <2>3
<1> QED
  BY <1>1, <1>2, <1>3 DEF CsvInv

\* A byte order mark moves the cells by one.
LEMMA LaidBehindMark ==
    ASSUME NEW quoted \in Seq(Seq(Csv!Characters)), NEW text \in Seq(Csv!Characters),
           NEW open \in [1..Len(quoted) -> 1..Len(text)], Laid(open, quoted, text), open[1] = 1,
           quoted # <<>>
    PROVE  LET marked == <<"space">> \o text
           IN /\ marked \in Seq(Csv!Characters) /\ marked # <<>>
              /\ \E moved \in [1..Len(quoted) -> 1..Len(marked)] :
                   Laid(moved, quoted, marked) /\ Begun(moved, marked)
<1> DEFINE marked == <<"space">> \o text
           moved == [k \in 1..Len(quoted) |-> open[k] + 1]
<1>1. "space" \in Csv!Characters
  BY DEF Csv!Characters
<1>2. <<"space">> \in Seq(Csv!Characters)
  BY <1>1
<1>3. /\ marked \in Seq(Csv!Characters) /\ Len(marked) = Len(text) + 1 /\ Len(text) \in Nat
      /\ marked[1] = "space" /\ \A i \in 1..Len(text) : marked[i + 1] = text[i]
  BY <1>2
<1>4. moved \in [1..Len(quoted) -> 1..Len(marked)]
  BY <1>3
<1>5. ASSUME NEW k \in 1..Len(quoted)
      PROVE  LET close == moved[k] + Len(quoted[k]) + 1
             IN /\ k <= moved[k] /\ close <= Len(marked)
                /\ marked[moved[k]] = "quote" /\ marked[close] = "quote"
                /\ \A m \in 1..Len(quoted[k]) : marked[moved[k] + m] = quoted[k][m]
                /\ IF k = Len(quoted) THEN close = Len(marked)
                   ELSE marked[close + 1] = "comma" /\ moved[k + 1] = close + 2
  <2>1. quoted[k] \in Seq(Csv!Characters) /\ k \in Nat /\ Len(quoted) \in Nat
    OBVIOUS
  <2>2. PICK l \in Nat : l = Len(quoted[k])
    BY <2>1
  <2>3. PICK o \in 1..Len(text) : o = open[k]
    OBVIOUS
  <2>4. /\ k <= o /\ o + l + 1 <= Len(text)
        /\ text[o] = "quote" /\ text[o + l + 1] = "quote"
        /\ \A m \in 1..l : text[o + m] = quoted[k][m]
        /\ IF k = Len(quoted) THEN o + l + 1 = Len(text)
           ELSE text[(o + l + 1) + 1] = "comma" /\ open[k + 1] = (o + l + 1) + 2
    BY <2>2, <2>3 DEF Laid
  <2>5. moved[k] = o + 1
    BY <2>3
  <2>6. PICK close \in 1..Len(text) : close = o + l + 1
    <3>1. PICK n \in Nat : n = Len(text)
      BY <1>3
    <3>2. o \in 1..n /\ o + l + 1 <= n
      BY <2>3, <2>4, <3>1
    <3>3. o + l + 1 \in 1..n
      BY <2>2, <3>1, <3>2
    <3> QED
      BY <3>1, <3>3
  <2>7. o \in Nat /\ close \in Nat /\ (o + 1) + l + 1 = close + 1
    <3>1. o \in Nat /\ close \in Nat
      BY <2>3, <2>6
    <3>2. \A x, y \in Nat : (x + 1) + y + 1 = (x + y + 1) + 1
      OBVIOUS
    <3>3. (o + 1) + l + 1 = (o + l + 1) + 1
      BY <2>2, <3>1, <3>2
    <3> QED
      BY <2>6, <3>1, <3>3
  <2>8. marked[o + 1] = "quote" /\ marked[close + 1] = "quote"
    BY <1>3, <2>3, <2>4, <2>6
  <2>9. ASSUME NEW m \in 1..l PROVE marked[(o + 1) + m] = quoted[k][m]
    <3>1. o + m \in 1..Len(text) /\ (o + 1) + m = (o + m) + 1
      BY <1>3, <2>2, <2>4, <2>7
    <3> QED
      BY <1>3, <2>4, <3>1
  <2>10. k <= o + 1 /\ close + 1 <= Len(marked)
    BY <1>3, <2>1, <2>4, <2>6, <2>7
  <2>11. IF k = Len(quoted) THEN close + 1 = Len(marked)
         ELSE marked[(close + 1) + 1] = "comma" /\ moved[k + 1] = (close + 1) + 2
    <3>1. CASE k = Len(quoted)
      BY <1>3, <2>4, <2>6, <3>1
    <3>2. CASE k # Len(quoted)
      <4>1. k + 1 \in 1..Len(quoted)
        BY <2>1, <3>2
      <4>2. moved[k + 1] = open[k + 1] + 1 /\ open[k + 1] \in 1..Len(text)
        BY <4>1
      <4>3. open[k + 1] = close + 2 /\ text[close + 1] = "comma"
        BY <2>4, <2>6, <3>2
      <4>4. close + 1 \in 1..Len(text)
        BY <1>3, <2>7, <4>2, <4>3
      <4>5. marked[(close + 1) + 1] = "comma"
        BY <1>3, <4>3, <4>4
      <4>6. moved[k + 1] = (close + 1) + 2
        BY <2>7, <4>2, <4>3
      <4> QED
        BY <3>2, <4>5, <4>6
    <3> QED
      BY <3>1, <3>2
  <2> HIDE DEF moved, marked
  <2>12. moved[k] + Len(quoted[k]) + 1 = close + 1
    BY <2>2, <2>5, <2>7
  <2> QED
    BY <2>2, <2>5, <2>8, <2>9, <2>10, <2>11, <2>12
<1>6. Laid(moved, quoted, marked)
  BY <1>5 DEF Laid
<1>7. Begun(moved, marked)
  BY <1>3 DEF Begun
<1>8. marked # <<>>
  BY <1>3
<1> QED
  BY <1>3, <1>4, <1>6, <1>7, <1>8

LEMMA WriterStarts == Csv!WriteHeader \/ Csv!WriteRow => CsvInv'
<1>1. ASSUME Csv!WriteHeader PROVE CsvInv'
  <2>0. PICK n \in 1..MaxCells : \E titles \in [1..n -> Titles] :
          cells' = titles /\ line' = <<"space">> \o Csv!Line(titles) /\ parse' = Csv!Start
    BY <1>1 DEF Csv!WriteHeader, Titles
  <2>1. PICK titles \in [1..n -> Titles] :
          cells' = titles /\ line' = <<"space">> \o Csv!Line(titles) /\ parse' = Csv!Start
    BY <2>0
  <2>2. /\ titles \in UNION {[1..m -> Titles \cup Contents] : m \in 0..MaxCells}
        /\ titles # <<>> /\ DOMAIN titles = 1..n /\ n \in Nat
    <3>1. n \in Nat /\ n \in 0..MaxCells /\ 1 \in 1..n
      BY AccountsAssumption
    <3>2. titles \in [1..n -> Titles \cup Contents] /\ DOMAIN titles = 1..n
      OBVIOUS
    <3>3. titles # <<>>
      BY <3>1, <3>2
    <3> QED
      BY <3>1, <3>2, <3>3
  <2>3. titles \in Seq(Seq(Csv!Characters))
    BY <2>2, RowsAreStrings
  <2>4. Quoted(titles) = titles
    <3>1. \A k \in 1..n : Csv!Doubled(titles[k]) = titles[k]
      BY CellsAreStrings, DoubledPlain
    <3>2. Quoted(titles) = [k \in 1..n |-> titles[k]]
      BY <2>2, <3>1 DEF Quoted
    <3> QED
      BY <3>2
  <2>5. PICK open \in [1..Len(titles) -> 1..Len(Csv!Line(titles))] :
          Laid(open, titles, Csv!Line(titles)) /\ open[1] = 1
    BY <2>2, <2>3, LineLays
  <2>6. Csv!Line(titles) \in Seq(Csv!Characters)
    BY <2>2, <2>3, LineLays
  <2> DEFINE marked == <<"space">> \o Csv!Line(titles)
  <2>7. /\ marked \in Seq(Csv!Characters) /\ marked # <<>>
        /\ \E moved \in [1..Len(titles) -> 1..Len(marked)] :
             Laid(moved, titles, marked) /\ Begun(moved, marked)
    BY <2>2, <2>3, <2>5, <2>6, LaidBehindMark
  <2> HIDE DEF marked
  <2>8. PICK moved \in [1..Len(titles) -> 1..Len(marked)] :
          Laid(moved, Quoted(titles), marked) /\ Begun(moved, marked)
    BY <2>4, <2>7
  <2>9. cells' = titles /\ line' = marked /\ parse' = Csv!Start
    BY <2>1 DEF marked
  <2> QED
    BY <2>2, <2>7, <2>8, <2>9, ReaderStarts
<1>2. ASSUME Csv!WriteRow PROVE CsvInv'
  <2>0. PICK n \in 1..MaxCells : \E row \in [1..n -> Contents] :
          /\ cells' = row /\ parse' = Csv!Start
          /\ line' = Csv!Line([i \in 1..n |-> Csv!Doubled(row[i])])
    BY <1>2 DEF Csv!WriteRow, Contents
  <2>1. PICK row \in [1..n -> Contents] :
          /\ cells' = row /\ parse' = Csv!Start
          /\ line' = Csv!Line([i \in 1..n |-> Csv!Doubled(row[i])])
    BY <2>0
  <2>2. /\ row \in UNION {[1..m -> Titles \cup Contents] : m \in 0..MaxCells}
        /\ row # <<>> /\ DOMAIN row = 1..n /\ n \in Nat
    <3>1. n \in Nat /\ n \in 0..MaxCells /\ 1 \in 1..n
      BY AccountsAssumption
    <3>2. row \in [1..n -> Titles \cup Contents] /\ DOMAIN row = 1..n
      OBVIOUS
    <3>3. row # <<>>
      BY <3>1, <3>2
    <3> QED
      BY <3>1, <3>2, <3>3
  <2>3. /\ Quoted(row) \in Seq(Seq(Csv!Characters)) /\ Len(Quoted(row)) = Len(row)
        /\ Len(row) \in Nat \ {0}
    BY <2>2, RowsAreStrings
  <2>4. cells' = row /\ line' = Csv!Line(Quoted(row)) /\ parse' = Csv!Start
    BY <2>1, <2>2 DEF Quoted
  <2>5. Quoted(row) # <<>>
    BY <2>3
  <2>6. PICK text \in Seq(Csv!Characters) :
          /\ text = Csv!Line(Quoted(row)) /\ text # <<>> /\ text[1] = "quote"
          /\ \E open \in [1..Len(row) -> 1..Len(text)] :
               Laid(open, Quoted(row), text) /\ open[1] = 1
    BY <2>3, <2>5, LineLays
  <2>7. PICK open \in [1..Len(row) -> 1..Len(text)] : Laid(open, Quoted(row), text) /\ open[1] = 1
    BY <2>6
  <2>8. Begun(open, text)
    BY <2>6, <2>7 DEF Begun
  <2> QED
    BY <2>2, <2>4, <2>6, <2>7, <2>8, ReaderStarts
<1> QED
  BY <1>1, <1>2

LEMMA CsvInit == Csv!Init => CsvInv
<1> SUFFICES ASSUME Csv!Init PROVE CsvInv
  OBVIOUS
<1>1. cells = <<>> /\ line = <<>> /\ parse = Csv!Start
  BY DEF Csv!Init
<1>2. cells \in UNION {[1..n -> Titles \cup Contents] : n \in 0..MaxCells}
  <2>1. 0 \in 0..MaxCells
    BY AccountsAssumption
  <2>2. <<>> \in [1..0 -> Titles \cup Contents]
    OBVIOUS
  <2> QED
    BY <1>1, <2>1, <2>2
<1>3. parse \in Parses
  <2>1. <<>> \in Seq(Csv!Characters) /\ <<>> \in Seq(Seq(Csv!Characters))
    OBVIOUS
  <2> QED
    BY <1>1, <2>1 DEF Parses, Csv!Start
<1> QED
  BY <1>1, <1>2, <1>3 DEF CsvInv

LEMMA CsvNext == CsvInv /\ [Csv!Next]_csv => CsvInv'
<1>1. CsvInv /\ UNCHANGED csv => CsvInv'
  BY DEF CsvInv, csv
<1> QED
  BY <1>1, ReaderSteps, ReaderEnds, WriterStarts DEF Csv!Next

LEMMA CsvHolds == CsvInv => Csv!TypeOK /\ Csv!ExportReadsBack
<1> SUFFICES ASSUME CsvInv PROVE Csv!TypeOK /\ Csv!ExportReadsBack
  OBVIOUS
<1>1. /\ cells \in UNION {[1..n -> Titles \cup Contents] : n \in 0..MaxCells}
      /\ line \in Seq(Csv!Characters) /\ parse \in Parses
      /\ cells \in Seq(Seq(Csv!Characters)) /\ Len(line) \in Nat /\ Len(cells) \in Nat
  BY RowsAreStrings DEF CsvInv
<1>2. /\ DOMAIN parse = DOMAIN Csv!Start /\ parse.current \in Seq(Csv!Characters)
      /\ parse.inQuotes \in BOOLEAN /\ parse.ended \in BOOLEAN
  BY <1>1 DEF Parses, Csv!Start
<1>3. CASE line = <<>>
  <2>1. parse = Csv!Start /\ Len(line) = 0
    BY <1>3 DEF CsvInv
  <2>2. parse.i = 1 /\ parse.values = <<>> /\ ~parse.ended
    BY <2>1 DEF Csv!Start
  <2>3. parse.i \in 1..Len(line) + 1 /\ Len(parse.values) <= Len(line) + 1
    BY <2>1, <2>2
  <2> QED
    BY <1>1, <1>2, <2>2, <2>3 DEF Csv!TypeOK, Csv!ExportReadsBack, Titles, Contents
<1>4. CASE line # <<>>
  <2>1. PICK open \in [1..Len(cells) -> 1..Len(line)] :
          /\ Laid(open, Quoted(cells), line)
          /\ \/ \E k \in 1..Len(cells) : Reading(parse, cells, line, open, k)
             \/ Finished(parse, cells, line)
    BY <1>4 DEF CsvInv
  <2>2. \A k \in 1..Len(cells) : Ahead(cells, line, open, k)
    BY <1>1, <2>1, CellAhead
  <2>3. \A k \in 1..Len(cells) : k <= Len(line)
    <3> SUFFICES ASSUME NEW k \in 1..Len(cells) PROVE k <= Len(line)
      OBVIOUS
    <3>1. k <= open[k] /\ open[k] \in 1..Len(line)
      BY <2>2 DEF Ahead
    <3> QED
      BY <1>1, <3>1
  <2>4. ASSUME NEW k \in 1..Len(cells), Reading(parse, cells, line, open, k)
        PROVE  /\ parse.i \in 1..Len(line) + 1 /\ Len(parse.values) <= Len(line) + 1
               /\ ~parse.ended
    <3> DEFINE size == Len(Csv!Doubled(cells[k]))
    <3>1. /\ open[k] \in Nat /\ 1 <= open[k] /\ open[k] + size + 1 <= Len(line) /\ size \in Nat
      BY <1>1, <2>2, RowsAreStrings DEF Ahead
    <3>2. \A width \in [0..Len(cells[k]) -> 0..size], j \in 0..Len(cells[k]) :
            width[j] \in Nat /\ width[j] <= size
      <4> SUFFICES ASSUME NEW width \in [0..Len(cells[k]) -> 0..size], NEW j \in 0..Len(cells[k])
                   PROVE  width[j] \in Nat /\ width[j] <= size
        OBVIOUS
      <4>1. width[j] \in 0..size
        OBVIOUS
      <4> QED
        BY <3>1, <4>1
    <3>3. \/ parse.i = 1 \/ parse.i = open[k] \/ parse.i = open[k] + size + 2
          \/ \E w \in Nat : w <= size /\ parse.i = open[k] + 1 + w
      BY <2>4, <3>2 DEF Reading
    <3>4. parse.i \in 1..Len(line) + 1
      <4>1. PICK o \in Nat, d \in Nat, n \in Nat : o = open[k] /\ d = size /\ n = Len(line)
        BY <1>1, <3>1
      <4>2. 1 <= o /\ o + d + 1 <= n
        BY <3>1, <4>1
      <4>3. \/ parse.i = 1 \/ parse.i = o \/ parse.i = o + d + 2
            \/ \E w \in Nat : w <= d /\ parse.i = o + 1 + w
        BY <3>3, <4>1
      <4>4. parse.i \in 1..n + 1
        BY <4>2, <4>3
      <4> QED
        BY <4>1, <4>4
    <3>5. parse.values = [i \in 1..k - 1 |-> Csv!Trim(cells[i])] /\ ~parse.ended
      BY <2>4 DEF Reading
    <3>6. Len(parse.values) = k - 1
      BY <3>5
    <3> QED
      BY <1>1, <2>3, <3>4, <3>5, <3>6
  <2>5. ASSUME Finished(parse, cells, line)
        PROVE  /\ parse.i \in 1..Len(line) + 1 /\ Len(parse.values) <= Len(line) + 1
               /\ parse.values = [i \in DOMAIN cells |-> Csv!Trim(cells[i])]
    <3>1. /\ parse.i = Len(line) + 1
          /\ parse.values = [i \in 1..Len(cells) |-> Csv!Trim(cells[i])]
      BY <2>5 DEF Finished
    <3>2. Len(parse.values) = Len(cells) /\ DOMAIN cells = 1..Len(cells)
      BY <1>1, <3>1
    <3>3. Len(cells) <= Len(line)
      BY <1>1, <2>3
    <3> QED
      BY <1>1, <3>1, <3>2, <3>3
  <2>6. /\ parse.i \in 1..Len(line) + 1 /\ Len(parse.values) <= Len(line) + 1
        /\ parse.ended => parse.values = [i \in DOMAIN cells |-> Csv!Trim(cells[i])]
    BY <2>1, <2>4, <2>5
  <2> QED
    BY <1>1, <1>2, <2>6 DEF Csv!TypeOK, Csv!ExportReadsBack, Titles, Contents
<1> QED
  BY <1>3, <1>4

\* The cells of every line that an export writes, of any length and number, are what an
\* import reads of it, trimmed: quotes and commas inside a cell survive, and the byte
\* order mark before a header is no part of its title (parseCsvLine, writeCsv).
THEOREM ExportsAreReadBack == AccountsSpec => []ExportReadsBack
<1> DEFINE Inv == part = "csv" => CsvInv
<1>1. AccountsInit => Inv
  BY CsvInit DEF AccountsInit
<1>2. Inv /\ [AccountsNext]_accountsVars => Inv'
  <2> SUFFICES ASSUME Inv, [AccountsNext]_accountsVars, part' = "csv" PROVE CsvInv'
    OBVIOUS
  <2>1. part = "csv" /\ [Csv!Next]_csv
    BY DEF AccountsNext, accountsVars
  <2> QED
    BY <2>1, CsvNext
<1>3. Inv => ExportReadsBack
  BY CsvHolds DEF ExportReadsBack
<1> QED
  BY <1>1, <1>2, <1>3, PTL DEF AccountsSpec
===============================================================================
