------------------------- MODULE HistoryPlanProofs -------------------------
(***************************************************************************)
(* Plans of any series and length, and every sequence of answers to their   *)
(* windows: the windows divide the period, and what the three controls of   *)
(* an answer leave missing.                                                *)
(***************************************************************************)
EXTENDS HistoryPlan, SequenceTheorems, InductionLemmas, TLAPS

-----------------------------------------------------------------------------
(* The windows of a plan, without recursion: the i-th of them starts i - 1  *)
(* widths after the first day.                                             *)

Start(w, first, i) == first + (i - 1) * w
Count(w, first, last) == ((last - first) \div w) + 1
Piece(w, first, last, i) ==
    [start |-> Start(w, first, i), end |-> Least(last, Start(w, first, i) + w - 1)]
Pieces(w, first, last) == [i \in 1..Count(w, first, last) |-> Piece(w, first, last, i)]

LEMMA Quotient ==
    ASSUME NEW w \in Nat \ {0}, NEW n \in Nat
    PROVE  /\ n \div w \in Nat
           /\ (n \div w) * w <= n
           /\ n < ((n \div w) * w) + w
OBVIOUS

LEMMA QuotientIs ==
    ASSUME NEW w \in Nat \ {0}, NEW n \in Nat, NEW q \in Int, q * w <= n, n < (q * w) + w
    PROVE  n \div w = q
<1>1. n = (q * w) + (n - (q * w)) /\ q * w \in Int
  OBVIOUS
<1>2. n - (q * w) \in 0..(w - 1)
  BY <1>1
<1>3. \A i \in 0..(w - 1) : ((q * w) + i) \div w = q
  OBVIOUS
<1>4. QED
  BY <1>1, <1>2, <1>3

LEMMA Multiples ==
    ASSUME NEW w \in Nat \ {0}, NEW i \in Int, NEW j \in Int, i < j
    PROVE  /\ i * w \in Int /\ j * w \in Int
           /\ (i * w) + w <= j * w
           /\ (i + 1) * w = (i * w) + w
<1>1. i * w \in Int /\ j * w \in Int /\ (i + 1) * w = (i * w) + w
  OBVIOUS
<1>2. (i + 1) * w <= j * w
  OBVIOUS
<1>3. QED
  BY <1>1, <1>2

LEMMA CountIs ==
    ASSUME NEW w \in Nat \ {0}, NEW first \in Int, NEW last \in Int, first <= last
    PROVE  /\ Count(w, first, last) \in Nat \ {0}
           /\ (Count(w, first, last) - 1) * w <= last - first
           /\ last - first < Count(w, first, last) * w
<1>1. last - first \in Nat
  OBVIOUS
<1>2. PICK q : q = (last - first) \div w
  OBVIOUS
<1>3. q \in Nat /\ q * w <= last - first /\ last - first < (q * w) + w
  BY <1>1, <1>2, Quotient
<1>4. (q + 1) * w = (q * w) + w /\ (q + 1) - 1 = q
  BY <1>3
<1>5. QED
  BY <1>2, <1>3, <1>4 DEF Count

(* The first window and, when days are left, the windows of the rest. *)
LEMMA PiecesUnfold ==
    ASSUME NEW w \in Nat \ {0}, NEW first \in Int, NEW last \in Int, first <= last
    PROVE  LET p == [start |-> first, end |-> Least(last, first + w - 1)]
           IN  Pieces(w, first, last)
                  = <<p>> \o (IF p.end + 1 > last THEN <<>> ELSE Pieces(w, p.end + 1, last))
<1> DEFINE p == [start |-> first, end |-> Least(last, first + w - 1)]
           n == Count(w, first, last)
<1>1. n \in Nat \ {0} /\ (n - 1) * w <= last - first /\ last - first < n * w
  BY CountIs
<1>2. Start(w, first, 1) = first
  BY DEF Start
<1>3. Piece(w, first, last, 1) = p
  BY <1>2 DEF Piece
<1>4. p.end = Least(last, first + w - 1) /\ p.end \in Int
  BY DEF Least
<1>5. CASE first + w - 1 < last
  <2>1. p.end + 1 = first + w /\ ~(p.end + 1 > last)
    BY <1>4, <1>5 DEF Least
  <2> DEFINE rest == Pieces(w, first + w, last)
             k == Count(w, first + w, last)
  <2>2. k = n - 1 /\ k \in Nat
    <3>1. first + w <= last /\ first + w \in Int
      BY <1>5
    <3>2. k \in Nat \ {0} /\ (k - 1) * w <= last - (first + w) /\ last - (first + w) < k * w
      BY <3>1, CountIs
    <3> HIDE DEF n, k
    <3>3. (k - 1) * w = (k * w) - w /\ (n - 1) * w = (n * w) - w /\ k * w \in Int /\ n * w \in Int
          /\ (k + 1) * w = (k * w) + w
      BY <1>1, <3>2
    <3>4. (n - 1) * w < (k + 1) * w /\ k * w < n * w
      BY <1>1, <3>2, <3>3
    <3>5. ~(k + 1 <= n - 1)
      <4>1. k + 1 <= n - 1 => (k + 1) * w <= (n - 1) * w
        BY <1>1, <3>2
      <4>2. (k + 1) * w \in Int /\ (n - 1) * w \in Int
        BY <1>1, <3>2
      <4>3. QED
        BY <3>4, <4>1, <4>2
    <3>6. ~(n <= k)
      <4>1. n <= k => n * w <= k * w
        BY <1>1, <3>2
      <4>2. QED
        BY <3>3, <3>4, <4>1
    <3>7. QED
      BY <1>1, <3>2, <3>5, <3>6
  <2>3. DOMAIN rest = 1..k /\ \A i \in 1..k : rest[i] = Piece(w, first, last, i + 1)
    <3>1. ASSUME NEW i \in 1..k PROVE Piece(w, first + w, last, i) = Piece(w, first, last, i + 1)
      <4>1. Start(w, first + w, i) = Start(w, first, i + 1)
        <5>1. ((i + 1) - 1) * w = ((i - 1) * w) + w /\ (i - 1) * w \in Int
          BY <2>2
        <5>2. QED
          BY <5>1 DEF Start
      <4>2. QED
        BY <4>1 DEF Piece
    <3>2. QED
      BY <3>1 DEF Pieces
  <2> HIDE DEF rest, k, p, n
  <2>4. <<p>> \o rest = Pieces(w, first, last)
    <3>1. rest = [i \in 1..k |-> Piece(w, first, last, i + 1)]
      BY <2>3 DEF rest, Pieces, k
    <3> DEFINE S == {Piece(w, first, last, i) : i \in 1..n}
    <3>2. \A i \in 1..k : i + 1 \in 1..n
      BY <1>1, <2>2
    <3>3. rest \in [1..k -> S]
      BY <3>1, <3>2
    <3>4. p \in S
      BY <1>1, <1>3
    <3> HIDE DEF S
    <3>5. rest \in Seq(S) /\ Len(rest) = k
      <4>1. \A m \in Nat : \A f \in [1..m -> S] : f \in Seq(S) /\ Len(f) = m
        OBVIOUS
      <4>2. QED
        BY <2>2, <3>3, <4>1
    <3>6. <<p>> \in Seq(S) /\ Len(<<p>>) = 1 /\ <<p>>[1] = p
      BY <3>4
    <3> DEFINE c == <<p>> \o rest
    <3>7. /\ c \in Seq(S) /\ Len(c) = n
          /\ \A i \in 1..n : c[i] = IF i <= 1 THEN <<p>>[i] ELSE rest[i - 1]
      BY <1>1, <2>2, <3>5, <3>6, ConcatProperties
    <3> HIDE DEF c
    <3>8. ASSUME NEW i \in 1..n PROVE c[i] = Piece(w, first, last, i)
      <4>1. CASE i = 1
        BY <4>1, <1>3, <3>6, <3>7 DEF p
      <4>2. CASE i # 1
        <5>1. i - 1 \in 1..k /\ (i - 1) + 1 = i /\ ~(i <= 1)
          BY <1>1, <4>2, <2>2
        <5>2. QED
          BY <2>3, <3>7, <5>1
      <4>3. QED
        BY <4>1, <4>2
    <3>9. c = [i \in 1..n |-> c[i]]
      BY <3>7, <1>1, LenProperties
    <3>10. QED
      BY <3>8, <3>9 DEF Pieces, c, n
  <2>5. QED
    BY <2>1, <2>4 DEF rest, p
<1>6. CASE ~(first + w - 1 < last)
  <2>1. p.end = last /\ p.end + 1 > last
    BY <1>4, <1>6 DEF Least
  <2>2. n = 1
    <3>1. (last - first) \div w = 0
      <4>1. last - first \in Nat /\ 0 * w <= last - first /\ last - first < (0 * w) + w
        BY <1>6
      <4>2. QED
        BY <4>1, QuotientIs
    <3>2. QED
      BY <3>1 DEF Count
  <2>3. Pieces(w, first, last) = <<p>>
    <3>1. Pieces(w, first, last) = [i \in 1..1 |-> Piece(w, first, last, i)]
      BY <2>2 DEF Pieces
    <3>2. 1..1 = {1}
      OBVIOUS
    <3>3. QED
      BY <1>3, <3>1, <3>2
  <2>4. <<p>> \o <<>> = <<p>>
    OBVIOUS
  <2>5. QED
    BY <2>1, <2>3, <2>4
<1>7. QED
  BY <1>5, <1>6

(* _partition_windows yields these windows.  That its recursion defines a   *)
(* function is shown by the function itself, and that it is the only one,   *)
(* by induction on the days that are left.                                 *)
LEMMA PartitionIs ==
    ASSUME NEW s \in Series, NEW first \in Int, NEW last \in Int, first <= last
    PROVE  Partition(s, first, last) = Pieces(s.width, first, last)
<1> DEFINE w == s.width
           P(c) == [start |-> c, end |-> Least(last, c + w - 1)]
           Solves(f) == f = [c \in Int |-> IF c > last THEN <<>>
                                           ELSE <<P(c)>> \o f[P(c).end + 1]]
           g == [c \in Int |-> IF c > last THEN <<>> ELSE Pieces(w, c, last)]
<1>1. w \in Nat \ {0}
  BY PlanAssumption
<1>2. ASSUME NEW c \in Int, ~(c > last)
      PROVE  /\ P(c).end \in Int /\ P(c).end + 1 \in Int
             /\ c < P(c).end + 1 /\ P(c).end <= last
             /\ g[c] = <<P(c)>> \o g[P(c).end + 1]
  <2>1. P(c).end = Least(last, c + w - 1)
    OBVIOUS
  <2>2. P(c).end \in Int /\ c < P(c).end + 1 /\ P(c).end <= last
    <3> HIDE DEF w, P, g
    <3>1. QED
      BY <1>1, <1>2, <2>1 DEF Least
  <2>3. Pieces(w, c, last)
           = <<P(c)>> \o (IF P(c).end + 1 > last THEN <<>> ELSE Pieces(w, P(c).end + 1, last))
    BY <1>1, <1>2, PiecesUnfold
  <2> DEFINE e == P(c).end + 1
  <2>4. e \in Int
    BY <2>2
  <2> HIDE DEF e
  <2>5. g[e] = (IF e > last THEN <<>> ELSE Pieces(w, e, last)) /\ g[c] = Pieces(w, c, last)
    BY <1>2, <2>4
  <2>6. g[c] = <<P(c)>> \o g[e]
    BY <2>3, <2>5 DEF e
  <2>7. QED
    BY <2>2, <2>6 DEF e
<1>3. Solves(g)
  <2>1. ASSUME NEW c \in Int
        PROVE  g[c] = IF c > last THEN <<>> ELSE <<P(c)>> \o g[P(c).end + 1]
    BY <1>2
  <2> DEFINE h == [c \in Int |-> IF c > last THEN <<>> ELSE <<P(c)>> \o g[P(c).end + 1]]
  <2>2. g = [c \in Int |-> g[c]] /\ h = [c \in Int |-> h[c]]
    OBVIOUS
  <2>3. \A c \in Int : g[c] = h[c]
    BY <2>1
  <2>4. g = h
    <3> HIDE DEF g, h
    <3>1. QED
      BY <2>2, <2>3
  <2>5. QED
    BY <2>4
<1> DEFINE f == CHOOSE f : Solves(f)
<1>4. Solves(f)
  <2>1. \E h : Solves(h)
    BY <1>3
  <2> HIDE DEF Solves
  <2>2. QED
    BY <2>1
<1>5. Partition(s, first, last) = f[first]
  BY DEF Partition, LastDay
<1>6. \A c \in Int : f[c] = IF c > last THEN <<>> ELSE <<P(c)>> \o f[P(c).end + 1]
  <2> HIDE DEF f
  <2>1. QED
    BY <1>4
<1> HIDE DEF f, g, P, w, Solves
<1> DEFINE S == {m \in Nat : \A k \in 0..m : f[(last + 1) - k] = g[(last + 1) - k]}
<1>7. 0 \in S
  <2>1. last + 1 \in Int /\ last + 1 > last
    OBVIOUS
  <2>2. f[last + 1] = <<>> /\ g[last + 1] = <<>>
    BY <1>6, <2>1 DEF g
  <2>3. QED
    BY <2>2
<1>8. ASSUME NEW m \in Nat, m \in S PROVE m + 1 \in S
  <2> DEFINE c == (last + 1) - (m + 1)
  <2>1. c \in Int /\ ~(c > last) /\ c <= last
    OBVIOUS
  <2> DEFINE k == (last + 1) - (P(c).end + 1)
  <2>2. /\ P(c).end \in Int /\ P(c).end + 1 \in Int
        /\ c < P(c).end + 1 /\ P(c).end <= last
        /\ g[c] = <<P(c)>> \o g[P(c).end + 1]
    BY <1>2, <2>1
  <2>3. k \in 0..m /\ (last + 1) - k = P(c).end + 1
    <3>1. PICK e \in Int : e = P(c).end + 1
      BY <2>2
    <3>2. c < e /\ e <= last + 1
      BY <2>2, <3>1
    <3>3. (last + 1) - e \in 0..m /\ (last + 1) - ((last + 1) - e) = e
      BY <3>2
    <3>4. QED
      BY <3>1, <3>3
  <2>4. f[(last + 1) - k] = g[(last + 1) - k]
    BY <1>8, <2>3
  <2> HIDE DEF k
  <2>5. f[P(c).end + 1] = g[P(c).end + 1]
    BY <2>3, <2>4
  <2>6. f[c] = <<P(c)>> \o f[P(c).end + 1]
    BY <1>6, <2>1
  <2>7. f[c] = g[c]
    BY <2>2, <2>5, <2>6
  <2>8. ASSUME NEW j \in 0..(m + 1) PROVE f[(last + 1) - j] = g[(last + 1) - j]
    <3>1. CASE j \in 0..m
      BY <1>8, <3>1
    <3>2. CASE j = m + 1
      BY <2>7, <3>2
    <3>3. QED
      BY <3>1, <3>2
  <2>9. QED
    BY <2>8
<1> HIDE DEF S
<1>9. last - first + 1 \in S
  <2>1. last - first + 1 \in Nat
    OBVIOUS
  <2>2. QED
    BY <1>7, <1>8, <2>1, NaturalsFromZero
<1>10. f[first] = g[first]
  <2> DEFINE m == last - first + 1
  <2>1. m \in 0..m /\ (last + 1) - m = first
    OBVIOUS
  <2>2. \A k \in 0..m : f[(last + 1) - k] = g[(last + 1) - k]
    BY <1>9 DEF S
  <2>3. f[(last + 1) - m] = g[(last + 1) - m]
    BY <2>1, <2>2
  <2> HIDE DEF m
  <2>4. QED
    BY <2>1, <2>3
<1>11. g[first] = Pieces(w, first, last)
  BY DEF g
<1>12. QED
  BY <1>5, <1>10, <1>11 DEF w

(* What the windows of a plan are to one another and to its period. *)
Divides(ws, w, first, last) ==
    /\ ws \in Seq([start : Int, end : Int]) /\ Len(ws) \in Nat \ {0}
    /\ \A i \in 1..Len(ws) : /\ first <= ws[i].start /\ ws[i].start <= ws[i].end
                             /\ ws[i].end <= last /\ ws[i].end - ws[i].start + 1 <= w
    /\ ws[Len(ws)].end = last
    /\ \A i \in 1..(Len(ws) - 1) : ws[i + 1].start = ws[i].end + 1
    /\ \A i, j \in 1..Len(ws) : i < j => ws[i].end < ws[j].start
    /\ \A d \in first..last : \E i \in 1..Len(ws) : d \in ws[i].start .. ws[i].end

LEMMA PiecesDivide ==
    ASSUME NEW w \in Nat \ {0}, NEW first \in Int, NEW last \in Int, first <= last
    PROVE  Divides(Pieces(w, first, last), w, first, last)
<1> DEFINE ws == Pieces(w, first, last)
           n == Count(w, first, last)
           At(i) == Start(w, first, i)
<1>1. n \in Nat \ {0} /\ (n - 1) * w <= last - first /\ last - first < n * w
  BY CountIs
<1> HIDE DEF n
<1>2. ASSUME NEW i \in Int
      PROVE  At(i) \in Int /\ At(i + 1) = At(i) + w
  <2>1. (i - 1) * w \in Int /\ ((i + 1) - 1) * w = ((i - 1) * w) + w
    BY Multiples
  <2>2. QED
    BY <2>1 DEF Start
<1>3. ASSUME NEW i \in Int, NEW j \in Int, i < j
      PROVE  At(i) + w <= At(j)
  <2>1. (i - 1) * w \in Int /\ (j - 1) * w \in Int /\ ((i - 1) * w) + w <= (j - 1) * w
    BY <1>3, Multiples
  <2>2. QED
    BY <2>1 DEF Start
<1>4. At(1) = first
  BY DEF Start
<1>5. At(n) <= last /\ last < At(n) + w
  <2>1. (n - 1) * w \in Int /\ n * w = ((n - 1) * w) + w
    BY <1>1, Multiples
  <2>2. QED
    BY <1>1, <2>1 DEF Start
<1>6. \A i \in 1..n : ws[i] = [start |-> At(i), end |-> Least(last, At(i) + w - 1)]
  BY DEF Pieces, Piece, n
<1> HIDE DEF At
<1>7. ASSUME NEW i \in 1..n
      PROVE  /\ i \in Int /\ At(i) \in Int /\ first <= At(i) /\ At(i) <= last
             /\ ws[i].start = At(i) /\ ws[i].end \in Int
             /\ ws[i].end <= last /\ At(i) <= ws[i].end /\ ws[i].end <= At(i) + w - 1
             /\ i < n => ws[i].end = At(i) + w - 1
             /\ i = n => ws[i].end = last
             /\ ws[i] \in [start : Int, end : Int]
  <2>1. i \in Int /\ At(i) \in Int
    BY <1>1, <1>2
  <2>2. first <= At(i)
    <3>1. CASE i = 1
      BY <1>4, <3>1
    <3>2. CASE i # 1
      <4>1. At(1) + w <= At(i)
        BY <1>1, <1>3, <3>2
      <4>2. QED
        BY <1>4, <2>1, <4>1
    <3>3. QED
      BY <3>1, <3>2
  <2>3. At(i) <= last /\ (i < n => At(i) + w <= last)
    <3>1. CASE i = n
      BY <1>1, <1>5, <3>1
    <3>2. CASE i # n
      <4>1. At(i) + w <= At(n) /\ At(n) \in Int
        BY <1>1, <1>2, <1>3, <3>2
      <4>2. QED
        BY <1>5, <2>1, <4>1
    <3>3. QED
      BY <3>1, <3>2
  <2>4. ws[i].start = At(i) /\ ws[i].end = Least(last, At(i) + w - 1)
        /\ ws[i] = [start |-> At(i), end |-> Least(last, At(i) + w - 1)]
    BY <1>6
  <2>5. /\ Least(last, At(i) + w - 1) \in Int /\ Least(last, At(i) + w - 1) <= last
        /\ At(i) <= Least(last, At(i) + w - 1) /\ Least(last, At(i) + w - 1) <= At(i) + w - 1
        /\ i < n => Least(last, At(i) + w - 1) = At(i) + w - 1
        /\ i = n => Least(last, At(i) + w - 1) = last
    BY <1>5, <2>1, <2>3 DEF Least
  <2>6. QED
    BY <2>1, <2>2, <2>3, <2>4, <2>5
<1>8. ws \in Seq([start : Int, end : Int]) /\ Len(ws) = n
  <2>1. ws = [i \in 1..n |-> ws[i]]
    BY DEF Pieces, n
  <2>2. ws \in [1..n -> [start : Int, end : Int]]
    BY <1>7, <2>1
  <2>3. \A T : \A m \in Nat : \A f \in [1..m -> T] : f \in Seq(T) /\ Len(f) = m
    OBVIOUS
  <2>4. QED
    BY <1>1, <2>2, <2>3
<1> HIDE DEF ws
<1>9. \A i \in 1..Len(ws) : /\ first <= ws[i].start /\ ws[i].start <= ws[i].end
                            /\ ws[i].end <= last /\ ws[i].end - ws[i].start + 1 <= w
  <2> SUFFICES ASSUME NEW i \in 1..n
               PROVE  /\ first <= ws[i].start /\ ws[i].start <= ws[i].end
                      /\ ws[i].end <= last /\ ws[i].end - ws[i].start + 1 <= w
    BY <1>8
  <2>1. /\ At(i) \in Int /\ first <= At(i) /\ ws[i].start = At(i) /\ ws[i].end \in Int
        /\ ws[i].end <= last /\ At(i) <= ws[i].end /\ ws[i].end <= At(i) + w - 1
    BY <1>7
  <2>2. QED
    BY <2>1
<1>10. ws[Len(ws)].end = last
  BY <1>1, <1>7, <1>8
<1>11. ASSUME NEW i \in 1..(Len(ws) - 1) PROVE ws[i + 1].start = ws[i].end + 1
  <2>1. i \in 1..n /\ i + 1 \in 1..n /\ i < n /\ i \in Int
    BY <1>1, <1>8
  <2>2. ws[i + 1].start = At(i + 1) /\ At(i + 1) = At(i) + w /\ At(i) \in Int
        /\ ws[i].end = At(i) + w - 1
    BY <1>2, <1>7, <2>1
  <2>3. QED
    BY <2>2
<1>12. ASSUME NEW i \in 1..Len(ws), NEW j \in 1..Len(ws), i < j PROVE ws[i].end < ws[j].start
  <2>1. i \in 1..n /\ j \in 1..n /\ i \in Int /\ j \in Int
    BY <1>1, <1>8
  <2>2. At(i) + w <= At(j) /\ ws[j].start = At(j) /\ ws[i].end <= At(i) + w - 1
        /\ ws[i].end \in Int /\ At(i) \in Int /\ At(j) \in Int
    BY <1>3, <1>7, <1>12, <2>1
  <2>3. QED
    BY <2>2
<1>13. ASSUME NEW d \in first..last
       PROVE  \E i \in 1..Len(ws) : d \in ws[i].start .. ws[i].end
  <2>1. d - first \in Nat /\ d \in Int
    OBVIOUS
  <2>2. PICK q : q = (d - first) \div w
    OBVIOUS
  <2>3. q \in Nat /\ q * w <= d - first /\ d - first < (q * w) + w
    BY <2>1, <2>2, Quotient
  <2>4. q < n
    <3>1. ~(n <= q)
      <4>1. n <= q => n * w <= q * w
        BY <1>1, <2>3
      <4>2. n * w \in Int /\ q * w \in Int
        BY <1>1, <2>3
      <4>3. QED
        BY <1>1, <2>1, <2>3, <4>1, <4>2
    <3>2. QED
      BY <1>1, <2>3, <3>1
  <2>5. q + 1 \in 1..n /\ q + 1 \in Int
    BY <1>1, <2>3, <2>4
  <2>6. At(q + 1) = first + (q * w)
    <3>1. (q + 1) - 1 = q
      BY <2>3
    <3>2. QED
      BY <3>1 DEF At, Start
  <2>7. At(q + 1) <= d /\ d <= At(q + 1) + w - 1
    <3>1. q * w \in Int
      BY <2>3
    <3>2. QED
      BY <2>1, <2>3, <2>6, <3>1
  <2>8. ws[q + 1].start = At(q + 1) /\ ws[q + 1].end = Least(last, At(q + 1) + w - 1)
        /\ At(q + 1) \in Int
    <3>1. ws[q + 1] = [start |-> At(q + 1), end |-> Least(last, At(q + 1) + w - 1)]
      BY <1>6, <2>5
    <3>2. At(q + 1) \in Int
      BY <1>7, <2>5
    <3>3. QED
      BY <3>1, <3>2
  <2>9. d \in ws[q + 1].start .. ws[q + 1].end
    <3>1. d <= Least(last, At(q + 1) + w - 1) /\ Least(last, At(q + 1) + w - 1) \in Int
      BY <2>7, <2>8 DEF Least
    <3>2. QED
      BY <2>1, <2>7, <2>8, <3>1
  <2>10. QED
    BY <1>8, <2>5, <2>9
<1>14. QED
  BY <1>1, <1>8, <1>9, <1>10, <1>11, <1>12, <1>13 DEF Divides, ws

(* HistoricalManifest.validate has nothing to refuse in such a plan. *)
LEMMA ManifestHolds ==
    ASSUME NEW s, NEW ws, NEW first \in Int, NEW last \in Int,
           Divides(ws, s.width, first, last), s.approved <= first, s.approved \in Int
    PROVE  ManifestValid(s, ws, last)
<1>1. ws # <<>> /\ DOMAIN ws = 1..Len(ws)
  BY LenProperties, EmptySeq DEF Divides
<1>2. ASSUME NEW i \in DOMAIN ws PROVE RequestValid(s, ws[i])
  <2>1. /\ first <= ws[i].start /\ ws[i].start <= ws[i].end
        /\ ws[i].end - ws[i].start + 1 <= s.width
    BY <1>1 DEF Divides
  <2>2. ws[i] \in [start : Int, end : Int]
    BY <1>1, ElementOfSeq DEF Divides
  <2>3. ws[i].start \in Int
    BY <2>2
  <2>4. s.approved <= ws[i].start
    BY <2>1, <2>3
  <2>5. QED
    BY <2>1, <2>4 DEF RequestValid
<1>3. QED
  BY <1>1, <1>2 DEF ManifestValid, Divides

-----------------------------------------------------------------------------
(* The inductive invariant: the windows divide the period, and every answer *)
(* that is kept has passed the controls for its window.                    *)

PlanInv ==
    /\ series \in Series
    /\ state \in {"none", "planned", "COMPLETE", "BLOCKED"}
    /\ answers \in Seq(SUBSET Int)
    /\ state = "none" => windows = <<>> /\ answers = <<>>
    /\ state # "none" =>
          /\ period.start \in Nat /\ period.end \in series.ends
          /\ period.start <= period.end
          /\ Divides(windows, series.width, period.start, period.end)
          /\ Len(answers) <= Len(windows)
    /\ \A i \in 1..Len(answers) : \A w, bars :
          w = windows[i] /\ bars = answers[i] => Accepted(w, bars)
    /\ state = "planned" => Len(answers) < Len(windows)
    /\ state = "COMPLETE" => Len(answers) = Len(windows)

LEMMA SeriesTyped ==
    ASSUME NEW s \in Series
    PROVE  /\ s.width \in Nat \ {0} /\ s.perDay \in Nat \ {0} /\ s.daily \in BOOLEAN
           /\ s.daily => s.perDay = 1
           /\ s.approved \in Nat /\ s.ends \subseteq Nat
BY PlanAssumption

LEMMA PlanInit == Init => PlanInv
<1> SUFFICES ASSUME Init PROVE PlanInv
  OBVIOUS
<1>1. Len(answers) = 0 /\ answers \in Seq(SUBSET Int)
  BY DEF Init
<1>2. QED
  BY <1>1 DEF Init, PlanInv

(* Whether an answer is accepted depends on the state only for the series. *)
LEMMA AcceptedKept ==
    ASSUME series' = series, NEW w, NEW bars
    PROVE  Accepted(w, bars)' <=> Accepted(w, bars)
<1>1. \A b : DayOf(b)' = DayOf(b)
  BY DEF DayOf
<1>2. DatesOf(bars)' = DatesOf(bars)
  BY <1>1 DEF DatesOf
<1>3. NoMissingBar(bars)' <=> NoMissingBar(bars)
  BY <1>1 DEF NoMissingBar, AllowedGap
<1>4. EarliestPermitted(w)' = EarliestPermitted(w) /\ LatestPermitted(w)' = LatestPermitted(w)
  BY DEF EarliestPermitted, LatestPermitted
<1>5. CoverageMet(w, bars)' <=> CoverageMet(w, bars)
  BY <1>2 DEF CoverageMet
<1>6. InPeriod(w, bars)' <=> InPeriod(w, bars)
  BY <1>2 DEF InPeriod
<1>7. QED
  BY <1>1, <1>3, <1>4, <1>5, <1>6 DEF Accepted

(* Bars are numbers, those of a window and strays alike. *)
LEMMA BarsTyped ==
    ASSUME PlanInv, state = "planned",
           NEW bars \in SUBSET BarsOf(Days(Current)), NEW stray \in Strays(Current)
    PROVE  bars \cup stray \in SUBSET Int
<1>1. series.perDay \in Nat \ {0}
  BY SeriesTyped DEF PlanInv
<1>2. Current \in [start : Int, end : Int]
  <2>1. Len(answers) \in Nat /\ Len(answers) + 1 \in 1..Len(windows)
    BY LenProperties DEF PlanInv, Divides
  <2>2. QED
    BY <2>1, ElementOfSeq DEF PlanInv, Divides, Current
<1>3. ASSUME NEW days \in SUBSET Int PROVE BarsOf(days) \subseteq Int
  <2>1. \A d \in days, i \in 0..(series.perDay - 1) : d * series.perDay + i \in Int
    BY <1>1
  <2>2. QED
    BY <2>1 DEF BarsOf
<1>4. Days(Current) \subseteq Int /\ {Current.start - 1, Current.end + 1} \subseteq Int
  BY <1>2 DEF Days
<1>5. stray \subseteq BarsOf({Current.start - 1, Current.end + 1})
  BY DEF Strays
<1>6. QED
  BY <1>3, <1>4, <1>5

LEMMA PlanStep ==
    ASSUME PlanInv, [Next]_vars
    PROVE  PlanInv'
<1>1. ASSUME NEW override \in Overrides, NEW last \in series.ends, Plan(series, override, last)
      PROVE  PlanInv'
  <2> DEFINE first == Greatest(series.approved, override)
  <2>1. /\ state = "none" /\ first <= last /\ series' = series
        /\ period' = [start |-> first, end |-> last]
        /\ windows' = Partition(series, first, last)
        /\ state' = IF ManifestValid(series, windows', last) THEN "planned" ELSE "none"
        /\ answers' = answers
    BY <1>1 DEF Plan
  <2>2. /\ first \in Nat /\ last \in Nat /\ series.approved <= first /\ series \in Series
        /\ series.approved \in Nat
    <3>1. series \in Series /\ override \in Nat
      BY PlanAssumption DEF PlanInv
    <3>2. series.approved \in Nat /\ series.ends \subseteq Nat
      BY <3>1, SeriesTyped
    <3>3. QED
      BY <3>1, <3>2 DEF Greatest
  <2> HIDE DEF first
  <2>3. Divides(windows', series.width, first, last)
    <3>1. windows' = Pieces(series.width, first, last)
      BY <2>1, <2>2, PartitionIs
    <3>2. series.width \in Nat \ {0}
      BY <2>2, SeriesTyped
    <3>3. Divides(Pieces(series.width, first, last), series.width, first, last)
      BY <2>1, <2>2, <3>2, PiecesDivide
    <3>4. QED
      BY <3>1, <3>3
  <2>4. state' = "planned"
    <3>1. ManifestValid(series, windows', last)
      BY <2>2, <2>3, ManifestHolds
    <3>2. QED
      BY <2>1, <3>1
  <2>5. answers' = <<>> /\ Len(answers') = 0 /\ answers' \in Seq(SUBSET Int)
    BY <2>1 DEF PlanInv
  <2>6. Len(answers') < Len(windows') /\ Len(answers') <= Len(windows')
    BY <2>3, <2>5 DEF Divides
  <2>7. period'.start \in Nat /\ period'.end \in series.ends /\ period'.start <= period'.end
        /\ period'.start = first /\ period'.end = last
    BY <2>1, <2>2
  <2>8. QED
    BY <2>1, <2>2, <2>3, <2>4, <2>5, <2>6, <2>7 DEF PlanInv
<1>2. ASSUME state = "planned",
             NEW bars \in SUBSET BarsOf(Days(Current)), NEW stray \in Strays(Current),
             Answer(bars \cup stray)
      PROVE  PlanInv'
  <2> DEFINE n == Len(answers)
             got == bars \cup stray
  <2>1. n \in Nat /\ n < Len(windows) /\ Len(windows) \in Nat
        /\ DOMAIN answers = 1..n
    BY <1>2, LenProperties DEF PlanInv, Divides
  <2>2. series' = series /\ period' = period /\ windows' = windows
    BY <1>2 DEF Answer
  <2>3. \A w, b : Accepted(w, b)' <=> Accepted(w, b)
    BY <2>2, AcceptedKept
  <2>4. CASE Accepted(Current, got)
    <3>1. /\ answers' = Append(answers, got)
          /\ state' = IF Len(answers') = Len(windows) THEN "COMPLETE" ELSE "planned"
      BY <1>2, <2>4 DEF Answer
    <3>2. got \in SUBSET Int
      BY <1>2, BarsTyped
    <3>3. /\ answers' \in Seq(SUBSET Int) /\ Len(answers') = n + 1
          /\ \A i \in 1..n : answers'[i] = answers[i]
          /\ answers'[n + 1] = got
      BY <3>1, <3>2, AppendProperties DEF PlanInv
    <3>4. ASSUME NEW i \in 1..Len(answers'), NEW w, NEW b, w = windows'[i], b = answers'[i]
          PROVE  Accepted(w, b)'
      <4>1. CASE i \in 1..n
        BY <2>2, <2>3, <3>3, <3>4, <4>1 DEF PlanInv
      <4>2. CASE i = n + 1
        BY <2>2, <2>3, <2>4, <3>3, <3>4, <4>2 DEF Current
      <4>3. QED
        BY <2>1, <3>3, <4>1, <4>2
    <3>5. Len(answers') <= Len(windows') /\ (state' = "planned" => Len(answers') < Len(windows'))
          /\ (state' = "COMPLETE" => Len(answers') = Len(windows'))
      BY <2>1, <2>2, <3>1, <3>3
    <3>6. state # "none" /\ state' \in {"planned", "COMPLETE"}
      BY <1>2, <3>1
    <3>7. QED
      BY <2>2, <3>3, <3>4, <3>5, <3>6 DEF PlanInv
  <2>5. CASE ~Accepted(Current, got)
    <3>1. answers' = answers /\ state' = "BLOCKED"
      BY <1>2, <2>5 DEF Answer
    <3>2. QED
      BY <1>2, <2>2, <2>3, <3>1 DEF PlanInv
  <2>6. QED
    BY <2>4, <2>5
<1>3. ASSUME AnswerMalformed PROVE PlanInv'
  <2>1. series' = series /\ period' = period /\ windows' = windows /\ answers' = answers
        /\ state' = "BLOCKED" /\ state = "planned"
    BY <1>3 DEF AnswerMalformed
  <2>2. \A w, b : Accepted(w, b)' <=> Accepted(w, b)
    BY <2>1, AcceptedKept
  <2>3. QED
    BY <2>1, <2>2 DEF PlanInv
<1>4. ASSUME UNCHANGED vars PROVE PlanInv'
  <2>1. series' = series /\ period' = period /\ windows' = windows /\ answers' = answers
        /\ state' = state
    BY <1>4 DEF vars
  <2>2. \A w, b : Accepted(w, b)' <=> Accepted(w, b)
    BY <2>1, AcceptedKept
  <2>3. QED
    BY <2>1, <2>2 DEF PlanInv
<1>5. QED
  BY <1>1, <1>2, <1>3, <1>4 DEF Next

LEMMA PlanInvariant == Spec => []PlanInv
BY PlanInit, PlanStep, PTL DEF Spec

-----------------------------------------------------------------------------
(* Bars and days.                                                          *)

LEMMA DayOfBar ==
    ASSUME series \in Series, NEW b \in Int
    PROVE  /\ DayOf(b) \in Int
           /\ DayOf(b) * series.perDay <= b
           /\ b < (DayOf(b) * series.perDay) + series.perDay
           /\ b - (DayOf(b) * series.perDay) \in 0..(series.perDay - 1)
<1> DEFINE p == series.perDay
<1>1. p \in Nat \ {0}
  BY SeriesTyped
<1> HIDE DEF p
<1>2. b \div p \in Int /\ (b \div p) * p <= b /\ b < ((b \div p) * p) + p
      /\ b - ((b \div p) * p) \in 0..(p - 1)
  BY <1>1
<1>3. QED
  BY <1>2 DEF DayOf, p

LEMMA DayOfIs ==
    ASSUME series \in Series, NEW d \in Int, NEW i \in 0..(series.perDay - 1)
    PROVE  DayOf((d * series.perDay) + i) = d
<1> DEFINE p == series.perDay
<1>1. p \in Nat \ {0}
  BY SeriesTyped
<1> HIDE DEF p
<1>2. \A k \in 0..(p - 1) : ((d * p) + k) \div p = d
  BY <1>1
<1>3. QED
  BY <1>2 DEF DayOf, p

LEMMA BarsOfDays ==
    ASSUME series \in Series, NEW days \in SUBSET Int, NEW b
    PROVE  b \in BarsOf(days) <=> b \in Int /\ DayOf(b) \in days
<1>1. series.perDay \in Nat \ {0}
  BY SeriesTyped
<1>2. ASSUME b \in BarsOf(days) PROVE b \in Int /\ DayOf(b) \in days
  <2>1. \E d \in days, i \in 0..(series.perDay - 1) : b = d * series.perDay + i
    <3>1. \A x : x \in BarsOf(days) =>
             \E d \in days, i \in 0..(series.perDay - 1) : x = d * series.perDay + i
      BY DEF BarsOf
    <3>2. QED
      BY <1>2, <3>1
  <2>2. PICK d \in days, i \in 0..(series.perDay - 1) : b = d * series.perDay + i
    BY <2>1
  <2>3. d \in Int
    OBVIOUS
  <2>4. DayOf(b) = d
    BY <2>2, <2>3, DayOfIs
  <2>5. d * series.perDay + i \in Int
    BY <1>1, <2>3
  <2>6. QED
    BY <2>2, <2>4, <2>5
<1>3. ASSUME b \in Int, DayOf(b) \in days PROVE b \in BarsOf(days)
  <2> DEFINE i == b - (DayOf(b) * series.perDay)
  <2>1. i \in 0..(series.perDay - 1) /\ DayOf(b) \in Int
    BY <1>3, DayOfBar
  <2>2. b = DayOf(b) * series.perDay + i
    BY <1>1, <1>3, <2>1
  <2>3. QED
    BY <1>3, <2>1, <2>2 DEF BarsOf
<1>4. QED
  BY <1>2, <1>3

LEMMA DaysInOrder ==
    ASSUME series \in Series, NEW a \in Int, NEW b \in Int, a <= b
    PROVE  DayOf(a) <= DayOf(b)
<1> DEFINE p == series.perDay
           x == DayOf(a)
           y == DayOf(b)
<1>1. p \in Nat \ {0}
  BY SeriesTyped
<1>2. x \in Int /\ y \in Int /\ x * p <= a /\ b < (y * p) + p
  BY DayOfBar
<1> HIDE DEF p, x, y
<1>3. x * p < (y + 1) * p
  <2>1. (y + 1) * p = (y * p) + p /\ x * p \in Int /\ y * p \in Int
    BY <1>1, <1>2
  <2>2. \A u, v \in Int : u <= a /\ b < v + p => u < v + p
    BY <1>1
  <2>3. x * p < (y * p) + p
    BY <1>2, <2>1, <2>2
  <2>4. QED
    BY <2>1, <2>3
<1>4. ~(y + 1 <= x)
  <2>1. y + 1 <= x => (y + 1) * p <= x * p
    BY <1>1, <1>2
  <2>2. (y + 1) * p \in Int /\ x * p \in Int
    BY <1>1, <1>2
  <2>3. QED
    BY <1>3, <2>1, <2>2
<1>5. QED
  BY <1>2, <1>4 DEF x, y

(* Every day that the bars of a daily series have is its own bar. *)
LEMMA DailyBars ==
    ASSUME series \in Series, series.daily
    PROVE  \A b \in Int : DayOf(b) = b
<1>1. series.perDay = 1
  BY SeriesTyped
<1>2. \A b \in Int : b \div 1 = b
  OBVIOUS
<1>3. QED
  BY <1>1, <1>2 DEF DayOf

(* What is kept of the answer to a window, and where its bars may lie. *)
LEMMA KeptAnswer ==
    ASSUME PlanInv, NEW i \in 1..Len(answers)
    PROVE  /\ state # "none" /\ i \in 1..Len(windows)
           /\ windows[i] \in [start : Int, end : Int]
           /\ Days(windows[i]) \in SUBSET Int
           /\ windows[i].start <= windows[i].end
           /\ answers[i] \in SUBSET Int /\ answers[i] # {}
           /\ Accepted(windows[i], answers[i])
           /\ \A b \in answers[i] : DayOf(b) \in Days(windows[i])
           /\ answers[i] \subseteq BarsOf(Days(windows[i]))
<1>1. series \in Series /\ answers \in Seq(SUBSET Int) /\ Len(answers) \in Nat
  BY LenProperties DEF PlanInv
<1>2. state # "none"
  BY <1>1 DEF PlanInv
<1>3. Len(answers) <= Len(windows) /\ Len(windows) \in Nat
      /\ windows \in Seq([start : Int, end : Int])
  BY <1>2 DEF PlanInv, Divides
<1>4. i \in 1..Len(windows)
  BY <1>1, <1>3
<1>5. windows[i] \in [start : Int, end : Int] /\ windows[i].start <= windows[i].end
  BY <1>2, <1>3, <1>4, ElementOfSeq DEF PlanInv, Divides
<1>6. answers[i] \in SUBSET Int /\ Accepted(windows[i], answers[i])
  BY <1>1, ElementOfSeq DEF PlanInv
<1>7. Days(windows[i]) \in SUBSET Int
  BY <1>5 DEF Days
<1>8. answers[i] # {} /\ \A b \in answers[i] : DayOf(b) \in Days(windows[i])
  BY <1>6 DEF Accepted, InPeriod, DatesOf
<1>9. answers[i] \subseteq BarsOf(Days(windows[i]))
  BY <1>1, <1>6, <1>7, <1>8, BarsOfDays
<1>10. QED
  BY <1>2, <1>4, <1>5, <1>6, <1>7, <1>8, <1>9

LEMMA PlanTyped == ASSUME PlanInv PROVE TypeOK
<1>1. answers \in Seq(SUBSET Int) /\ Len(answers) \in Nat /\ DOMAIN answers = 1..Len(answers)
  BY LenProperties DEF PlanInv
<1>2. CASE state = "none"
  <2>1. Len(<<>>) = 0 /\ DOMAIN <<>> = {}
    OBVIOUS
  <2>2. QED
    BY <1>2, <2>1 DEF PlanInv, TypeOK
<1>3. CASE state # "none"
  <2>1. /\ windows \in Seq([start : Int, end : Int]) /\ DOMAIN windows = 1..Len(windows)
    BY <1>3, LenProperties DEF PlanInv, Divides
  <2>2. ASSUME NEW i \in DOMAIN windows PROVE {windows[i].start, windows[i].end} \subseteq Nat
    <3>1. windows[i] \in [start : Int, end : Int]
      BY <2>1, ElementOfSeq
    <3>2. windows[i].start \in Int /\ windows[i].end \in Int
      BY <3>1
    <3>3. period.start \in Nat /\ period.start <= windows[i].start
          /\ windows[i].start <= windows[i].end
      BY <1>3, <2>1 DEF PlanInv, Divides
    <3>4. QED
      BY <3>2, <3>3
  <2>3. \A i \in DOMAIN answers : answers[i] \subseteq BarsOf(Days(windows[i]))
    BY <1>1, KeptAnswer
  <2>4. QED
    BY <1>3, <2>2, <2>3 DEF PlanInv, TypeOK
<1>4. QED
  BY <1>2, <1>3

(* HistoryPlan!TypeOK, for every series, policy and sequence of answers.   *)
THEOREM PlanTypes == Spec => []TypeOK
BY PlanInvariant, PlanTyped, PTL

-----------------------------------------------------------------------------
(* PlanDividesPeriod: every day of the period is in exactly one window of   *)
(* every plan, and no other day is in any.                                 *)

LEMMA PlanDivides == ASSUME PlanInv PROVE PlanDividesPeriod
<1>1. windows # <<>> => state # "none"
  BY DEF PlanInv
<1>2. ASSUME state # "none", NEW d \in period.start - 1 .. period.end + 1
      PROVE  Cardinality({i \in DOMAIN windows : d \in Days(windows[i])})
                = IF d \in Days(period) THEN 1 ELSE 0
  <2>1. series \in Series
    BY DEF PlanInv
  <2>2. period.start \in Int /\ period.end \in Int
    BY <1>2, <2>1, SeriesTyped DEF PlanInv
  <2>3. Divides(windows, series.width, period.start, period.end)
    BY <1>2 DEF PlanInv
  <2>4. DOMAIN windows = 1..Len(windows) /\ Len(windows) \in Nat
        /\ \A i \in 1..Len(windows) : windows[i] \in [start : Int, end : Int]
    BY <2>3, LenProperties, ElementOfSeq DEF Divides
  <2>5. \A i \in 1..Len(windows) : windows[i].start \in Int /\ windows[i].end \in Int
    BY <2>4
  <2> DEFINE holds == {i \in DOMAIN windows : d \in Days(windows[i])}
  <2>6. CASE d \in Days(period)
    <3>1. d \in period.start .. period.end
      BY <2>6 DEF Days
    <3>2. PICK i \in 1..Len(windows) : d \in windows[i].start .. windows[i].end
      BY <2>3, <3>1 DEF Divides
    <3>3. ASSUME NEW j \in 1..Len(windows), d \in windows[j].start .. windows[j].end
          PROVE  j = i
      <4>1. ~(i < j)
        <5>1. i < j => windows[i].end < windows[j].start
          BY <2>3 DEF Divides
        <5>2. QED
          BY <2>2, <2>5, <3>2, <3>3, <5>1
      <4>2. ~(j < i)
        <5>1. j < i => windows[j].end < windows[i].start
          BY <2>3 DEF Divides
        <5>2. QED
          BY <2>2, <2>5, <3>2, <3>3, <5>1
      <4>3. QED
        BY <2>4, <4>1, <4>2
    <3>4. holds = {i}
      BY <2>4, <3>2, <3>3 DEF Days
    <3>5. QED
      BY <2>6, <3>4, FS_Singleton
  <2>7. CASE d \notin Days(period)
    <3>1. d \notin period.start .. period.end
      BY <2>7 DEF Days
    <3>2. ASSUME NEW i \in 1..Len(windows) PROVE d \notin windows[i].start .. windows[i].end
      <4>1. period.start <= windows[i].start /\ windows[i].end <= period.end
        BY <2>3 DEF Divides
      <4>2. QED
        BY <2>2, <2>5, <3>1, <4>1
    <3>3. holds = {}
      BY <2>4, <3>2 DEF Days
    <3>4. QED
      BY <2>7, <3>3, FS_EmptySet
  <2>8. QED
    BY <2>6, <2>7
<1>3. QED
  BY <1>1, <1>2 DEF PlanDividesPeriod

THEOREM PeriodDivided == Spec => []PlanDividesPeriod
BY PlanInvariant, PlanDivides, PTL

-----------------------------------------------------------------------------
(* Gaps.                                                                   *)

(* The bars of a window have a first one and a last one. *)
LEMMA FirstAndLast ==
    ASSUME series \in Series, NEW w \in [start : Int, end : Int],
           NEW bars \in SUBSET Int, bars # {}, \A b \in bars : DayOf(b) \in Days(w)
    PROVE  /\ Min(bars) \in bars /\ \A b \in bars : Min(bars) <= b
           /\ Max(bars) \in bars /\ \A b \in bars : b <= Max(bars)
<1> DEFINE p == series.perDay
<1>1. p \in Nat \ {0} /\ w.start \in Int /\ w.end \in Int
  BY SeriesTyped
<1>2. w.start * p \in Int /\ (w.end * p) + p \in Int
  BY <1>1
<1>3. ASSUME NEW b \in bars PROVE w.start * p <= b /\ b <= (w.end * p) + p
  <2> DEFINE d == DayOf(b)
  <2>1. b \in Int /\ d \in Int /\ d * p <= b /\ b < (d * p) + p
    BY DayOfBar
  <2>2. w.start <= d /\ d <= w.end
    BY <1>1, <2>1 DEF Days
  <2> HIDE DEF p, d
  <2>3. d * p \in Int /\ w.end * p \in Int /\ w.start * p <= d * p /\ d * p <= w.end * p
    BY <1>1, <2>1, <2>2
  <2>4. QED
    BY <1>1, <1>2, <2>1, <2>3
<1> HIDE DEF p
<1>4. PICK low \in Int, high \in Int : \A b \in bars : low <= b /\ b <= high
  BY <1>2, <1>3
<1>5. Min(bars) \in bars /\ \A b \in bars : Min(bars) <= b
  BY <1>4, MinOfBounded
<1>6. Max(bars) \in bars /\ \A b \in bars : b <= Max(bars)
  BY <1>4, MaxOfBounded
<1>7. QED
  BY <1>5, <1>6

(* A number missing between two bars lies between two successive ones. *)
LEMMA Straddle ==
    ASSUME NEW S \in SUBSET Int, NEW lo \in S, NEW hi \in S, NEW c \in Int,
           lo < c, c < hi, c \notin S
    PROVE  \E a, b \in S : a < c /\ c < b /\ <<a, b>> \in Successive(S)
<1> DEFINE L == {x \in S : x < c}
           U == {x \in S : c < x}
<1>0. \A x \in S : x \in Int
  OBVIOUS
<1>1. PICK a : a \in L /\ \A x \in L : x <= a
  <2>1. L \in SUBSET Int /\ lo \in L
    OBVIOUS
  <2>2. ASSUME NEW x \in L PROVE x <= c
    BY <1>0
  <2> HIDE DEF L
  <2>3. QED
    BY <2>1, <2>2, MaxOfBounded
<1>2. PICK b : b \in U /\ \A x \in U : b <= x
  <2>1. U \in SUBSET Int /\ hi \in U
    OBVIOUS
  <2>2. ASSUME NEW x \in U PROVE c <= x
    BY <1>0
  <2> HIDE DEF U
  <2>3. QED
    BY <2>1, <2>2, MinOfBounded
<1>3. a \in S /\ b \in S /\ a \in Int /\ b \in Int /\ a < c /\ c < b
  BY <1>1, <1>2
<1>4. ASSUME NEW x \in S PROVE x <= a \/ b <= x
  BY <1>1, <1>2
<1>5. <<a, b>> \in Successive(S)
  BY <1>3, <1>4 DEF Successive
<1>6. QED
  BY <1>3, <1>5

(* So where the controls pass, they allow the gap around it. *)
LEMMA GapAllowed ==
    ASSUME NEW S \in SUBSET Int, NoMissingBar(S), NEW lo \in S, NEW hi \in S,
           NEW c \in Int, lo < c, c < hi, c \notin S
    PROVE  \E a, b \in S : a < c /\ c < b /\ AllowedGap(a, b)
<1>1. PICK a, b \in S : a < c /\ c < b /\ <<a, b>> \in Successive(S)
  BY Straddle
<1>2. b - a # 1
  BY <1>1
<1>3. <<a, b>>[1] = a /\ <<a, b>>[2] = b
  OBVIOUS
<1>4. AllowedGap(a, b)
  BY <1>1, <1>2, <1>3 DEF NoMissingBar
<1>5. QED
  BY <1>1, <1>4

(* The bars that an accepted answer of a crypto series lacks. *)
LEMMA CryptoAnswer ==
    ASSUME series \in Series, series.asset = "crypto",
           NEW w \in [start : Int, end : Int], NEW bars \in SUBSET Int, bars # {},
           Accepted(w, bars), \A b \in bars : DayOf(b) \in Days(w),
           NEW c \in BarsOf(Days(w)) \ bars
    PROVE  /\ ~series.daily
           /\ \/ DayOf(c) = w.start /\ c < Min(bars)
              \/ DayOf(c) = w.end /\ c > Max(bars)
<1>1. PICK first, last : first = Min(bars) /\ last = Max(bars)
  OBVIOUS
<1>2. /\ first \in bars /\ last \in bars /\ first \in Int /\ last \in Int
      /\ w.start \in Int /\ w.end \in Int
  BY <1>1, FirstAndLast
<1>3. c \in Int /\ DayOf(c) \in Days(w)
  <2>1. Days(w) \in SUBSET Int
    BY <1>2 DEF Days
  <2>2. QED
    BY <2>1, BarsOfDays
<1>4. /\ DayOf(first) \in Int /\ DayOf(last) \in Int /\ DayOf(c) \in Int
      /\ w.start <= DayOf(first) /\ DayOf(last) <= w.end
      /\ w.start <= DayOf(c) /\ DayOf(c) <= w.end
  <2>1. DayOf(first) \in Int /\ DayOf(last) \in Int /\ DayOf(c) \in Int
    BY <1>2, <1>3, DayOfBar
  <2>2. QED
    BY <1>2, <1>3, <2>1 DEF Days
<1>5. DayOf(first) <= w.start /\ DayOf(last) >= w.end
  <2>1. EarliestPermitted(w) = w.start /\ LatestPermitted(w) = w.end
    BY DEF EarliestPermitted, LatestPermitted
  <2>2. QED
    BY <1>1, <2>1 DEF Accepted
<1>6. c < first \/ c > last
  <2>1. SUFFICES ASSUME first < c, c < last PROVE FALSE
    BY <1>2, <1>3
  <2>2. NoMissingBar(bars)
    BY DEF Accepted
  <2>3. \E a, b \in bars : AllowedGap(a, b)
    BY <1>2, <1>3, <2>1, <2>2, GapAllowed
  <2>4. QED
    BY <2>3 DEF AllowedGap
<1>7. CASE c < first
  <2>1. DayOf(c) <= DayOf(first)
    BY <1>2, <1>3, <1>7, DaysInOrder
  <2>2. DayOf(c) = w.start /\ DayOf(first) = w.start
    BY <1>2, <1>4, <1>5, <2>1
  <2>3. series.daily => DayOf(c) = c /\ DayOf(first) = first
    BY <1>2, <1>3, DailyBars
  <2>4. QED
    BY <1>1, <1>2, <1>3, <1>7, <2>2, <2>3, SeriesTyped
<1>8. CASE c > last
  <2>1. DayOf(last) <= DayOf(c)
    BY <1>2, <1>3, <1>8, DaysInOrder
  <2>2. DayOf(c) = w.end /\ DayOf(last) = w.end
    BY <1>2, <1>4, <1>5, <2>1
  <2>3. series.daily => DayOf(c) = c /\ DayOf(last) = last
    BY <1>2, <1>3, DailyBars
  <2>4. QED
    BY <1>1, <1>2, <1>3, <1>8, <2>2, <2>3, SeriesTyped
<1>9. QED
  BY <1>6, <1>7, <1>8

LEMMA PlanCrypto == ASSUME PlanInv PROVE CryptoGapsAtBordersOnly
<1> SUFFICES ASSUME state = "COMPLETE", series.asset = "crypto", NEW i \in DOMAIN windows,
                    NEW b \in BarsOf(Days(windows[i])) \ answers[i]
             PROVE  /\ ~series.daily
                    /\ \/ DayOf(b) = windows[i].start /\ b < Min(answers[i])
                       \/ DayOf(b) = windows[i].end /\ b > Max(answers[i])
  BY DEF CryptoGapsAtBordersOnly
<1>1. DOMAIN windows = 1..Len(windows) /\ Len(answers) = Len(windows)
  BY LenProperties DEF PlanInv, Divides
<1>2. i \in 1..Len(answers) /\ series \in Series
  BY <1>1 DEF PlanInv
<1>3. QED
  BY <1>2, KeptAnswer, CryptoAnswer

(* A complete plan of a crypto series lacks nothing but intraday bars at    *)
(* the outer borders of a window, whatever was answered.                   *)
THEOREM CryptoComplete == Spec => []CryptoGapsAtBordersOnly
BY PlanInvariant, PlanCrypto, PTL

-----------------------------------------------------------------------------
(* The two controls of a window's borders, and the silence they leave.     *)

(* The weekdays of a window, and the n-th of them. *)
LEMMA OpenDays ==
    ASSUME NEW w \in [start : Int, end : Int]
    PROVE  /\ w.start \in Int /\ w.end \in Int
           /\ Weekdays(w) \in SUBSET Int /\ IsFiniteSet(Weekdays(w))
           /\ Cardinality(Weekdays(w)) \in Nat
           /\ \A d \in Weekdays(w) : w.start <= d /\ d <= w.end
           /\ Weekdays(w) # {} => Cardinality(Weekdays(w)) >= 1
<1>1. w.start \in Int /\ w.end \in Int
  OBVIOUS
<1>2. IsFiniteSet(Days(w)) /\ Days(w) \in SUBSET Int
  BY <1>1, FS_Interval DEF Days
<1>3. Weekdays(w) \subseteq Days(w)
  BY DEF Weekdays
<1>4. IsFiniteSet(Weekdays(w)) /\ Cardinality(Weekdays(w)) \in Nat
  BY <1>2, <1>3, FS_Subset, FS_CardinalityType
<1>5. Weekdays(w) # {} => Cardinality(Weekdays(w)) # 0
  BY <1>4, FS_EmptySet
<1>6. QED
  BY <1>1, <1>2, <1>3, <1>4, <1>5 DEF Days

LEMMA NthIs ==
    ASSUME NEW w \in [start : Int, end : Int],
           NEW n \in Nat, n < Cardinality(Weekdays(w))
    PROVE  /\ Nth(Weekdays(w), n) \in Weekdays(w)
           /\ Cardinality(Below(Weekdays(w), Nth(Weekdays(w), n))) = n
<1> DEFINE open == Weekdays(w)
<1>1. /\ open \in SUBSET Int /\ IsFiniteSet(open) /\ w.start \in Int
      /\ \A d \in open : w.start <= d
  BY OpenDays
<1> HIDE DEF open
<1>2. n < Cardinality(open)
  BY DEF open
<1>3. \E d \in open : Cardinality(Below(open, d)) = n
  BY <1>1, <1>2, NthExists
<1>4. \E d \in open : Cardinality({e \in open : e < d}) = n
  BY <1>3 DEF Below
<1>5. Nth(open, n) \in open /\ Cardinality({e \in open : e < Nth(open, n)}) = n
  BY <1>4 DEF Nth
<1>6. QED
  BY <1>5 DEF Below, open

(* Few weekdays of a window are before its first bar. *)
LEMMA HeadOfWindow ==
    ASSUME series \in Series, series.asset # "crypto", NEW w \in [start : Int, end : Int],
           NEW f \in Int, f <= EarliestPermitted(w)
    PROVE  /\ IsFiniteSet(Below(Weekdays(w), f))
           /\ Cardinality(Below(Weekdays(w), f)) <= Boundary
<1> DEFINE open == Weekdays(w)
<1>1. /\ open \in SUBSET Int /\ IsFiniteSet(open) /\ Cardinality(open) \in Nat
      /\ open # {} => Cardinality(open) >= 1
  BY OpenDays
<1>2. Boundary \in Nat
  BY PlanAssumption
<1>3. CASE open = {}
  <2>1. Below(open, f) = {}
    BY <1>3 DEF Below
  <2>2. QED
    BY <1>2, <2>1, FS_EmptySet
<1>4. CASE open # {}
  <2> DEFINE n == Least(Boundary, Cardinality(open) - 1)
             z == Nth(open, n)
  <2>1. n \in Nat /\ n < Cardinality(open) /\ n <= Boundary
    BY <1>1, <1>2, <1>4 DEF Least
  <2> HIDE DEF n
  <2>2. z \in open /\ Cardinality(Below(open, z)) = n
    BY <2>1, NthIs
  <2>3. f <= z
    BY <1>4 DEF EarliestPermitted, n
  <2> HIDE DEF z, open
  <2>4. Below(open, f) \subseteq Below(open, z)
    <3>1. z \in Int /\ \A x \in open : x \in Int
      BY <1>1, <2>2
    <3>2. \A x \in open : x < f => x < z
      BY <2>3, <3>1
    <3>3. QED
      BY <3>2 DEF Below
  <2>5. IsFiniteSet(Below(open, z))
    BY <1>1, FS_Subset DEF Below
  <2>6. /\ IsFiniteSet(Below(open, f)) /\ Cardinality(Below(open, f)) \in Nat
        /\ Cardinality(Below(open, f)) <= n
    BY <2>2, <2>4, <2>5, FS_Subset, FS_CardinalityType
  <2>7. QED
    BY <1>2, <2>1, <2>6 DEF open
<1>5. QED
  BY <1>3, <1>4

(* And few after its last one. *)
Above(S, d) == {e \in S : d < e}

LEMMA Around ==
    ASSUME NEW S \in SUBSET Int, IsFiniteSet(S), NEW z \in S
    PROVE  /\ IsFiniteSet(Above(S, z)) /\ Cardinality(Above(S, z)) \in Nat
           /\ Cardinality(Below(S, z)) \in Nat
           /\ Cardinality(S) = Cardinality(Below(S, z)) + 1 + Cardinality(Above(S, z))
<1> DEFINE B == Below(S, z)
           A == Above(S, z)
<1>1. \A x \in S : x \in Int
  OBVIOUS
<1>2. S = (B \cup {z}) \cup A
  <2>1. ASSUME NEW x \in S PROVE x < z \/ x = z \/ z < x
    BY <1>1
  <2>2. QED
    BY <2>1 DEF Below, Above
<1>3. z \notin B /\ (B \cup {z}) \cap A = {}
  <2>1. \A x \in S : ~(z < x /\ (x < z \/ x = z)) /\ ~(z < z)
    BY <1>1
  <2>2. QED
    BY <2>1 DEF Below, Above
<1>4. IsFiniteSet(A) /\ IsFiniteSet(B)
  BY FS_Subset DEF Above, Below
<1> HIDE DEF A, B
<1>5. IsFiniteSet(B \cup {z}) /\ Cardinality(B \cup {z}) = Cardinality(B) + 1
  BY <1>3, <1>4, FS_AddElement
<1>6. Cardinality({}) = 0
  BY FS_EmptySet
<1>7. Cardinality((B \cup {z}) \cup A)
         = Cardinality(B \cup {z}) + Cardinality(A) - Cardinality((B \cup {z}) \cap A)
  BY <1>4, <1>5, FS_Union
<1>8. Cardinality(A) \in Nat /\ Cardinality(B) \in Nat
  BY <1>4, FS_CardinalityType
<1>9. Cardinality(S) = Cardinality(B) + 1 + Cardinality(A)
  <2>1. Cardinality(S) = Cardinality(B \cup {z}) + Cardinality(A) - 0
    BY <1>2, <1>3, <1>6, <1>7
  <2>2. QED
    BY <1>5, <1>8, <2>1
<1>10. QED
  BY <1>4, <1>8, <1>9 DEF A, B

LEMMA TailOfWindow ==
    ASSUME series \in Series, series.asset # "crypto", NEW w \in [start : Int, end : Int],
           NEW l \in Int, l >= LatestPermitted(w)
    PROVE  /\ IsFiniteSet(Above(Weekdays(w), l))
           /\ Cardinality(Above(Weekdays(w), l)) <= Boundary
<1> DEFINE open == Weekdays(w)
<1>1. /\ open \in SUBSET Int /\ IsFiniteSet(open) /\ Cardinality(open) \in Nat
      /\ open # {} => Cardinality(open) >= 1
  BY OpenDays
<1>2. Boundary \in Nat
  BY PlanAssumption
<1>3. CASE open = {}
  <2>1. Above(open, l) = {}
    BY <1>3 DEF Above
  <2>2. QED
    BY <1>2, <2>1, FS_EmptySet
<1>4. CASE open # {}
  <2> DEFINE n == Greatest(0, Cardinality(open) - Boundary - 1)
             z == Nth(open, n)
  <2>1. n \in Nat /\ n < Cardinality(open) /\ Cardinality(open) - 1 - n <= Boundary
    BY <1>1, <1>2, <1>4 DEF Greatest
  <2> HIDE DEF n
  <2>2. z \in open /\ Cardinality(Below(open, z)) = n
    BY <2>1, NthIs
  <2>3. l >= z
    BY <1>4 DEF LatestPermitted, n
  <2> HIDE DEF z, open
  <2>4. Above(open, l) \subseteq Above(open, z)
    <3>1. z \in Int /\ \A x \in open : x \in Int
      BY <1>1, <2>2
    <3>2. \A x \in open : l < x => z < x
      BY <2>3, <3>1
    <3>3. QED
      BY <3>2 DEF Above
  <2>5. /\ IsFiniteSet(Above(open, z)) /\ Cardinality(Above(open, z)) \in Nat
        /\ Cardinality(open) = n + 1 + Cardinality(Above(open, z))
    BY <1>1, <2>2, Around
  <2>6. /\ IsFiniteSet(Above(open, l)) /\ Cardinality(Above(open, l)) \in Nat
        /\ Cardinality(Above(open, l)) <= Cardinality(Above(open, z))
    BY <2>4, <2>5, FS_Subset, FS_CardinalityType
  <2>7. QED
    BY <1>1, <1>2, <2>1, <2>5, <2>6 DEF open
<1>5. QED
  BY <1>3, <1>4

(* A daily bar within a gap that the controls allow is one of three days.  *)
LEMMA GapOfDays ==
    ASSUME series.daily, NEW a \in Int, NEW b \in Int, AllowedGap(a, b),
           NEW d \in Int, NEW e \in Int, a < d, e < b
    PROVE  IsFiniteSet(d..e) /\ Cardinality(d..e) \in Nat /\ Cardinality(d..e) <= 3
<1>1. b - a <= 4
  BY DEF AllowedGap
<1>2. IsFiniteSet(d..e) /\ Cardinality(d..e) = IF d > e THEN 0 ELSE e - d + 1
  BY FS_Interval
<1>3. QED
  BY <1>1, <1>2

(* Where an accepted answer of a daily series has no bar from d to e: the   *)
(* days lie in a gap, before the first bar, or after the last one.         *)
LEMMA SilentInWindow ==
    ASSUME series \in Series, series.daily, series.asset # "crypto",
           NEW w \in [start : Int, end : Int], NEW bars \in SUBSET Int, bars # {},
           Accepted(w, bars), \A b \in bars : DayOf(b) \in Days(w),
           NEW d \in Int, NEW e \in Int, d <= e, \A b \in bars : b \notin d..e
    PROVE  \/ IsFiniteSet(d..e) /\ Cardinality(d..e) \in Nat /\ Cardinality(d..e) <= 3
           \/ \E f \in Int : e < f /\ f <= EarliestPermitted(w)
           \/ \E l \in Int : l < d /\ l >= LatestPermitted(w)
<1>1. PICK first, last : first = Min(bars) /\ last = Max(bars)
  OBVIOUS
<1>2. /\ first \in bars /\ last \in bars /\ first \in Int /\ last \in Int
      /\ DayOf(first) = first /\ DayOf(last) = last
  BY <1>1, FirstAndLast, DailyBars
<1>3. first <= EarliestPermitted(w) /\ last >= LatestPermitted(w)
  BY <1>1, <1>2 DEF Accepted
<1>4. (first < d \/ e < first) /\ (last < d \/ e < last)
  BY <1>2
<1>5. CASE e < first
  BY <1>2, <1>3, <1>5
<1>6. CASE last < d
  BY <1>2, <1>3, <1>6
<1>7. CASE first < d /\ e < last
  <2>1. d < last /\ d \notin bars
    BY <1>2, <1>7
  <2>2. NoMissingBar(bars)
    BY DEF Accepted
  <2>3. PICK a, b \in bars : a < d /\ d < b /\ AllowedGap(a, b)
    BY <1>2, <1>7, <2>1, <2>2, GapAllowed
  <2>4. a \in Int /\ b \in Int /\ e < b
    BY <2>3
  <2>5. QED
    BY <2>3, <2>4, GapOfDays
<1>8. QED
  BY <1>4, <1>5, <1>6, <1>7

(* The weekdays from d to e, when those up to m are after the last bar of a *)
(* window and those from m + 1 on before the first one of another.         *)
Open(d, e) == {x \in d..e : Weekday(x)}

LEMMA OpenTyped ==
    ASSUME NEW d \in Int, NEW e \in Int
    PROVE  /\ IsFiniteSet(Open(d, e)) /\ Cardinality(Open(d, e)) \in Nat
           /\ Open(d, e) \in SUBSET Int
           /\ Cardinality(Open(d, e)) <= Cardinality(d..e)
<1>1. IsFiniteSet(d..e)
  BY FS_Interval
<1>2. Open(d, e) \subseteq d..e
  BY DEF Open
<1>3. QED
  BY <1>1, <1>2, FS_Subset, FS_CardinalityType

LEMMA OpenInHead ==
    ASSUME series \in Series, series.asset # "crypto", NEW w \in [start : Int, end : Int],
           NEW d \in Int, NEW e \in Int, w.start <= d, e <= w.end,
           NEW f \in Int, e < f, f <= EarliestPermitted(w)
    PROVE  Cardinality(Open(d, e)) <= Boundary
<1>1. IsFiniteSet(Below(Weekdays(w), f)) /\ Cardinality(Below(Weekdays(w), f)) <= Boundary
  BY HeadOfWindow
<1>2. ASSUME NEW x \in Open(d, e) PROVE x \in Below(Weekdays(w), f)
  <2>1. x \in Int /\ d <= x /\ x <= e /\ Weekday(x) /\ w.start \in Int /\ w.end \in Int
    BY DEF Open
  <2>2. x \in w.start .. w.end /\ x < f
    BY <2>1
  <2>3. QED
    BY <2>1, <2>2 DEF Below, Weekdays, Days
<1>3. Cardinality(Open(d, e)) <= Cardinality(Below(Weekdays(w), f))
  BY <1>1, <1>2, FS_Subset
<1>4. Cardinality(Below(Weekdays(w), f)) \in Nat /\ Cardinality(Open(d, e)) \in Nat /\ Boundary \in Nat
  BY <1>1, FS_CardinalityType, OpenTyped, PlanAssumption
<1>5. QED
  BY <1>1, <1>3, <1>4

LEMMA OpenInTail ==
    ASSUME series \in Series, series.asset # "crypto", NEW w \in [start : Int, end : Int],
           NEW d \in Int, NEW e \in Int, w.start <= d, e <= w.end,
           NEW l \in Int, l < d, l >= LatestPermitted(w)
    PROVE  Cardinality(Open(d, e)) <= Boundary
<1>1. IsFiniteSet(Above(Weekdays(w), l)) /\ Cardinality(Above(Weekdays(w), l)) <= Boundary
  BY TailOfWindow
<1>2. ASSUME NEW x \in Open(d, e) PROVE x \in Above(Weekdays(w), l)
  <2>1. x \in Int /\ d <= x /\ x <= e /\ Weekday(x) /\ w.start \in Int /\ w.end \in Int
    BY DEF Open
  <2>2. x \in w.start .. w.end /\ l < x
    BY <2>1
  <2>3. QED
    BY <2>1, <2>2 DEF Above, Weekdays, Days
<1>3. Cardinality(Open(d, e)) <= Cardinality(Above(Weekdays(w), l))
  BY <1>1, <1>2, FS_Subset
<1>4. Cardinality(Above(Weekdays(w), l)) \in Nat /\ Cardinality(Open(d, e)) \in Nat /\ Boundary \in Nat
  BY <1>1, FS_CardinalityType, OpenTyped, PlanAssumption
<1>5. QED
  BY <1>1, <1>3, <1>4

(* The silence is no longer than stated, in terms of the windows d and e    *)
(* are in.                                                                 *)
LEMMA SilenceInOneWindow ==
    ASSUME PlanInv, series.daily, series.asset # "crypto", NEW i \in 1..Len(answers),
           NEW d \in Int, NEW e \in Int, d <= e,
           windows[i].start <= d, e <= windows[i].end,
           \A b \in answers[i] : b \notin d..e
    PROVE  Cardinality(Open(d, e)) <= LongestSilence
<1> DEFINE w == windows[i]
           bars == answers[i]
<1>1. /\ series \in Series /\ w \in [start : Int, end : Int] /\ bars \in SUBSET Int
      /\ bars # {} /\ Accepted(w, bars) /\ \A b \in bars : DayOf(b) \in Days(w)
      /\ w.start <= d /\ e <= w.end /\ \A b \in bars : b \notin d..e
  BY KeptAnswer DEF PlanInv
<1> HIDE DEF w, bars
<1>2. Boundary \in Nat /\ Cardinality(Open(d, e)) \in Nat
      /\ Cardinality(Open(d, e)) <= Cardinality(d..e)
  BY OpenTyped, PlanAssumption
<1>3. \/ IsFiniteSet(d..e) /\ Cardinality(d..e) \in Nat /\ Cardinality(d..e) <= 3
      \/ \E f \in Int : e < f /\ f <= EarliestPermitted(w)
      \/ \E l \in Int : l < d /\ l >= LatestPermitted(w)
  BY <1>1, SilentInWindow
<1>4. Cardinality(Open(d, e)) <= 3 \/ Cardinality(Open(d, e)) <= Boundary
  <2>1. CASE Cardinality(d..e) \in Nat /\ Cardinality(d..e) <= 3
    BY <1>2, <2>1
  <2>2. CASE \E f \in Int : e < f /\ f <= EarliestPermitted(w)
    BY <1>1, <2>2, OpenInHead
  <2>3. CASE \E l \in Int : l < d /\ l >= LatestPermitted(w)
    BY <1>1, <2>3, OpenInTail
  <2>4. QED
    BY <1>3, <2>1, <2>2, <2>3
<1>5. QED
  BY <1>2, <1>4 DEF LongestSilence, Greatest

LEMMA SilenceAcrossBorder ==
    ASSUME PlanInv, series.daily, series.asset # "crypto",
           NEW i \in 1..Len(answers), i + 1 \in 1..Len(answers),
           NEW d \in Int, NEW e \in Int,
           windows[i].start <= d, d <= windows[i].end,
           windows[i + 1].start <= e, e <= windows[i + 1].end,
           \A k \in 1..Len(answers), b \in Int : b \in answers[k] => b \notin d..e
    PROVE  Cardinality(Open(d, e)) <= LongestSilence
<1> DEFINE v == windows[i]
           w == windows[i + 1]
<1>1. /\ series \in Series /\ v \in [start : Int, end : Int]
      /\ answers[i] \in SUBSET Int /\ answers[i] # {} /\ Accepted(v, answers[i])
      /\ \A b \in answers[i] : DayOf(b) \in Days(v)
  BY KeptAnswer DEF PlanInv
<1>2. /\ w \in [start : Int, end : Int]
      /\ answers[i + 1] \in SUBSET Int /\ answers[i + 1] # {} /\ Accepted(w, answers[i + 1])
      /\ \A b \in answers[i + 1] : DayOf(b) \in Days(w)
  BY KeptAnswer
<1>3. w.start = v.end + 1
  <2>1. state # "none" /\ i + 1 \in 1..Len(windows)
    BY KeptAnswer
  <2>2. i \in 1..(Len(windows) - 1)
    <3>1. i \in Nat \ {0} /\ Len(windows) \in Nat
      BY <2>1, LenProperties DEF PlanInv, Divides
    <3>2. QED
      BY <2>1, <3>1
  <2>3. QED
    BY <2>1, <2>2 DEF PlanInv, Divides
<1>4. v.start \in Int /\ v.end \in Int /\ w.start \in Int /\ w.end \in Int /\ Boundary \in Nat
  BY <1>1, <1>2, PlanAssumption
<1>5. v.start <= d /\ d <= v.end /\ w.start <= e /\ e <= w.end
  OBVIOUS
<1>6. \A b \in answers[i] : b \notin d..e
  BY <1>1
<1>7. \A b \in answers[i + 1] : b \notin d..e
  BY <1>2
<1> HIDE DEF v, w
<1>8. Cardinality(Open(d, v.end)) <= Boundary
  <2>1. PICK l : l = Max(answers[i])
    OBVIOUS
  <2>2. l \in answers[i] /\ l \in Int /\ DayOf(l) = l /\ l >= LatestPermitted(v)
    <3>1. l \in answers[i] /\ l \in Int
      BY <1>1, <2>1, FirstAndLast
    <3>2. DayOf(l) = l
      BY <1>1, <3>1, DailyBars
    <3>3. DayOf(Max(answers[i])) >= LatestPermitted(v)
      BY <1>1 DEF Accepted
    <3>4. QED
      BY <2>1, <3>1, <3>2, <3>3
  <2>3. l < d
    <3>1. l <= v.end /\ l \notin d..e
      BY <1>1, <1>4, <1>6, <2>2 DEF Days
    <3>2. QED
      BY <1>3, <1>4, <1>5, <2>2, <3>1
  <2>4. QED
    BY <1>1, <1>4, <1>5, <2>2, <2>3, OpenInTail
<1>9. Cardinality(Open(w.start, e)) <= Boundary
  <2>1. PICK f : f = Min(answers[i + 1])
    OBVIOUS
  <2>2. f \in answers[i + 1] /\ f \in Int /\ DayOf(f) = f /\ f <= EarliestPermitted(w)
    <3>1. f \in answers[i + 1] /\ f \in Int
      BY <1>1, <1>2, <2>1, FirstAndLast
    <3>2. DayOf(f) = f
      BY <1>1, <3>1, DailyBars
    <3>3. DayOf(Min(answers[i + 1])) <= EarliestPermitted(w)
      BY <1>2 DEF Accepted
    <3>4. QED
      BY <2>1, <3>1, <3>2, <3>3
  <2>3. e < f
    <3>1. w.start <= f /\ f \notin d..e
      BY <1>2, <1>4, <1>7, <2>2 DEF Days
    <3>2. QED
      BY <1>3, <1>4, <1>5, <2>2, <3>1
  <2>4. QED
    BY <1>1, <1>2, <1>4, <1>5, <2>2, <2>3, OpenInHead
<1>10. Open(d, e) = Open(d, v.end) \cup Open(w.start, e)
  <2>1. \A x \in Int : x \in d..e <=> x \in d..v.end \/ x \in w.start..e
    BY <1>3, <1>4, <1>5
  <2>2. QED
    BY <1>4, <2>1 DEF Open
<1>11. /\ IsFiniteSet(Open(d, v.end)) /\ Cardinality(Open(d, v.end)) \in Nat
       /\ IsFiniteSet(Open(w.start, e)) /\ Cardinality(Open(w.start, e)) \in Nat
  BY <1>4, OpenTyped
<1>12. Cardinality(Open(d, e)) <= 2 * Boundary
  <2> DEFINE A == Open(d, v.end)
             B == Open(w.start, e)
  <2> HIDE DEF A, B
  <2>1. Cardinality(A \cup B) = Cardinality(A) + Cardinality(B) - Cardinality(A \cap B)
    BY <1>11, FS_Union DEF A, B
  <2>2. IsFiniteSet(A \cap B) /\ Cardinality(A \cap B) \in Nat
    BY <1>11, FS_Subset, FS_CardinalityType DEF A
  <2>3. Cardinality(A) \in Nat /\ Cardinality(B) \in Nat
        /\ Cardinality(A) <= Boundary /\ Cardinality(B) <= Boundary
    BY <1>8, <1>9, <1>11 DEF A, B
  <2>4. Cardinality(A \cup B) <= 2 * Boundary
    BY <1>4, <2>1, <2>2, <2>3
  <2>5. QED
    BY <1>10, <2>4 DEF A, B
<1>13. Cardinality(Open(d, e)) \in Nat
  BY OpenTyped
<1>14. QED
  BY <1>4, <1>12, <1>13 DEF LongestSilence, Greatest

LEMMA PlanSilence == ASSUME PlanInv PROVE SilenceIsBounded
<1> SUFFICES ASSUME state = "COMPLETE", series.asset # "crypto", series.daily,
                    NEW d \in {x \in Days(period) : Weekday(x)},
                    NEW e \in {x \in Days(period) : Weekday(x)},
                    Cardinality({x \in d..e : Weekday(x)}) > LongestSilence,
                    DatesOf(Acquired) \cap (d..e) = {}
             PROVE  FALSE
  BY DEF SilenceIsBounded
<1>1. series \in Series /\ Len(answers) = Len(windows) /\ Len(windows) \in Nat
      /\ DOMAIN answers = 1..Len(answers)
      /\ Divides(windows, series.width, period.start, period.end)
  BY LenProperties DEF PlanInv, Divides
<1>2. d \in Int /\ e \in Int /\ d \in period.start..period.end /\ e \in period.start..period.end
  <2>1. d \in period.start..period.end /\ e \in period.start..period.end
    BY DEF Days
  <2>2. period.start \in Int /\ period.end \in Int
    BY <1>1, SeriesTyped DEF PlanInv
  <2>3. QED
    BY <2>1, <2>2
<1>3. ~(Cardinality(Open(d, e)) <= LongestSilence) /\ Cardinality(Open(d, e)) \in Nat
  <2>1. Cardinality(Open(d, e)) > LongestSilence
    BY DEF Open
  <2>2. Cardinality(Open(d, e)) \in Nat /\ LongestSilence \in Nat
    BY <1>2, OpenTyped, PlanAssumption DEF LongestSilence, Greatest
  <2>3. QED
    BY <2>1, <2>2
<1>4. d <= e
  <2>1. SUFFICES ASSUME e < d PROVE FALSE
    BY <1>2
  <2>2. Open(d, e) = {}
    BY <1>2, <2>1 DEF Open
  <2>3. Cardinality(Open(d, e)) = 0
    BY <2>2, FS_EmptySet
  <2>4. 0 <= LongestSilence
    BY PlanAssumption DEF LongestSilence, Greatest
  <2>5. QED
    BY <1>3, <2>3, <2>4
<1>5. \A k \in 1..Len(answers), b \in Int : b \in answers[k] => b \notin d..e
  <2>1. ASSUME NEW k \in 1..Len(answers), NEW b \in Int, b \in answers[k] PROVE b \notin d..e
    <3>1. b \in Acquired
      BY <1>1, <2>1 DEF Acquired
    <3>2. DayOf(b) = b
      BY <1>1, DailyBars
    <3>3. b \in DatesOf(Acquired)
      BY <3>1, <3>2 DEF DatesOf
    <3>4. QED
      BY <3>3
  <2>2. QED
    BY <2>1
<1>6. PICK i \in 1..Len(windows) : d \in windows[i].start .. windows[i].end
  BY <1>1, <1>2 DEF Divides
<1>7. PICK j \in 1..Len(windows) : e \in windows[j].start .. windows[j].end
  BY <1>1, <1>2 DEF Divides
<1>8. \A k \in 1..Len(windows) : windows[k].start \in Int /\ windows[k].end \in Int
  <2>1. \A k \in 1..Len(windows) : windows[k] \in [start : Int, end : Int]
    BY <1>1, ElementOfSeq DEF Divides
  <2>2. QED
    BY <2>1
<1>9. \A k, m \in 1..Len(windows) : k < m => windows[k].end < windows[m].start
  BY <1>1 DEF Divides
<1>10. i \in Nat /\ j \in Nat /\ windows[i].start <= d /\ d <= windows[i].end
       /\ windows[j].start <= e /\ e <= windows[j].end
  BY <1>1, <1>2, <1>6, <1>7, <1>8
<1>11. ~(j < i)
  <2>1. SUFFICES ASSUME j < i PROVE FALSE
    OBVIOUS
  <2>2. windows[j].end < windows[i].start
    BY <1>9, <2>1
  <2>3. windows[i].start \in Int /\ windows[j].end \in Int
    BY <1>8
  <2>4. QED
    BY <1>2, <1>4, <1>10, <2>2, <2>3
<1>12. CASE j = i
  <2>1. \A b \in answers[i] : b \notin d..e
    <3>1. answers[i] \in SUBSET Int
      BY <1>1, KeptAnswer
    <3>2. QED
      BY <1>1, <1>5, <3>1
  <2>2. Cardinality(Open(d, e)) <= LongestSilence
    BY <1>1, <1>2, <1>4, <1>10, <1>12, <2>1, SilenceInOneWindow
  <2>3. QED
    BY <1>3, <2>2
<1>13. CASE j = i + 1
  <2>1. Cardinality(Open(d, e)) <= LongestSilence
    BY <1>1, <1>2, <1>5, <1>10, <1>13, SilenceAcrossBorder
  <2>2. QED
    BY <1>3, <2>1
<1>14. CASE i + 1 < j
  <2>1. i + 1 \in 1..Len(answers) /\ i + 1 \in 1..Len(windows) /\ i < i + 1
    BY <1>1, <1>10, <1>14
  <2>2. PICK b \in answers[i + 1] : DayOf(b) \in Days(windows[i + 1]) /\ b \in Int
    BY <2>1, KeptAnswer
  <2>3. DayOf(b) = b
    BY <1>1, <2>2, DailyBars
  <2>4. windows[i + 1].start <= b /\ b <= windows[i + 1].end
    BY <1>8, <2>1, <2>2, <2>3 DEF Days
  <2>5. windows[i].end < windows[i + 1].start /\ windows[i + 1].end < windows[j].start
    BY <1>9, <1>14, <2>1
  <2>6. windows[i].end \in Int /\ windows[i + 1].start \in Int
        /\ windows[i + 1].end \in Int /\ windows[j].start \in Int
    BY <1>8, <2>1
  <2>7. b \in d..e
    BY <1>2, <1>10, <2>2, <2>4, <2>5, <2>6
  <2>8. QED
    BY <1>5, <2>1, <2>2, <2>7
<1>15. QED
  BY <1>10, <1>11, <1>12, <1>13, <1>14

(* No run of weekdays without a bar in a complete daily plan is longer than *)
(* SilenceIsBounded says, in a period of any number of windows.            *)
THEOREM SilenceBounded == Spec => []SilenceIsBounded
BY PlanInvariant, PlanSilence, PTL

-----------------------------------------------------------------------------
(* The answer of a market that is in order passes all the controls.        *)

(* A window of a plan, as the controls see it. *)
WindowOf(w, last) ==
    /\ w \in [start : Int, end : Int] /\ last \in series.ends
    /\ 0 <= w.start /\ w.start <= w.end /\ w.end <= last
    /\ w.end - w.start + 1 <= series.width

LEMMA PlanWindow ==
    ASSUME PlanInv, NEW i \in DOMAIN windows
    PROVE  WindowOf(windows[i], period.end)
<1>1. state # "none"
  <2>1. DOMAIN <<>> = {}
    OBVIOUS
  <2>2. QED
    BY <2>1 DEF PlanInv
<1>2. i \in 1..Len(windows) /\ Divides(windows, series.width, period.start, period.end)
  BY <1>1, LenProperties DEF PlanInv, Divides
<1>3. windows[i] \in [start : Int, end : Int]
  BY <1>2, ElementOfSeq DEF Divides
<1>4. /\ period.start <= windows[i].start /\ windows[i].start <= windows[i].end
      /\ windows[i].end <= period.end
      /\ windows[i].end - windows[i].start + 1 <= series.width
  BY <1>2 DEF Divides
<1>5. period.start \in Nat /\ period.end \in series.ends
  BY <1>1 DEF PlanInv
<1>6. windows[i].start \in Int
  BY <1>3
<1>7. 0 <= windows[i].start
  BY <1>4, <1>5, <1>6
<1>8. QED
  BY <1>3, <1>4, <1>5, <1>7 DEF WindowOf

(* The bars of a set of days have the days' first and last, and no others. *)
LEMMA DaysOfBars ==
    ASSUME series \in Series, NEW w \in [start : Int, end : Int],
           NEW days \in SUBSET Days(w), days # {}
    PROVE  LET bars == BarsOf(days)
           IN  /\ bars \in SUBSET Int /\ bars # {} /\ DatesOf(bars) = days
               /\ \A c \in Int : c \in bars <=> DayOf(c) \in days
               /\ DayOf(Min(bars)) \in days /\ \A x \in days : DayOf(Min(bars)) <= x
               /\ DayOf(Max(bars)) \in days /\ \A x \in days : x <= DayOf(Max(bars))
<1> DEFINE bars == BarsOf(days)
<1>1. days \in SUBSET Int /\ series.perDay \in Nat \ {0}
  BY SeriesTyped DEF Days
<1>2. \A c : c \in bars <=> c \in Int /\ DayOf(c) \in days
  BY <1>1, BarsOfDays
<1>3. ASSUME NEW x \in days PROVE \E c \in bars : DayOf(c) = x
  <2> DEFINE c == (x * series.perDay) + 0
  <2>1. x \in Int /\ 0 \in 0..(series.perDay - 1)
    BY <1>1
  <2>2. c \in Int
    BY <1>1, <2>1
  <2>3. DayOf(c) = x
    BY <2>1, DayOfIs
  <2>4. QED
    BY <1>2, <1>3, <2>2, <2>3
<1> HIDE DEF bars
<1>4. bars \in SUBSET Int /\ bars # {}
  BY <1>2, <1>3
<1>5. DatesOf(bars) = days
  BY <1>2, <1>3 DEF DatesOf
<1>6. \A b \in bars : DayOf(b) \in Days(w)
  BY <1>2
<1>7. PICK first, last : first = Min(bars) /\ last = Max(bars)
  OBVIOUS
<1>8. /\ first \in bars /\ \A b \in bars : first <= b
      /\ last \in bars /\ \A b \in bars : b <= last
  BY <1>4, <1>6, <1>7, FirstAndLast
<1>9. ASSUME NEW x \in days PROVE DayOf(first) <= x /\ x <= DayOf(last)
  <2>1. PICK c \in bars : DayOf(c) = x
    BY <1>3
  <2>2. c \in Int /\ first \in Int /\ last \in Int /\ first <= c /\ c <= last
    BY <1>4, <1>8
  <2>3. DayOf(first) <= DayOf(c) /\ DayOf(c) <= DayOf(last)
    BY <2>2, DaysInOrder
  <2>4. QED
    BY <2>1, <2>3
<1>10. DayOf(first) \in days /\ DayOf(last) \in days
  BY <1>2, <1>8
<1>11. QED
  BY <1>2, <1>4, <1>5, <1>7, <1>9, <1>10 DEF bars

(* A bar that ends a gap is the next one if its day goes on or the days in  *)
(* between are all there.                                                  *)
LEMMA NextBar ==
    ASSUME series \in Series, NEW days \in SUBSET Int, NEW a \in Int, NEW b \in Int,
           <<a, b>> \in Successive(BarsOf(days)), DayOf(a + 1) \in days
    PROVE  b - a = 1
<1>1. a < b /\ \A c \in BarsOf(days) : c <= a \/ b <= c
  BY DEF Successive
<1>2. a + 1 \in BarsOf(days)
  BY BarsOfDays
<1>3. QED
  BY <1>1, <1>2

LEMMA MarketsGaps ==
    ASSUME OrderlyCalendar, series \in Series, NEW w, NEW last, WindowOf(w, last)
    PROVE  NoMissingBar(MarketsAnswer(w))
<1> DEFINE days == Sessions(w)
<1>1. w.start \in Int /\ w.end \in Int /\ last \in Nat
  BY SeriesTyped DEF WindowOf
<1>2. days \subseteq Days(w) /\ days \in SUBSET Int
  BY <1>1 DEF Sessions, Weekdays, Days
<1> HIDE DEF days
<1>3. SUFFICES ASSUME NEW ab \in Successive(BarsOf(days))
               PROVE  ab[2] - ab[1] = 1 \/ AllowedGap(ab[1], ab[2])
  BY DEF NoMissingBar, MarketsAnswer, days
<1>4. PICK a, b : a \in BarsOf(days) /\ b \in BarsOf(days) /\ ab = <<a, b>>
  BY DEF Successive
<1>5. /\ a \in Int /\ b \in Int /\ DayOf(a) \in days /\ DayOf(b) \in days
      /\ ab[1] = a /\ ab[2] = b
  BY <1>2, <1>4, BarsOfDays
<1>6. a < b /\ \A c \in BarsOf(days) : c <= a \/ b <= c
  BY <1>4 DEF Successive
<1>7. /\ DayOf(a) \in Int /\ DayOf(b) \in Int /\ DayOf(a + 1) \in Int
      /\ DayOf(a) <= DayOf(a + 1) /\ DayOf(a + 1) <= DayOf(b)
  <2>1. a + 1 \in Int /\ a <= a + 1 /\ a + 1 <= b
    BY <1>5, <1>6
  <2>2. QED
    BY <1>5, <2>1, DayOfBar, DaysInOrder
<1>8. CASE series.asset = "crypto"
  <2>1. days = Days(w)
    BY <1>8 DEF days, Sessions
  <2>2. DayOf(a + 1) \in days
    BY <1>1, <1>5, <1>7, <2>1 DEF Days
  <2>3. QED
    BY <1>2, <1>4, <1>5, <2>2, NextBar
<1>9. CASE series.asset # "crypto" /\ ~series.daily
  <2>1. CASE DayOf(a) = DayOf(b)
    <3>1. DayOf(a + 1) \in days
      BY <1>5, <1>7, <2>1
    <3>2. QED
      BY <1>2, <1>4, <1>5, <3>1, NextBar
  <2>2. CASE DayOf(a) # DayOf(b)
    BY <1>5, <1>9, <2>2 DEF AllowedGap
  <2>3. QED
    BY <2>1, <2>2
<1>10. CASE series.asset # "crypto" /\ series.daily
  <2>1. SUFFICES ASSUME ~(b - a <= 4) PROVE FALSE
    BY <1>5, <1>10 DEF AllowedGap
  <2>2. DayOf(a) = a /\ DayOf(b) = b
    BY <1>5, <1>10, DailyBars
  <2>3. w.start <= a /\ b <= w.end /\ 0 <= w.start /\ w.end <= last /\ last \in series.ends
    BY <1>1, <1>2, <1>5, <2>2 DEF Days, WindowOf
  <2>4. a + 1 \in 0..(last - 3)
    BY <1>1, <1>5, <2>1, <2>3
  <2>5. PICK d \in (a + 1)..(a + 1 + 3) : Weekday(d) /\ d \notin Closures
    <3>1. \A x \in 0..(last - 3) : \E d \in x..(x + 3) : Weekday(d) /\ d \notin Closures
      BY <1>10, <2>3 DEF OrderlyCalendar
    <3>2. QED
      BY <2>4, <3>1
  <2>6. d \in Int /\ a < d /\ d < b
    BY <1>5, <2>1, <2>5
  <2>7. d \in Days(w)
    BY <1>1, <1>5, <2>3, <2>6 DEF Days
  <2>8. d \in days
    BY <1>10, <2>5, <2>7 DEF days, Sessions, Weekdays
  <2>9. d \in BarsOf(days)
    <3>1. DayOf(d) = d
      BY <1>10, <2>6, DailyBars
    <3>2. QED
      BY <1>2, <2>6, <2>8, <3>1, BarsOfDays
  <2>10. QED
    BY <1>5, <1>6, <2>6, <2>9
<1>11. QED
  BY <1>8, <1>9, <1>10

(* Weekdays in a row on which the market is closed are few. *)
LEMMA ClosedInARow ==
    ASSUME OrderlyCalendar, series \in Series, series.asset # "crypto",
           NEW last \in series.ends, NEW a \in 0..last, NEW b \in 0..last,
           Open(a, b) \subseteq Closures
    PROVE  Cardinality(Open(a, b)) <= Boundary
<1>1. \A x, y \in 0..last : {d \in x..y : Weekday(d)} \subseteq Closures
                               => Cardinality({d \in x..y : Weekday(d)}) <= Boundary
  BY DEF OrderlyCalendar
<1>2. QED
  BY <1>1 DEF Open

LEMMA MarketsCoverage ==
    ASSUME OrderlyCalendar, series \in Series, NEW w, NEW last, WindowOf(w, last),
           Sessions(w) # {}
    PROVE  CoverageMet(w, MarketsAnswer(w))
<1> SUFFICES ASSUME series.asset # "crypto"
             PROVE  LET open == Weekdays(w)
                    IN  Cardinality(DatesOf(MarketsAnswer(w)) \cap open)
                          >= Greatest(1, Cardinality(open) - PermittedMissing(Cardinality(open)))
  BY DEF CoverageMet
<1> DEFINE open == Weekdays(w)
           held == open \ Closures
<1>1. /\ w \in [start : Int, end : Int] /\ w.start \in Int /\ w.end \in Int
      /\ w.start \in 0..last /\ w.end \in 0..last /\ w.end - w.start < series.width
      /\ last \in series.ends /\ series.width \in Nat
  <2>1. w \in [start : Int, end : Int] /\ last \in Nat /\ series.width \in Nat /\ last \in series.ends
    BY SeriesTyped DEF WindowOf
  <2>2. w.start \in Int /\ w.end \in Int
    BY <2>1
  <2>3. QED
    BY <2>1, <2>2 DEF WindowOf
<1>2. /\ open \in SUBSET Int /\ IsFiniteSet(open) /\ Cardinality(open) \in Nat
  BY <1>1, OpenDays
<1>3. Sessions(w) = held /\ held # {} /\ held \in SUBSET Days(w)
  BY DEF Sessions, Weekdays
<1>4. DatesOf(MarketsAnswer(w)) \cap open = held
  <2>1. DatesOf(BarsOf(held)) = held
    BY <1>1, <1>3, DaysOfBars
  <2>2. QED
    BY <1>3, <2>1 DEF MarketsAnswer
<1>5. Cardinality(open \cap Closures) <= PermittedMissing(Cardinality(open))
  <2>1. \A x, y \in 0..last : y - x < series.width =>
            Cardinality({d \in x..y : Weekday(d)} \cap Closures)
               <= PermittedMissing(Cardinality({d \in x..y : Weekday(d)}))
    BY <1>1 DEF OrderlyCalendar
  <2>2. open = {d \in w.start..w.end : Weekday(d)}
    BY DEF Weekdays, Days
  <2> HIDE DEF open
  <2>3. QED
    BY <1>1, <2>1, <2>2
<1> HIDE DEF open
<1>6. PICK c, m, p : c = Cardinality(open) /\ m = Cardinality(open \cap Closures)
                     /\ p = PermittedMissing(c)
  OBVIOUS
<1>7. /\ c \in Nat /\ m \in Nat /\ p \in Int /\ m <= p
      /\ Cardinality(held) = c - m /\ Cardinality(held) \in Nat /\ Cardinality(held) # 0
  <2>1. IsFiniteSet(open \cap Closures) /\ m \in Nat
    BY <1>2, <1>6, FS_Subset, FS_CardinalityType
  <2>2. Cardinality(held) = c - m /\ IsFiniteSet(held)
    BY <1>2, <1>6, FS_Difference
  <2>3. Cardinality(held) \in Nat /\ Cardinality(held) # 0
    BY <1>3, <2>2, FS_CardinalityType, FS_EmptySet
  <2>4. p \in Int
    <3>1. c \in Nat /\ Boundary \in Nat /\ Percent \in 0..100
      BY <1>2, <1>6, PlanAssumption
    <3>2. c * (100 - Percent) \in Int
      BY <3>1
    <3>3. (c * (100 - Percent) + 99) \div 100 \in Int
      BY <3>2
    <3>4. QED
      BY <1>6, <3>1, <3>3 DEF PermittedMissing, Greatest
  <2>5. QED
    BY <1>2, <1>5, <1>6, <2>1, <2>2, <2>3, <2>4
<1>8. Cardinality(held) >= Greatest(1, c - p)
  BY <1>7 DEF Greatest
<1>9. QED
  BY <1>4, <1>6, <1>8 DEF open

LEMMA MarketsFirst ==
    ASSUME OrderlyCalendar, series \in Series, NEW w, NEW last, WindowOf(w, last),
           NEW f \in Sessions(w), \A x \in Sessions(w) : f <= x
    PROVE  f <= EarliestPermitted(w)
<1> DEFINE open == Weekdays(w)
<1>1. /\ w \in [start : Int, end : Int] /\ w.start \in Int /\ w.end \in Int /\ last \in Nat
      /\ 0 <= w.start /\ w.start <= w.end /\ w.end <= last /\ last \in series.ends
      /\ Boundary \in Nat
  BY SeriesTyped, PlanAssumption DEF WindowOf
<1>2. /\ open \in SUBSET Int /\ IsFiniteSet(open) /\ Cardinality(open) \in Nat
      /\ \A d \in open : w.start <= d /\ d <= w.end
      /\ open # {} => Cardinality(open) >= 1
  BY <1>1, OpenDays
<1>3. CASE series.asset = "crypto"
  <2>1. w.start \in Sessions(w)
    BY <1>1, <1>3 DEF Sessions, Days
  <2>2. QED
    BY <1>3, <2>1 DEF EarliestPermitted
<1>4. CASE series.asset # "crypto"
  <2>1. f \in open /\ f \in Int
    BY <1>2, <1>4 DEF Sessions
  <2> DEFINE n == Least(Boundary, Cardinality(open) - 1)
             z == Nth(open, n)
  <2>2. n \in Nat /\ n < Cardinality(open) /\ (Boundary <= n \/ Cardinality(open) - 1 <= n)
    BY <1>1, <1>2, <2>1 DEF Least
  <2>3. EarliestPermitted(w) = z
    BY <1>4, <2>1 DEF EarliestPermitted
  <2> HIDE DEF n
  <2>4. z \in open /\ Cardinality(Below(open, z)) = n
    BY <1>1, <2>2, NthIs
  <2> HIDE DEF z
  <2>5. SUFFICES ASSUME z < f PROVE FALSE
    BY <1>2, <2>1, <2>3, <2>4
  <2>6. z \in Int /\ f - 1 \in 0..last /\ w.start \in 0..last /\ f - 1 \in Int
    BY <1>1, <1>2, <2>1, <2>4, <2>5
  <2>7. Below(open, f) = Open(w.start, f - 1)
    <3>1. \A x \in Int : (w.start <= x /\ x <= w.end /\ x < f) <=> (w.start <= x /\ x <= f - 1)
      BY <1>1, <1>2, <2>1
    <3>2. QED
      BY <1>1, <2>1, <2>6, <3>1 DEF Below, Open, Weekdays, Days
  <2>8. Open(w.start, f - 1) \subseteq Closures
    <3>1. ASSUME NEW x \in Open(w.start, f - 1) PROVE x \in Closures
      <4>1. x \in open /\ x < f
        BY <2>7, <3>1 DEF Below
      <4>2. x \notin Sessions(w)
        BY <1>2, <2>1, <4>1
      <4>3. QED
        BY <1>4, <4>1, <4>2 DEF Sessions
    <3>2. QED
      BY <3>1
  <2>9. Cardinality(Below(open, f)) <= Boundary
    BY <1>1, <1>4, <2>6, <2>7, <2>8, ClosedInARow
  <2> HIDE DEF open
  <2>10. /\ Cardinality(Below(open, f)) \in Nat /\ IsFiniteSet(Below(open, f))
         /\ Cardinality(Below(open, f)) <= Cardinality(open) - 1
    <3>1. /\ Cardinality(Above(open, f)) \in Nat /\ Cardinality(Below(open, f)) \in Nat
          /\ Cardinality(open) = Cardinality(Below(open, f)) + 1 + Cardinality(Above(open, f))
      BY <1>2, <2>1, Around
    <3>2. IsFiniteSet(Below(open, f))
      BY <1>2, FS_Subset DEF Below
    <3>3. QED
      BY <1>2, <3>1, <3>2
  <2>11. n + 1 <= Cardinality(Below(open, f))
    <3>1. Below(open, z) \cup {z} \subseteq Below(open, f)
      <4>1. \A x \in open : x < z => x < f
        BY <1>2, <2>1, <2>5, <2>6
      <4>2. QED
        BY <2>4, <2>5, <4>1 DEF Below
    <3>2. IsFiniteSet(Below(open, z)) /\ z \notin Below(open, z)
      BY <1>2, <2>6, FS_Subset DEF Below
    <3>3. Cardinality(Below(open, z) \cup {z}) = n + 1
      BY <2>4, <3>2, FS_AddElement
    <3>4. QED
      BY <2>10, <3>1, <3>3, FS_Subset
  <2>12. QED
    BY <1>1, <1>2, <2>2, <2>9, <2>10, <2>11
<1>5. QED
  BY <1>3, <1>4

LEMMA MarketsLast ==
    ASSUME OrderlyCalendar, series \in Series, NEW w, NEW last, WindowOf(w, last),
           NEW l \in Sessions(w), \A x \in Sessions(w) : x <= l
    PROVE  l >= LatestPermitted(w)
<1> DEFINE open == Weekdays(w)
<1>1. /\ w \in [start : Int, end : Int] /\ w.start \in Int /\ w.end \in Int /\ last \in Nat
      /\ 0 <= w.start /\ w.start <= w.end /\ w.end <= last /\ last \in series.ends
      /\ Boundary \in Nat
  BY SeriesTyped, PlanAssumption DEF WindowOf
<1>2. /\ open \in SUBSET Int /\ IsFiniteSet(open) /\ Cardinality(open) \in Nat
      /\ \A d \in open : w.start <= d /\ d <= w.end
      /\ open # {} => Cardinality(open) >= 1
  BY <1>1, OpenDays
<1>3. CASE series.asset = "crypto"
  <2>1. w.end \in Sessions(w)
    BY <1>1, <1>3 DEF Sessions, Days
  <2>2. l \in Int
    BY <1>1, <1>3 DEF Sessions, Days
  <2>3. QED
    BY <1>1, <1>3, <2>1, <2>2 DEF LatestPermitted
<1>4. CASE series.asset # "crypto"
  <2>1. l \in open /\ l \in Int
    BY <1>2, <1>4 DEF Sessions
  <2> DEFINE n == Greatest(0, Cardinality(open) - Boundary - 1)
             z == Nth(open, n)
  <2>2. /\ n \in Nat /\ n < Cardinality(open)
        /\ n = 0 \/ Cardinality(open) - n = Boundary + 1
    BY <1>1, <1>2, <2>1 DEF Greatest
  <2>3. LatestPermitted(w) = z
    BY <1>4, <2>1 DEF LatestPermitted
  <2> HIDE DEF n
  <2>4. z \in open /\ Cardinality(Below(open, z)) = n
    BY <1>1, <2>2, NthIs
  <2> HIDE DEF z
  <2>5. SUFFICES ASSUME l < z PROVE FALSE
    BY <1>2, <2>1, <2>3, <2>4
  <2>6. z \in Int /\ l + 1 \in 0..last /\ w.end \in 0..last /\ l + 1 \in Int
    BY <1>1, <1>2, <2>1, <2>4, <2>5
  <2>7. Above(open, l) = Open(l + 1, w.end)
    <3>1. \A x \in Int : (w.start <= x /\ x <= w.end /\ l < x) <=> (l + 1 <= x /\ x <= w.end)
      BY <1>1, <1>2, <2>1
    <3>2. QED
      BY <1>1, <2>1, <2>6, <3>1 DEF Above, Open, Weekdays, Days
  <2>8. Open(l + 1, w.end) \subseteq Closures
    <3>1. ASSUME NEW x \in Open(l + 1, w.end) PROVE x \in Closures
      <4>1. x \in open /\ l < x
        BY <2>7, <3>1 DEF Above
      <4>2. x \notin Sessions(w)
        BY <1>2, <2>1, <4>1
      <4>3. QED
        BY <1>4, <4>1, <4>2 DEF Sessions
    <3>2. QED
      BY <3>1
  <2>9. Cardinality(Above(open, l)) <= Boundary
    BY <1>1, <1>4, <2>6, <2>7, <2>8, ClosedInARow
  <2> HIDE DEF open
  <2>10. /\ Cardinality(Above(open, l)) \in Nat /\ IsFiniteSet(Above(open, l))
         /\ Cardinality(Above(open, l)) <= Cardinality(open) - 1
    <3>1. /\ IsFiniteSet(Above(open, l))
          /\ Cardinality(Above(open, l)) \in Nat /\ Cardinality(Below(open, l)) \in Nat
          /\ Cardinality(open) = Cardinality(Below(open, l)) + 1 + Cardinality(Above(open, l))
      BY <1>2, <2>1, Around
    <3>2. QED
      BY <1>2, <3>1
  <2>11. Cardinality(open) - n <= Cardinality(Above(open, l))
    <3>1. Above(open, z) \cup {z} \subseteq Above(open, l)
      <4>1. \A x \in open : z < x => l < x
        BY <1>2, <2>1, <2>5, <2>6
      <4>2. QED
        BY <2>4, <2>5, <4>1 DEF Above
    <3>2. /\ IsFiniteSet(Above(open, z)) /\ Cardinality(Above(open, z)) \in Nat
          /\ Cardinality(open) = n + 1 + Cardinality(Above(open, z))
      BY <1>2, <2>4, Around
    <3>3. z \notin Above(open, z)
      BY <2>6 DEF Above
    <3>4. Cardinality(Above(open, z) \cup {z}) = Cardinality(Above(open, z)) + 1
      BY <3>2, <3>3, FS_AddElement
    <3>5. Cardinality(Above(open, z) \cup {z}) <= Cardinality(Above(open, l))
      BY <2>10, <3>1, FS_Subset
    <3>6. QED
      BY <1>2, <2>2, <2>10, <3>2, <3>4, <3>5
  <2>12. QED
    BY <1>1, <1>2, <2>2, <2>9, <2>10, <2>11
<1>5. QED
  BY <1>3, <1>4

LEMMA PlanMarkets == ASSUME OrderlyCalendar, PlanInv PROVE MarketsAnswerAccepted
<1> SUFFICES ASSUME NEW i \in DOMAIN windows, Sessions(windows[i]) # {},
                    Cardinality(MarketsAnswer(windows[i])) < Cap
             PROVE  Accepted(windows[i], MarketsAnswer(windows[i]))
  BY DEF MarketsAnswerAccepted
<1>1. PICK w, last : w = windows[i] /\ last = period.end
  OBVIOUS
<1>2. series \in Series /\ WindowOf(w, last) /\ Sessions(w) # {}
      /\ Cardinality(MarketsAnswer(w)) < Cap
  BY <1>1, PlanWindow DEF PlanInv
<1>3. w \in [start : Int, end : Int] /\ Sessions(w) \in SUBSET Days(w)
  BY <1>2 DEF WindowOf, Sessions, Weekdays
<1> DEFINE bars == MarketsAnswer(w)
<1>4. /\ bars # {} /\ DatesOf(bars) = Sessions(w)
      /\ DayOf(Min(bars)) \in Sessions(w) /\ \A x \in Sessions(w) : DayOf(Min(bars)) <= x
      /\ DayOf(Max(bars)) \in Sessions(w) /\ \A x \in Sessions(w) : x <= DayOf(Max(bars))
  BY <1>2, <1>3, DaysOfBars DEF MarketsAnswer
<1>5. NoMissingBar(bars)
  BY <1>2, MarketsGaps
<1>6. CoverageMet(w, bars)
  BY <1>2, MarketsCoverage
<1> HIDE DEF bars
<1>7. DayOf(Min(bars)) <= EarliestPermitted(w)
  BY <1>2, <1>4, MarketsFirst
<1>8. DayOf(Max(bars)) >= LatestPermitted(w)
  BY <1>2, <1>4, MarketsLast
<1>9. InPeriod(w, bars)
  BY <1>3, <1>4 DEF InPeriod
<1>10. Cardinality(bars) < Cap
  BY <1>2 DEF bars
<1>11. Accepted(w, bars)
  BY <1>4, <1>5, <1>6, <1>7, <1>8, <1>9, <1>10 DEF Accepted
<1>12. QED
  BY <1>1, <1>11 DEF bars

(* Where the calendar of the markets is such that the controls tolerate its *)
(* closures, they quarantine no complete answer, in any plan.              *)
THEOREM MarketsAccepted ==
    ASSUME OrderlyCalendar
    PROVE  Spec => []MarketsAnswerAccepted
<1>1. PlanInv => MarketsAnswerAccepted
  BY PlanMarkets
<1>2. QED
  BY <1>1, PlanInvariant, PTL
=============================================================================
