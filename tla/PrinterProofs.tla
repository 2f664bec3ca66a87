---------------------------- MODULE PrinterProofs ----------------------------
(* What the conversions compute, for every number, every string of bytes and
   every size of text: by induction over the loops. *)
EXTENDS PrinterProperties, RecursionLemmas, FiniteSetTheorems

-----------------------------------------------------------------------------
(* Texts *)

\* The empty text, and texts of one character.
LEMMA ShortTexts ==
    /\ <<>> \in Text /\ Len(<<>>) = 0
    /\ \A c \in Code : <<c>> \in Text /\ Len(<<c>>) = 1 /\ <<c>>[1] = c
BY DEF Text

\* The characters of two texts one after the other.
LEMMA Joined ==
    ASSUME NEW t \in Text, NEW u \in Text
    PROVE  /\ t \o u \in Text /\ Len(t \o u) = Len(t) + Len(u)
           /\ \A i \in 1..Len(t) : (t \o u)[i] = t[i]
           /\ \A i \in 1..Len(u) : (t \o u)[Len(t) + i] = u[i]
BY DEF Text

\* A text is its length and its characters.
LEMMA SameText ==
    ASSUME NEW t \in Text, NEW u \in Text, Len(t) = Len(u), \A i \in 1..Len(t) : t[i] = u[i]
    PROVE  t = u
BY DEF Text

\* Reverse turns the places around.
LEMMA Reversed ==
    ASSUME NEW t \in Text
    PROVE  /\ Reverse(t) \in Text /\ Len(Reverse(t)) = Len(t)
           /\ \A i \in 1..Len(t) : Reverse(t)[i] = t[Len(t) - i + 1]
<1>1. Len(t) \in Nat /\ DOMAIN t = 1..Len(t) /\ \A i \in 1..Len(t) : t[i] \in Code
  BY DEF Text
<1>2. \A i \in 1..Len(t) : Len(t) - i + 1 \in 1..Len(t)
  BY <1>1
<1>3. Reverse(t) = [i \in 1..Len(t) |-> t[(Len(t) - i) + 1]]
  BY DEF Reverse
<1> DEFINE r == [i \in 1..Len(t) |-> t[(Len(t) - i) + 1]]
<1>4. r \in Text /\ Len(r) = Len(t)
  BY <1>1, <1>2 DEF Text
<1> QED BY <1>3, <1>4

\* One character more.
LEMMA Appended ==
    ASSUME NEW t \in Text, NEW c \in Code
    PROVE  /\ Append(t, c) \in Text /\ Len(Append(t, c)) = Len(t) + 1
           /\ Append(t, c)[Len(t) + 1] = c
           /\ \A i \in 1..Len(t) : Append(t, c)[i] = t[i]
           /\ Len(t) \in Nat
           /\ Append(t, c) = t \o <<c>>
<1>1. Append(t, c) = t \o <<c>>
  BY DEF Text
<1> QED BY <1>1 DEF Text

-----------------------------------------------------------------------------
(* Numbers *)

\* tens has the values that its body says.
LEMMA TensStep ==
    /\ tens \in [Nat -> Nat]
    /\ \A n \in Nat : tens[n] = IF n = 0 THEN 1 ELSE 10 * tens[n - 1]
<1> DEFINE Value(f, n) == IF n = 0 THEN 1 ELSE 10 * f[n - 1]
           Is(f) == f = [n \in Nat |-> Value(f, n)]
           End   == {0}
           first == [n \in Nat |-> 1]
           next  == [n \in Nat |-> IF n = 0 THEN 0 ELSE n - 1]
           step  == [p \in Nat \X Nat |-> 10 * p[2]]
           size  == [n \in Nat |-> n]
<1>1. ComesToEnd(Nat, Nat, End, first, next, step, size)
  BY DEF ComesToEnd
<1>2. PICK g \in [Nat -> Nat] : \A n \in Nat : g[n] = Body(g, n, End, first, next, step)
  <2> HIDE DEF End, first, next, step, size
  <2> QED BY <1>1, Recursion
<1>3. Is(g)
  <2>1. ASSUME NEW n \in Nat PROVE g[n] = Value(g, n)
    <3>1. CASE n = 0
      BY <1>2, <3>1 DEF Body
    <3>2. CASE n # 0
      <4>1. next[n] = n - 1 /\ g[n - 1] \in Nat /\ n \notin End
        BY <3>2
      <4>2. g[n] = step[<<n, g[n - 1]>>]
        BY <1>2, <4>1 DEF Body
      <4> QED BY <3>2, <4>1, <4>2
    <3> QED BY <3>1, <3>2
  <2> HIDE DEF Value
  <2> QED BY <2>1
<1>4. Is(tens)
  <2>1. tens = CHOOSE f : Is(f)
    BY DEF tens
  <2> HIDE DEF Is
  <2> QED BY <1>3, <2>1
<1>5. \A n \in Nat : tens[n] = Value(tens, n)
  <2> HIDE DEF Value
  <2> QED BY <1>4
<1>6. \A n \in Nat : tens[n] \in Nat
  <2> DEFINE S == {n \in Nat : tens[n] \in Nat}
  <2>1. 0 \in S /\ \A n \in Nat : n \in S => n + 1 \in S
    BY <1>5
  <2> HIDE DEF S
  <2>2. Nat \subseteq S
    BY <2>1, NatsIn
  <2> QED BY <2>2 DEF S
<1>7. DOMAIN tens = Nat /\ tens = [n \in Nat |-> tens[n]]
  <2> HIDE DEF Value
  <2>1. tens = [n \in Nat |-> Value(tens, n)]
    BY <1>4
  <2> DEFINE t == tens
  <2> QED BY <2>1
<1> QED BY <1>5, <1>6, <1>7

\* The next power of ten.
LEMMA TensNext ==
    \A n \in Nat : tens[n] \in Nat /\ tens[n + 1] = 10 * tens[n]
<1> TAKE n \in Nat
<1>1. n + 1 \in Nat /\ n + 1 # 0 /\ (n + 1) - 1 = n
  OBVIOUS
<1> QED BY <1>1, TensStep

\* Powers of ten are positive and grow.
LEMMA TensGrow ==
    ASSUME NEW n \in Nat, NEW m \in Nat, m <= n
    PROVE  1 <= tens[m] /\ tens[m] <= tens[n]
<1> DEFINE S == {k \in Nat : tens[k] >= 1 /\ \A j \in 0..k : tens[j] <= tens[k]}
<1>1. 0 \in S
  BY TensStep
<1>2. ASSUME NEW k \in Nat, k \in S PROVE k + 1 \in S
  <2>1. tens[k + 1] = 10 * tens[k] /\ tens[k] \in Nat /\ \A j \in 0..(k + 1) : tens[j] \in Nat
    BY TensStep
  <2>2. \A j \in 0..(k + 1) : j \in 0..k \/ j = k + 1
    OBVIOUS
  <2> QED BY <1>2, <2>1, <2>2
<1>3. Nat \subseteq S
  <2> HIDE DEF S
  <2> QED BY <1>1, <1>2, NatsIn
<1>4. m \in S /\ n \in S
  BY <1>3
<1> QED BY <1>4

\* decimal has the values that its body says.
LEMMA Decimal ==
    /\ decimal \in [Nat -> Text]
    /\ \A v \in Nat :
          decimal[v] = IF v < 10 THEN <<ZERO + (v % 10)>>
                       ELSE Append(decimal[v \div 10], ZERO + (v % 10))
<1> DEFINE Value(f, v) == IF v < 10 THEN <<ZERO + (v % 10)>>
                          ELSE Append(f[v \div 10], ZERO + (v % 10))
           Is(f) == f = [v \in Nat |-> Value(f, v)]
           End   == 0..9
           first == [v \in Nat |-> <<ZERO + (v % 10)>>]
           next  == [v \in Nat |-> v \div 10]
           step  == [p \in Nat \X Text |-> Append(p[2], ZERO + (p[1] % 10))]
           size  == [v \in Nat |-> v]
<1>1. \A v \in Nat : v % 10 \in 0..9 /\ ZERO + (v % 10) \in Code /\ v \div 10 \in Nat
  BY DEF Code, ZERO
<1>2. ComesToEnd(Nat, Text, End, first, next, step, size)
  <2>1. Text # {}
    BY ShortTexts
  <2>2. first \in [Nat -> Text]
    BY <1>1, ShortTexts
  <2>3. step \in [Nat \X Text -> Text]
    BY <1>1, Appended
  <2>4. \A v \in Nat \ End : size[next[v]] < size[v]
    OBVIOUS
  <2>5. End \subseteq Nat /\ next \in [Nat -> Nat] /\ size \in [Nat -> Nat]
    OBVIOUS
  <2> HIDE DEF End, first, next, step, size
  <2> QED BY <2>1, <2>2, <2>3, <2>4, <2>5 DEF ComesToEnd
<1>3. PICK g \in [Nat -> Text] : \A v \in Nat : g[v] = Body(g, v, End, first, next, step)
  <2> HIDE DEF End, first, next, step, size
  <2> QED BY <1>2, Recursion
<1>4. \A v \in Nat : g[v] = Value(g, v)
  <2> SUFFICES ASSUME NEW v \in Nat PROVE g[v] = Value(g, v)
    OBVIOUS
  <2>1. CASE v < 10
    <3>1. v \in End
      BY <2>1
    <3>2. g[v] = first[v]
      <4> HIDE DEF End, first, next, step
      <4> QED BY <1>3, <3>1 DEF Body
    <3> QED BY <2>1, <3>2
  <2>2. CASE ~(v < 10)
    <3>1. v \notin End /\ next[v] = v \div 10 /\ next[v] \in Nat
      BY <2>2
    <3>2. g[v] = step[<<v, g[v \div 10]>>] /\ g[v \div 10] \in Text
      BY <1>3, <3>1 DEF Body
    <3> QED BY <2>2, <3>2
  <2> QED BY <2>1, <2>2
<1>5. Is(g)
  <2> HIDE DEF Value
  <2> QED BY <1>4
<1>6. Is(decimal)
  <2>1. decimal = CHOOSE f : Is(f)
    BY DEF decimal
  <2> HIDE DEF Is
  <2> QED BY <1>5, <2>1
<1>7. (\A v \in Nat : decimal[v] = Value(decimal, v)) /\ decimal = [v \in Nat |-> decimal[v]]
  <2> HIDE DEF Value
  <2> QED BY <1>6
<1>8. \A v \in Nat : decimal[v] \in Text
  <2> DEFINE S == {v \in Nat : decimal[v] \in Text}
  <2>1. ASSUME NEW v \in Nat, \A k \in Nat : k < v => k \in S PROVE v \in S
    <3>1. CASE v < 10
      <4>1. decimal[v] = <<ZERO + (v % 10)>>
        BY <1>7, <3>1
      <4> QED BY <1>1, <4>1, ShortTexts
    <3>2. CASE ~(v < 10)
      <4>1. v \div 10 \in Nat /\ v \div 10 < v
        BY <3>2
      <4>2. decimal[v \div 10] \in Text
        BY <2>1, <4>1
      <4>3. decimal[v] = Append(decimal[v \div 10], ZERO + (v % 10))
        BY <1>7, <3>2
      <4>4. ZERO + (v % 10) \in Code
        BY <1>1
      <4>5. decimal[v] \in Text
        <5> DEFINE c == ZERO + (v % 10)
                   u == decimal[v \div 10]
        <5>1. c \in Code /\ u \in Text /\ decimal[v] = Append(u, c)
          BY <4>2, <4>3, <4>4
        <5> HIDE DEF c, u
        <5>2. Append(u, c) \in Text
          BY <5>1, Appended
        <5> QED BY <5>1, <5>2, Zenon
      <4> QED BY <4>5
    <3> QED BY <3>1, <3>2
  <2>2. Nat \subseteq S
    <3> HIDE DEF S
    <3> QED BY <2>1, SmallerIn
  <2> QED BY <2>2
<1> QED BY <1>7, <1>8

\* What the first digits of a text stand for, one after another.
LEMMA ReadingInTurn ==
    ASSUME NEW text \in Text
    PROVE  \E values :
              /\ values \in [0..Len(text) -> Int]
              /\ values[0] = 0
              /\ \A k \in 0..Len(text) : k < Len(text) =>
                    values[k + 1] = 10 * values[k] + (text[k + 1] - ZERO)
              /\ values[Len(text)] = Reading(text)
<1> DEFINE n       == Len(text)
           Add(v, k) == 10 * v + (text[k] - ZERO)
           Value(g, s) == IF s = {} THEN 0 ELSE Add(g[s \ {Max(s)}], Max(s))
           Is(g)   == g = [s \in SUBSET (1..n) |-> Value(g, s)]
           iter    == CHOOSE g : Is(g)
           step    == [p \in Int \X (1..n) |-> Add(p[1], p[2])]
<1>1. n \in Nat /\ DOMAIN text = 1..n /\ \A k \in 1..n : text[k] \in Code
  BY DEF Text
<1>2. Reading(text) = iter[1..n]
  BY <1>1 DEF Reading, FoldLeft, MapThenFoldSet
<1>3. ASSUME NEW v \in Int, NEW k \in 1..n PROVE Add(v, k) \in Int
  <2>1. text[k] \in Int
    <3>1. Code \subseteq Int
      BY DEF Code
    <3> QED BY <1>1, <3>1
  <2> QED BY <2>1 DEF ZERO
<1> HIDE DEF n, Add
<1>4. Foldable(n, Int, 0, step)
  BY <1>1, <1>3 DEF Foldable
<1>5. PICK g : IsFold(g, n, Int, 0, step)
  BY <1>4, Folding
<1>6. Is(g)
  <2>1. ASSUME NEW s \in SUBSET (1..n), s # {}
        PROVE  g[s] = Add(g[s \ {Max(s)}], Max(s))
    <3>1. Max(s) \in 1..n /\ s \ {Max(s)} \in SUBSET (1..n)
      BY <1>1, <2>1, LastPlace
    <3>2. g[s \ {Max(s)}] \in Int /\ g[s] = step[<<g[s \ {Max(s)}], Max(s)>>]
      BY <1>5, <2>1, <3>1 DEF IsFold
    <3> QED BY <3>1, <3>2
  <2>2. g[{}] = 0
    BY <1>5 DEF IsFold
  <2> HIDE DEF step
  <2> QED BY <1>5, <2>1, <2>2 DEF IsFold
<1>7. Is(iter)
  <2> HIDE DEF Is
  <2> QED BY <1>6
<1> HIDE DEF iter
<1>8. \A s \in SUBSET (1..n) : iter[s] = Value(iter, s)
  <2> HIDE DEF Value
  <2> QED BY <1>7
<1> DEFINE values == [k \in 0..n |-> iter[1..k]]
<1>9. /\ values[0] = 0
      /\ \A k \in 0..n : k < n => values[k + 1] = Add(values[k], k + 1)
      /\ values[n] = Reading(text)
  <2>1. iter[{}] = 0
    BY <1>8
  <2>2. ASSUME NEW k \in 0..n, k < n PROVE iter[1..(k + 1)] = Add(iter[1..k], k + 1)
    <3> DEFINE s == 1..(k + 1)
    <3>1. s \in SUBSET (1..n) /\ s # {} /\ Max(s) = k + 1 /\ s \ {k + 1} = 1..k
      BY <1>1, <2>2, NextPrefix
    <3> HIDE DEF s
    <3>2. iter[s] = Add(iter[s \ {Max(s)}], Max(s))
      BY <1>8, <3>1
    <3> QED BY <3>1, <3>2 DEF s
  <2>3. /\ 0 \in 0..n /\ n \in 0..n /\ 1..0 = {}
        /\ \A k \in 0..n : k < n => k + 1 \in 0..n
    BY <1>1
  <2>4. \A k \in 0..n : values[k] = iter[1..k]
    OBVIOUS
  <2> HIDE DEF values
  <2> QED BY <1>2, <2>1, <2>2, <2>3, <2>4
<1>10. \A k \in 0..n : values[k] \in Int
  <2> DEFINE S == {k \in 0..n : values[k] \in Int}
  <2> HIDE DEF values
  <2>1. 0 \in S
    BY <1>1, <1>9
  <2>2. ASSUME NEW k \in 0..n, k \in S, k < n PROVE k + 1 \in S
    <3>1. k + 1 \in 1..n /\ k + 1 \in 0..n /\ values[k] \in Int
      BY <1>1, <2>2
    <3>2. Add(values[k], k + 1) \in Int
      BY <1>3, <3>1
    <3> QED BY <1>9, <2>2, <3>1, <3>2
  <2> HIDE DEF S
  <2>3. 0..n \subseteq S
    BY <1>1, <2>1, <2>2, Induction
  <2> QED BY <2>3 DEF S
<1>11. values \in [0..n -> Int]
  BY <1>10
<1> HIDE DEF values
<1> QED BY <1>9, <1>11 DEF Add, n

\* A digit at the end: ten times the number, and the digit.
LEMMA ReadingOfOneMore ==
    ASSUME NEW text \in Text, NEW c \in Code
    PROVE  /\ Reading(text) \in Int
           /\ Reading(Append(text, c)) = 10 * Reading(text) + (c - ZERO)
           /\ Reading(<<>>) = 0
<1> DEFINE n == Len(text)
           longer == Append(text, c)
<1>1. /\ n \in Nat /\ longer \in Text /\ Len(longer) = n + 1 /\ longer[n + 1] = c
      /\ \A k \in 1..n : longer[k] = text[k]
  BY DEF Text
<1>2. PICK a : /\ a \in [0..n -> Int] /\ a[0] = 0
               /\ \A k \in 0..n : k < n => a[k + 1] = 10 * a[k] + (text[k + 1] - ZERO)
               /\ a[n] = Reading(text)
  BY ReadingInTurn
<1>3. PICK b : /\ b \in [0..(n + 1) -> Int] /\ b[0] = 0
               /\ \A k \in 0..(n + 1) : k < n + 1 =>
                      b[k + 1] = 10 * b[k] + (longer[k + 1] - ZERO)
               /\ b[n + 1] = Reading(longer)
  <2> HIDE DEF longer, n
  <2> QED BY <1>1, ReadingInTurn
<1> HIDE DEF n, longer
<1> DEFINE S == {k \in 0..n : a[k] = b[k]}
<1>4. 0 \in S
  BY <1>1, <1>2, <1>3
<1>5. ASSUME NEW k \in 0..n, k \in S, k < n PROVE k + 1 \in S
  <2>1. k + 1 \in 0..n /\ k + 1 \in 1..n /\ k < n + 1 /\ k \in 0..(n + 1) /\ a[k] = b[k]
    BY <1>1, <1>5
  <2>2. a[k + 1] = 10 * a[k] + (text[k + 1] - ZERO)
    BY <1>2, <1>5
  <2>3. b[k + 1] = 10 * b[k] + (longer[k + 1] - ZERO)
    BY <1>3, <2>1
  <2> QED BY <1>1, <2>1, <2>2, <2>3
<1>6. 0..n \subseteq S
  <2> HIDE DEF S
  <2> QED BY <1>1, <1>4, <1>5, Induction
<1>7. a[n] = b[n] /\ n \in 0..n /\ n \in 0..(n + 1) /\ n < n + 1
  BY <1>1, <1>6
<1>8. b[n + 1] = 10 * b[n] + (longer[n + 1] - ZERO)
  BY <1>3, <1>7
<1>9. Reading(<<>>) = 0
  BY ReadingInTurn, ShortTexts
<1> QED BY <1>1, <1>2, <1>3, <1>7, <1>8, <1>9 DEF longer

\* How many digits a number has, and that they stand for it.
LEMMA DecimalReads ==
    ASSUME NEW v \in Nat
    PROVE  /\ Len(decimal[v]) \in Nat \ {0}
           /\ IsNumeral(decimal[v])
           /\ v > 0 => decimal[v][1] # ZERO
           /\ Reading(decimal[v]) = v
           /\ v < tens[Len(decimal[v])]
           /\ Len(decimal[v]) > 1 => v >= tens[Len(decimal[v]) - 1]
<1> DEFINE Holds(w) == LET t == decimal[w]
                       IN  /\ Len(t) >= 1 /\ Range(t) \subseteq ZERO..(ZERO + 9)
                           /\ w > 0 => t[1] # ZERO
                           /\ Reading(t) = w
                           /\ w < tens[Len(t)]
                           /\ Len(t) > 1 => w >= tens[Len(t) - 1]
           S == {w \in Nat : Holds(w)}
<1>1. ASSUME NEW w \in Nat, \A k \in Nat : k < w => k \in S PROVE w \in S
  <2> DEFINE t == decimal[w]
             c == ZERO + (w % 10)
             r == w \div 10
  <2>1. /\ c \in ZERO..(ZERO + 9) /\ c \in Code /\ c - ZERO = w % 10 /\ r \in Nat
        /\ w = 10 * r + (w % 10)
    BY DEF ZERO, Code
  <2>2. CASE w < 10
    <3>1. t = <<c>>
      BY <2>2, Decimal
    <3>2. w % 10 = w
      BY <2>2
    <3>3. Reading(t) = w
      <4>1. <<c>> = Append(<<>>, c)
        OBVIOUS
      <4> HIDE DEF c
      <4>2. Reading(<<c>>) = 10 * Reading(<<>>) + (c - ZERO) /\ Reading(<<>>) = 0
        BY <2>1, <4>1, ReadingOfOneMore, ShortTexts
      <4> QED BY <2>1, <3>1, <3>2, <4>2
    <3>4. Len(t) = 1 /\ t[1] = c /\ Range(t) = {c}
      <4> HIDE DEF c
      <4>1. Len(<<c>>) = 1 /\ <<c>>[1] = c /\ DOMAIN <<c>> = {1}
        OBVIOUS
      <4> QED BY <3>1, <4>1 DEF Range
    <3>5. tens[1] = 10
      BY TensStep
    <3> HIDE DEF t
    <3>6. w > 0 => c # ZERO
      BY <3>2 DEF ZERO
    <3> HIDE DEF c
    <3>7. /\ Len(t) >= 1 /\ Range(t) \subseteq ZERO..(ZERO + 9)
          /\ w > 0 => t[1] # ZERO
          /\ w < tens[Len(t)]
          /\ ~(Len(t) > 1)
      BY <2>1, <2>2, <3>4, <3>5, <3>6
    <3> QED BY <3>3, <3>7 DEF t
  <2>3. CASE ~(w < 10)
    <3>1. r < w /\ r > 0
      BY <2>1, <2>3
    <3> DEFINE u == decimal[r]
    <3>2. t = Append(u, c) /\ u \in Text
      BY <2>1, <2>3, Decimal
    <3>3. Holds(r)
      BY <1>1, <2>1, <3>1
    <3> HIDE DEF t, u, c, r
    <3>4. /\ Len(u) >= 1 /\ Len(u) \in Nat /\ Len(t) = Len(u) + 1 /\ t[1] = u[1]
          /\ Range(t) = Range(u) \cup {c}
      <4>1. Len(u) >= 1 /\ Len(u) \in Nat
        BY <3>2, <3>3 DEF u, Text
      <4>2. /\ Len(t) = Len(u) + 1 /\ DOMAIN t = 1..(Len(u) + 1) /\ DOMAIN u = 1..Len(u)
            /\ \A i \in 1..Len(u) : t[i] = u[i]
            /\ t[Len(u) + 1] = c
        BY <2>1, <3>2 DEF Text
      <4>3. 1..(Len(u) + 1) = (1..Len(u)) \cup {Len(u) + 1}
        BY <4>1
      <4>4. {t[i] : i \in 1..(Len(u) + 1)} = {u[i] : i \in 1..Len(u)} \cup {c}
        BY <4>2, <4>3
      <4> QED BY <4>1, <4>2, <4>4 DEF Range
    <3>5. Reading(t) = w
      BY <2>1, <3>2, <3>3, ReadingOfOneMore DEF u
    <3>6. w < tens[Len(t)] /\ w >= tens[Len(t) - 1]
      <4>1. tens[Len(t)] = 10 * tens[Len(u)] /\ tens[Len(u)] \in Nat
        BY <3>4, TensStep
      <4>2. r < tens[Len(u)] /\ w % 10 < 10 /\ w % 10 >= 0
        BY <2>1, <3>3 DEF u
      <4>3. Len(t) - 1 = Len(u)
        BY <3>4
      <4>4. w < tens[Len(t)]
        BY <2>1, <4>1, <4>2
      <4> DEFINE m == Len(u) - 1
      <4>5. m \in Nat /\ m + 1 = Len(u)
        BY <3>4
      <4>6. r >= tens[m] /\ tens[m] \in Nat
        <5>1. CASE m = 0
          <6>1. tens[0] = 1 /\ r \in Nat /\ r > 0
            BY <2>1, <3>1, TensStep
          <6> HIDE DEF m
          <6> QED BY <5>1, <6>1
        <5>2. CASE m # 0
          <6>1. Len(u) > 1
            BY <4>5, <5>2
          <6>2. r >= tens[m]
            BY <3>3, <6>1 DEF u
          <6> QED BY <4>5, <6>2, TensNext
        <5> QED BY <5>1, <5>2
      <4> HIDE DEF m
      <4>7. tens[m + 1] = 10 * tens[m]
        BY <4>5, TensNext
      <4>8. w >= tens[Len(u)]
        <5>1. tens[Len(u)] = 10 * tens[m]
          BY <4>5, <4>7
        <5>2. w >= 10 * r
          BY <2>1, <4>2
        <5>3. r \in Nat /\ w \in Nat /\ r >= tens[m] /\ tens[m] \in Nat
          BY <2>1, <4>6
        <5> HIDE DEF r
        <5> QED BY <5>1, <5>2, <5>3
      <4> QED BY <4>3, <4>4, <4>8
    <3>7. t[1] # ZERO /\ Range(t) \subseteq ZERO..(ZERO + 9)
      <4>1. u[1] # ZERO /\ Range(u) \subseteq ZERO..(ZERO + 9)
        BY <3>1, <3>3 DEF u
      <4> QED BY <2>1, <3>4, <4>1
    <3>8. Len(t) >= 1
      BY <3>4
    <3> QED BY <3>5, <3>6, <3>7, <3>8 DEF t
  <2> QED BY <2>2, <2>3
<1>2. v \in S
  <2> HIDE DEF S
  <2>1. Nat \subseteq S
    BY <1>1, SmallerIn
  <2> QED BY <2>1
<1> DEFINE t == decimal[v]
<1>3. t \in Text
  BY Decimal
<1>4. Len(t) >= 1 /\ Len(t) \in Nat
  BY <1>2, <1>3 DEF Text
<1>5. IsNumeral(t)
  <2>1. Len(t) > 1 => t[1] # ZERO
    <3>1. CASE v > 0
      BY <1>2, <3>1
    <3>2. CASE ~(v > 0)
      <4>1. v = 0
        BY <3>2
      <4>2. t = <<ZERO + (0 % 10)>>
        BY <4>1, Decimal
      <4> QED BY <4>2
    <3> QED BY <3>1, <3>2
  <2> QED BY <1>2, <1>4, <2>1 DEF IsNumeral, DigitsOf
<1> QED BY <1>2, <1>4, <1>5

\* Whatever number is printed, in whatever room: it is printed whole, as its digits
\* without zeros before them, or not at all (printers.c:32).
THEOREM NumberIsRead == number \in Nat => NumberReadsBack
<1> SUFFICES ASSUME number \in Nat, NEW size \in TextSizes
             PROVE  LET printed == snprintf_number(size, number)
                    IN  /\ printed.ok => /\ IsNumeral(printed.text)
                                         /\ Reading(printed.text) = number
                                         /\ Len(printed.text) < size
                        /\ ~printed.ok => size = 1 \/ number >= tens[Min({size - 1, 9})]
  BY DEF NumberReadsBack
<1> DEFINE t == decimal[number]
<1>1. /\ size \in Nat \ {0} /\ Len(t) \in Nat \ {0} /\ IsNumeral(t) /\ Reading(t) = number
      /\ Len(t) > 1 => number >= tens[Len(t) - 1]
  BY TextSizesAssumption, DecimalReads
<1>2. CASE Len(t) > size - 1
  <2>1. snprintf_number(size, number) = Failure
    BY <1>2 DEF snprintf_number
  <2>2. ASSUME size # 1 PROVE number >= tens[Min({size - 1, 9})]
    <3> DEFINE m == Min({size - 1, 9})
    <3> HIDE DEF t
    <3>1. m \in Nat /\ m <= Len(t) - 1 /\ Len(t) > 1 /\ Len(t) - 1 \in Nat
      <4>1. m = IF size - 1 <= 9 THEN size - 1 ELSE 9
        BY <1>1, MinOfTwo
      <4> HIDE DEF m
      <4> QED BY <1>1, <1>2, <2>2, <4>1
    <3> HIDE DEF m
    <3>2. tens[m] <= tens[Len(t) - 1] /\ tens[m] \in Nat /\ tens[Len(t) - 1] \in Nat
      BY <3>1, TensGrow, TensStep
    <3>3. number >= tens[Len(t) - 1]
      BY <1>1, <3>1
    <3>4. number >= tens[m]
      BY <3>2, <3>3
    <3> QED BY <3>4 DEF m
  <2> QED BY <2>1, <2>2 DEF Failure
<1>3. CASE ~(Len(t) > size - 1)
  <2>1. snprintf_number(size, number) = Written(t)
    BY <1>3 DEF snprintf_number
  <2> HIDE DEF t
  <2> QED BY <1>1, <1>3, <2>1 DEF Written
<1> QED BY <1>2, <1>3

-----------------------------------------------------------------------------
(* Amounts *)

\* A character moves from the end of one text to the front of the reversed one.
LEMMA ReversedLast ==
    ASSUME NEW t \in Text, NEW u \in Text, NEW c \in Code
    PROVE  Append(t, c) \o Reverse(u) = t \o Reverse(Append(u, c))
<1> DEFINE tc == Append(t, c)
           uc == Append(u, c)
           n == Len(t)
           m == Len(u)
           left == tc \o Reverse(u)
           right == t \o Reverse(uc)
<1>1. n \in Nat /\ m \in Nat /\ tc \in Text /\ uc \in Text /\ Len(tc) = n + 1 /\ Len(uc) = m + 1
      /\ tc[n + 1] = c /\ uc[m + 1] = c
      /\ (\A i \in 1..n : tc[i] = t[i]) /\ (\A i \in 1..m : uc[i] = u[i])
  BY Appended
<1> HIDE DEF tc, uc, n, m
<1>2. /\ Reverse(u) \in Text /\ Len(Reverse(u)) = m
      /\ \A i \in 1..m : Reverse(u)[i] = u[m - i + 1]
  BY Reversed DEF m
<1>3. /\ Reverse(uc) \in Text /\ Len(Reverse(uc)) = m + 1
      /\ \A i \in 1..(m + 1) : Reverse(uc)[i] = uc[(m + 1) - i + 1]
  BY <1>1, Reversed
<1>4. /\ left \in Text /\ Len(left) = n + 1 + m
      /\ \A i \in 1..(n + 1) : left[i] = tc[i]
      /\ \A i \in 1..m : left[n + 1 + i] = Reverse(u)[i]
  <2>1. /\ left \in Text /\ Len(left) = Len(tc) + Len(Reverse(u))
        /\ \A i \in 1..Len(tc) : left[i] = tc[i]
        /\ \A i \in 1..Len(Reverse(u)) : left[Len(tc) + i] = Reverse(u)[i]
    BY <1>1, <1>2, Joined
  <2> QED BY <1>1, <1>2, <2>1
<1>5. /\ right \in Text /\ Len(right) = n + (m + 1)
      /\ \A i \in 1..n : right[i] = t[i]
      /\ \A i \in 1..(m + 1) : right[n + i] = Reverse(uc)[i]
  <2>1. /\ right \in Text /\ Len(right) = Len(t) + Len(Reverse(uc))
        /\ \A i \in 1..Len(t) : right[i] = t[i]
        /\ \A i \in 1..Len(Reverse(uc)) : right[Len(t) + i] = Reverse(uc)[i]
    BY <1>3, Joined
  <2>2. Len(t) = n
    BY DEF n
  <2> QED BY <1>1, <1>3, <2>1, <2>2
<1> HIDE DEF left, right
<1>6. ASSUME NEW i \in 1..(n + 1 + m) PROVE left[i] = right[i]
  <2>1. CASE i <= n
    BY <1>1, <1>4, <1>5, <2>1
  <2>2. CASE i = n + 1
    <3>1. left[i] = c
      BY <1>1, <1>4, <2>2
    <3>2. 1 \in 1..(m + 1) /\ (m + 1) - 1 + 1 = m + 1
      BY <1>1
    <3>3. right[i] = uc[m + 1]
      BY <1>3, <1>5, <2>2, <3>2
    <3> QED BY <1>1, <3>1, <3>3
  <2>3. CASE i > n + 1
    <3> DEFINE j == i - (n + 1)
    <3>1. j \in 1..m /\ i = n + 1 + j /\ i = n + (j + 1) /\ j + 1 \in 1..(m + 1)
          /\ (m + 1) - (j + 1) + 1 = m - j + 1 /\ m - j + 1 \in 1..m
      BY <1>1, <2>3
    <3> HIDE DEF j
    <3>2. left[i] = u[m - j + 1]
      BY <1>2, <1>4, <3>1
    <3>3. right[i] = uc[m - j + 1]
      BY <1>3, <1>5, <3>1
    <3> QED BY <1>1, <3>1, <3>2, <3>3
  <2> QED BY <1>1, <2>1, <2>2, <2>3
<1>7. Len(left) = Len(right) /\ Len(left) = n + 1 + m
  BY <1>1, <1>4, <1>5
<1>8. left = right
  BY <1>4, <1>5, <1>6, <1>7, SameText
<1> QED BY <1>8 DEF left, right, tc, uc

\* One turn of the loop of token_digits, with the point after six digits.
Digit(d) == ZERO + (d % 10)

Longer(d, b) ==
    IF Len(b) # 5 THEN Append(b, Digit(d)) ELSE Append(b, Digit(d)) \o decimal_point(d \div 10)

At(d, b) == [dVal |-> d, buffer |-> b]

IsTokenLoop(loop) ==
    \A d \in Nat, b \in Text :
        loop[At(d, b)] = IF d = 0 /\ Len(b) >= 7 THEN b
                         ELSE loop[At(d \div 10, Longer(d, b))]

\* A digit is the remainder of a division by ten.
LEMMA DigitOf ==
    ASSUME NEW d \in Nat
    PROVE  /\ Digit(d) \in Code /\ Digit(d) \in ZERO..(ZERO + 9)
           /\ Digit(d) - ZERO = d % 10
           /\ d \div 10 \in Nat /\ (d > 0 => d \div 10 < d) /\ d = 10 * (d \div 10) + (d % 10)
BY DEF ZERO, Code, Digit

\* A turn makes at least one character.
LEMMA LongerType ==
    ASSUME NEW d \in Nat, NEW b \in Text
    PROVE  Longer(d, b) \in Text /\ Len(Longer(d, b)) >= Len(b) + 1 /\ Len(Longer(d, b)) \in Nat
<1> DEFINE digits == Append(b, Digit(d))
           point == decimal_point(d \div 10)
<1>1. digits \in Text /\ Len(digits) = Len(b) + 1 /\ Len(b) \in Nat
  BY DigitOf, Appended
<1>2. point \in Text /\ Len(point) \in Nat
  <2>1. <<DOT>> \in Text /\ <<DOT, ZERO>> \in Text /\ Len(<<DOT>>) = 1 /\ Len(<<DOT, ZERO>>) = 2
    BY DEF DOT, ZERO, Text, Code
  <2> QED BY <2>1 DEF decimal_point
<1> HIDE DEF digits, point
<1>3. digits \o point \in Text /\ Len(digits \o point) = Len(digits) + Len(point)
  BY <1>1, <1>2, Joined
<1> QED BY <1>1, <1>2, <1>3 DEF Longer, digits, point

\* The loop of token_digits has the values that its body says.
LEMMA TokenLoop ==
    ASSUME NEW value \in Nat
    PROVE  \E loop :
              /\ token_digits(value, 6) = loop[At(value, <<>>)]
              /\ IsTokenLoop(loop)
<1> DEFINE X == [dVal: Nat, buffer: Text]
           Ends(s) == s.dVal = 0 /\ Len(s.buffer) >= 7
           Next(s) == At(s.dVal \div 10, Longer(s.dVal, s.buffer))
           Value(f, s) == IF Ends(s) THEN s.buffer ELSE f[Next(s)]
           Is(f) == f = [s \in X |-> Value(f, s)]
           iter  == CHOOSE f : Is(f)
           End   == {s \in X : Ends(s)}
           first == [s \in X |-> s.buffer]
           next  == [s \in X |-> Next(s)]
           step  == [p \in X \X Text |-> p[2]]
           size  == [s \in X |-> s.dVal + IF Len(s.buffer) >= 7 THEN 0 ELSE 7 - Len(s.buffer)]
<1>1. token_digits(value, 6) = iter[At(value, <<>>)]
  BY DEF token_digits, Longer, At, Digit
<1>2. ASSUME NEW s \in X
      PROVE  /\ Next(s) \in X /\ size[s] \in Nat
             /\ s \notin End => size[Next(s)] < size[s]
  <2> DEFINE d == s.dVal
             b == s.buffer
             b2 == Longer(d, b)
  <2>1. d \in Nat /\ b \in Text
    OBVIOUS
  <2> HIDE DEF d, b
  <2>2. d \div 10 \in Nat /\ (d > 0 => d \div 10 < d) /\ (d = 0 => d \div 10 = 0)
    BY <2>1
  <2>3. b2 \in Text /\ Len(b2) >= Len(b) + 1 /\ Len(b2) \in Nat /\ Len(b) \in Nat
    BY <2>1, LongerType, Appended, ShortTexts DEF Text
  <2> HIDE DEF b2
  <2>4. Next(s) = [dVal |-> d \div 10, buffer |-> b2]
    BY DEF At, d, b, b2
  <2>5. Next(s) \in X
    BY <2>2, <2>3, <2>4
  <2>6. size[s] = d + IF Len(b) >= 7 THEN 0 ELSE 7 - Len(b)
    BY DEF d, b
  <2>7. size[Next(s)] = (d \div 10) + IF Len(b2) >= 7 THEN 0 ELSE 7 - Len(b2)
    BY <2>4, <2>5
  <2>8. s \notin End => ~(d = 0 /\ Len(b) >= 7)
    BY DEF d, b
  <2> HIDE DEF Next, size, X, End
  <2>9. size[s] \in Nat
    BY <2>1, <2>3, <2>6
  <2>10. ASSUME s \notin End PROVE size[Next(s)] < size[s]
    <3> DEFINE e == d \div 10
    <3>1. e \in Nat /\ (d > 0 => e < d) /\ (d = 0 => e = 0)
      BY <2>2
    <3> HIDE DEF e
    <3>2. CASE d = 0
      BY <2>3, <2>6, <2>7, <2>8, <2>10, <3>1, <3>2 DEF e
    <3>3. CASE d # 0
      <4> DEFINE k  == IF Len(b) >= 7 THEN 0 ELSE 7 - Len(b)
                 k2 == IF Len(b2) >= 7 THEN 0 ELSE 7 - Len(b2)
      <4>1. k \in Nat /\ k2 \in Nat /\ k2 <= k
        BY <2>3
      <4>2. size[s] = d + k /\ size[Next(s)] = e + k2
        BY <2>6, <2>7 DEF e
      <4> HIDE DEF k, k2
      <4> QED BY <2>1, <3>1, <3>3, <4>1, <4>2
    <3> QED BY <3>2, <3>3
  <2> QED BY <2>5, <2>9, <2>10
<1>3. ComesToEnd(X, Text, End, first, next, step, size)
  <2>1. Text # {}
    BY ShortTexts
  <2>2. \A s \in X \ End : size[next[s]] < size[s]
    <3> HIDE DEF Next, size, End
    <3> QED BY <1>2
  <2>3. next \in [X -> X]
    <3> HIDE DEF Next, size, End, X
    <3> QED BY <1>2
  <2>4. size \in [X -> Nat]
    <3>1. size = [s \in X |-> size[s]]
      OBVIOUS
    <3> HIDE DEF Next, size, End, X
    <3> QED BY <1>2, <3>1
  <2>5. End \subseteq X /\ first \in [X -> Text] /\ step \in [X \X Text -> Text]
    OBVIOUS
  <2> HIDE DEF End, first, next, step, size, X
  <2> QED BY <2>1, <2>2, <2>3, <2>4, <2>5 DEF ComesToEnd
<1>4. PICK g \in [X -> Text] : \A s \in X : g[s] = Body(g, s, End, first, next, step)
  <2> HIDE DEF End, first, next, step, size, X
  <2> QED BY <1>3, Recursion
<1>5. ASSUME NEW s \in X PROVE g[s] = Value(g, s)
  <2>1. CASE s \in End
    BY <1>4, <2>1 DEF Body
  <2>2. CASE s \notin End
    <3>1. g[s] = step[<<s, g[next[s]]>>] /\ next[s] = Next(s)
      <4> HIDE DEF step, Next, End, first
      <4> QED BY <1>4, <2>2 DEF Body
    <3>2. g[Next(s)] \in Text
      BY <1>2
    <3>3. g[s] = g[Next(s)]
      <4> HIDE DEF Next, X
      <4> QED BY <3>1, <3>2
    <3> QED BY <2>2, <3>3
  <2> QED BY <2>1, <2>2
<1>6. Is(g)
  <2> HIDE DEF Value, X
  <2> QED BY <1>5
<1>7. Is(iter)
  <2> HIDE DEF Is
  <2> QED BY <1>6
<1> HIDE DEF iter
<1>8. \A s \in X : iter[s] = Value(iter, s)
  <2> HIDE DEF Value, X
  <2> QED BY <1>7
<1>9. ASSUME NEW d \in Nat, NEW b \in Text
      PROVE  iter[At(d, b)] = IF d = 0 /\ Len(b) >= 7 THEN b
                              ELSE iter[At(d \div 10, Longer(d, b))]
  <2>1. At(d, b) \in X /\ At(d, b).dVal = d /\ At(d, b).buffer = b
    BY DEF At
  <2> HIDE DEF X
  <2> QED BY <1>8, <2>1
<1> HIDE DEF iter
<1> QED BY <1>1, <1>9 DEF IsTokenLoop

\* The first turns make a digit each.
LEMMA FirstTurns ==
    ASSUME NEW loop, IsTokenLoop(loop), NEW d \in Nat, NEW b \in Text, Len(b) < 5
    PROVE  /\ loop[At(d, b)] = loop[At(d \div 10, Append(b, Digit(d)))]
           /\ Append(b, Digit(d)) \in Text /\ Len(Append(b, Digit(d))) = Len(b) + 1
           /\ d \div 10 \in Nat
<1>1. Len(b) \in Nat
  BY DEF Text
<1>2. Longer(d, b) = Append(b, Digit(d)) /\ ~(d = 0 /\ Len(b) >= 7)
  <2> DEFINE n == Len(b)
  <2>1. n \in Nat /\ n < 5
    BY <1>1
  <2> HIDE DEF n
  <2>2. n # 5 /\ ~(n >= 7)
    BY <2>1
  <2>3. Longer(d, b) = Append(b, Digit(d))
    BY <2>2 DEF Longer, n
  <2> QED BY <2>2, <2>3 DEF n
<1>3. Append(b, Digit(d)) \in Text /\ Len(Append(b, Digit(d))) = Len(b) + 1 /\ d \div 10 \in Nat
  BY DigitOf, Appended
<1> QED BY <1>2, <1>3 DEF IsTokenLoop

\* One character reversed.
LEMMA ReversedOne ==
    ASSUME NEW c \in Code
    PROVE  Reverse(<<c>>) = <<c>>
<1>1. <<c>> \in Text /\ Len(<<c>>) = 1 /\ <<c>>[1] = c
  BY ShortTexts
<1> DEFINE t == <<c>>
<1> HIDE DEF t
<1>2. t \in Text /\ Len(t) = 1
  BY <1>1 DEF t
<1>3. Reverse(t) \in Text /\ Len(Reverse(t)) = 1 /\ Reverse(t)[1] = t[1]
  BY <1>2, Reversed
<1>4. Reverse(t) = t
  BY <1>2, <1>3, SameText
<1> QED BY <1>4 DEF t

\* The later turns, after the seventh character, make the whole digits.
LEMMA WholeDigits ==
    ASSUME NEW loop, IsTokenLoop(loop), NEW value \in Nat, value > 0
    PROVE  \A b \in Text : Len(b) >= 7 => loop[At(value, b)] = b \o Reverse(decimal[value])
<1> DEFINE Holds(w) == \A b \in Text : Len(b) >= 7 => loop[At(w, b)] = b \o Reverse(decimal[w])
           S == {w \in Nat : w > 0 => Holds(w)}
<1>1. ASSUME NEW w \in Nat, \A k \in Nat : k < w => k \in S PROVE w \in S
  <2> SUFFICES ASSUME w > 0, NEW b \in Text, Len(b) >= 7
               PROVE  loop[At(w, b)] = b \o Reverse(decimal[w])
    OBVIOUS
  <2> DEFINE c == Digit(w)
             r == w \div 10
             bc == Append(b, c)
  <2>1. /\ c \in Code /\ r \in Nat /\ r < w /\ (r = 0 <=> w < 10)
        /\ (w < 10 => decimal[w] = <<c>>)
        /\ (~(w < 10) => decimal[w] = Append(decimal[r], c))
    <3>1. c \in Code /\ r \in Nat /\ r < w
      BY DigitOf
    <3>2. r = 0 <=> w < 10
      OBVIOUS
    <3>3. /\ w < 10 => decimal[w] = <<c>>
          /\ ~(w < 10) => decimal[w] = Append(decimal[r], c)
      BY Decimal DEF Digit
    <3> QED BY <3>1, <3>2, <3>3
  <2> HIDE DEF c, r
  <2>2. bc \in Text /\ Len(bc) >= 7 /\ bc = b \o <<c>> /\ Len(b) # 5
    <3>1. bc \in Text /\ Len(bc) = Len(b) + 1 /\ bc = b \o <<c>> /\ Len(b) \in Nat
      BY <2>1, Appended
    <3> HIDE DEF bc
    <3> QED BY <3>1
  <2>3. loop[At(w, b)] = loop[At(r, bc)]
    <3>1. Longer(w, b) = bc
      BY <2>2 DEF Longer, c
    <3> HIDE DEF bc
    <3> QED BY <3>1 DEF r, IsTokenLoop
  <2>4. CASE w < 10
    <3>1. loop[At(r, bc)] = bc
      <4>1. r = 0
        BY <2>1, <2>4
      <4> HIDE DEF bc
      <4> QED BY <2>1, <2>2, <4>1 DEF IsTokenLoop
    <3>2. Reverse(decimal[w]) = <<c>>
      BY <2>1, <2>4, ReversedOne
    <3> HIDE DEF bc
    <3> QED BY <2>2, <2>3, <3>1, <3>2
  <2>5. CASE ~(w < 10)
    <3>1. decimal[w] = Append(decimal[r], c) /\ decimal[r] \in Text
      <4>1. decimal[w] = Append(decimal[r], c)
        BY <2>1, <2>5
      <4>2. decimal[r] \in Text
        BY <2>1, Decimal
      <4> QED BY <4>1, <4>2
    <3>2. Holds(r)
      <4>1. r > 0
        BY <2>1, <2>5
      <4> HIDE DEF Holds
      <4>2. r \in S
        <5> HIDE DEF S
        <5> QED BY <1>1, <2>1
      <4> QED BY <4>1, <4>2
    <3>3. loop[At(r, bc)] = bc \o Reverse(decimal[r])
      <4> HIDE DEF bc
      <4> QED BY <2>2, <3>2
    <3>4. bc \o Reverse(decimal[r]) = b \o Reverse(Append(decimal[r], c))
      BY <2>1, <3>1, ReversedLast
    <3> QED BY <2>3, <3>1, <3>3, <3>4
  <2> QED BY <2>4, <2>5
<1>2. value \in S
  <2> HIDE DEF S
  <2>1. Nat \subseteq S
    BY <1>1, SmallerIn
  <2> QED BY <2>1
<1> HIDE DEF Holds
<1>3. Holds(value)
  BY <1>2
<1> QED BY <1>3 DEF Holds

\* The six digits of a number after the point, the last one first.
Tenth(v)     == v \div 10
SixDigits(v) ==
    LET a == Tenth(v)
        b == Tenth(a)
        c == Tenth(b)
        d == Tenth(c)
        e == Tenth(d)
    IN  Append(Append(Append(Append(Append(Append(<<>>,
            Digit(v)), Digit(a)), Digit(b)), Digit(c)), Digit(d)), Digit(e))

Whole(v) == Tenth(Tenth(Tenth(Tenth(Tenth(Tenth(v))))))

\* All the characters that the loop makes.
LEMMA TokenDigits ==
    ASSUME NEW v \in Nat
    PROVE  token_digits(v, 6) = Append(SixDigits(v), DOT) \o Reverse(decimal[Whole(v)])
<1>1. PICK loop : token_digits(v, 6) = loop[At(v, <<>>)] /\ IsTokenLoop(loop)
  BY TokenLoop
<1> DEFINE a == Tenth(v)
           b == Tenth(a)
           c == Tenth(b)
           d == Tenth(c)
           e == Tenth(d)
           w == Tenth(e)
           t1 == Append(<<>>, Digit(v))
           t2 == Append(t1, Digit(a))
           t3 == Append(t2, Digit(b))
           t4 == Append(t3, Digit(c))
           t5 == Append(t4, Digit(d))
           t6 == Append(t5, Digit(e))
           point == Append(t6, DOT)
<1>2. w = Whole(v) /\ SixDigits(v) = t6
  BY DEF Whole, SixDigits
<1> HIDE DEF a, b, c, d, e, w, t1, t2, t3, t4, t5, t6
<1>3. /\ loop[At(v, <<>>)] = loop[At(a, t1)]
      /\ t1 \in Text /\ Len(t1) = 1 /\ a \in Nat
  <2>1. v \in Nat /\ <<>> \in Text /\ Len(<<>>) = 0 /\ Len(<<>>) < 5
    BY ShortTexts
  <2>2. /\ loop[At(v, <<>>)] = loop[At(v \div 10, Append(<<>>, Digit(v)))]
        /\ Append(<<>>, Digit(v)) \in Text /\ Len(Append(<<>>, Digit(v))) = Len(<<>>) + 1
        /\ v \div 10 \in Nat
    BY <1>1, <2>1, FirstTurns
  <2>3. a = v \div 10 /\ t1 = Append(<<>>, Digit(v))
    BY DEF a, t1, Tenth
  <2> QED BY <2>1, <2>2, <2>3
<1>4. /\ loop[At(a, t1)] = loop[At(b, t2)]
      /\ t2 \in Text /\ Len(t2) = 2 /\ b \in Nat
  <2>1. a \in Nat /\ t1 \in Text /\ Len(t1) = 1 /\ Len(t1) < 5
    BY <1>3
  <2>2. /\ loop[At(a, t1)] = loop[At(a \div 10, Append(t1, Digit(a)))]
        /\ Append(t1, Digit(a)) \in Text /\ Len(Append(t1, Digit(a))) = Len(t1) + 1
        /\ a \div 10 \in Nat
    BY <1>1, <2>1, FirstTurns
  <2>3. b = a \div 10 /\ t2 = Append(t1, Digit(a))
    BY DEF b, t2, Tenth
  <2> QED BY <2>1, <2>2, <2>3
<1>5. /\ loop[At(b, t2)] = loop[At(c, t3)]
      /\ t3 \in Text /\ Len(t3) = 3 /\ c \in Nat
  <2>1. b \in Nat /\ t2 \in Text /\ Len(t2) = 2 /\ Len(t2) < 5
    BY <1>4
  <2>2. /\ loop[At(b, t2)] = loop[At(b \div 10, Append(t2, Digit(b)))]
        /\ Append(t2, Digit(b)) \in Text /\ Len(Append(t2, Digit(b))) = Len(t2) + 1
        /\ b \div 10 \in Nat
    BY <1>1, <2>1, FirstTurns
  <2>3. c = b \div 10 /\ t3 = Append(t2, Digit(b))
    BY DEF c, t3, Tenth
  <2> QED BY <2>1, <2>2, <2>3
<1>6. /\ loop[At(c, t3)] = loop[At(d, t4)]
      /\ t4 \in Text /\ Len(t4) = 4 /\ d \in Nat
  <2>1. c \in Nat /\ t3 \in Text /\ Len(t3) = 3 /\ Len(t3) < 5
    BY <1>5
  <2>2. /\ loop[At(c, t3)] = loop[At(c \div 10, Append(t3, Digit(c)))]
        /\ Append(t3, Digit(c)) \in Text /\ Len(Append(t3, Digit(c))) = Len(t3) + 1
        /\ c \div 10 \in Nat
    BY <1>1, <2>1, FirstTurns
  <2>3. d = c \div 10 /\ t4 = Append(t3, Digit(c))
    BY DEF d, t4, Tenth
  <2> QED BY <2>1, <2>2, <2>3
<1>7. /\ loop[At(d, t4)] = loop[At(e, t5)]
      /\ t5 \in Text /\ Len(t5) = 5 /\ e \in Nat
  <2>1. d \in Nat /\ t4 \in Text /\ Len(t4) = 4 /\ Len(t4) < 5
    BY <1>6
  <2>2. /\ loop[At(d, t4)] = loop[At(d \div 10, Append(t4, Digit(d)))]
        /\ Append(t4, Digit(d)) \in Text /\ Len(Append(t4, Digit(d))) = Len(t4) + 1
        /\ d \div 10 \in Nat
    BY <1>1, <2>1, FirstTurns
  <2>3. e = d \div 10 /\ t5 = Append(t4, Digit(d))
    BY DEF e, t5, Tenth
  <2> QED BY <2>1, <2>2, <2>3
<1>8. t6 \in Text /\ Len(t6) = 6 /\ w \in Nat
  <2>1. Digit(e) \in Code /\ e \div 10 \in Nat
    BY <1>7, DigitOf
  <2>2. Append(t5, Digit(e)) \in Text /\ Len(Append(t5, Digit(e))) = Len(t5) + 1
    BY <1>7, <2>1, Appended
  <2> QED BY <1>7, <2>1, <2>2 DEF Tenth, w, t6
<1>9. loop[At(e, t5)] = loop[At(w, t6 \o decimal_point(w))]
  <2>1. Longer(e, t5) = t6 \o decimal_point(w)
    BY <1>7 DEF Longer, Tenth, t6, w
  <2>2. ~(Len(t5) >= 7) /\ w = e \div 10
    BY <1>7 DEF w, Tenth
  <2>3. loop[At(e, t5)] = loop[At(e \div 10, Longer(e, t5))]
    BY <1>1, <1>7, <2>2 DEF IsTokenLoop
  <2> QED BY <2>1, <2>2, <2>3
<1>10. point \in Text /\ Len(point) = 7 /\ point = t6 \o <<DOT>>
  <2>1. DOT \in Code
    BY DEF DOT, Code
  <2>2. point \in Text /\ Len(point) = Len(t6) + 1 /\ point = t6 \o <<DOT>>
    BY <1>8, <2>1, Appended
  <2> HIDE DEF point
  <2> QED BY <1>8, <2>2
<1>11. loop[At(w, t6 \o decimal_point(w))] = point \o Reverse(decimal[w])
  <2>1. CASE w = 0
    <3> DEFINE all == Append(point, ZERO)
    <3>1. all \in Text /\ Len(all) = 8 /\ all = point \o <<ZERO>>
      <4>1. ZERO \in Code
        BY DEF ZERO, Code
      <4> HIDE DEF point
      <4> QED BY <1>10, <4>1, Appended
    <3>2. t6 \o decimal_point(w) = all
      <4>1. decimal_point(w) = <<DOT, ZERO>>
        BY <2>1 DEF decimal_point
      <4>2. t6 \o <<DOT, ZERO>> = Append(Append(t6, DOT), ZERO)
        BY <1>8 DEF Text, DOT, ZERO, Code
      <4> QED BY <4>1, <4>2
    <3>3. Reverse(decimal[w]) = <<ZERO>>
      <4>1. decimal[0] = <<ZERO>>
        <5>1. decimal[0] = <<ZERO + (0 % 10)>>
          BY Decimal
        <5>2. ZERO + (0 % 10) = ZERO
          BY DEF ZERO
        <5> QED BY <5>1, <5>2
      <4>2. ZERO \in Code
        BY DEF ZERO, Code
      <4> QED BY <2>1, <4>1, <4>2, ReversedOne
    <3>4. loop[At(w, all)] = all
      <4> HIDE DEF all
      <4>1. w = 0 /\ Len(all) >= 7
        BY <2>1, <3>1
      <4> QED BY <1>1, <1>8, <3>1, <4>1 DEF IsTokenLoop
    <3> HIDE DEF all, point
    <3> QED BY <3>1, <3>2, <3>3, <3>4
  <2>2. CASE w # 0
    <3>1. decimal_point(w) = <<DOT>> /\ w > 0
      BY <1>8, <2>2 DEF decimal_point
    <3> HIDE DEF point
    <3>2. \A t \in Text : Len(t) >= 7 => loop[At(w, t)] = t \o Reverse(decimal[w])
      BY <1>1, <1>8, <3>1, WholeDigits
    <3>3. loop[At(w, point)] = point \o Reverse(decimal[w])
      <4>1. point \in Text /\ Len(point) >= 7
        BY <1>10
      <4> QED BY <3>2, <4>1
    <3> QED BY <1>10, <3>1, <3>3
  <2> QED BY <2>1, <2>2
<1> QED BY <1>1, <1>2, <1>3, <1>4, <1>5, <1>6, <1>7, <1>9, <1>11

\* Places from the first to j, and from i to j.
LEMMA Cut ==
    ASSUME NEW t \in Text, NEW j \in 0..Len(t)
    PROVE  /\ SubSeq(t, 1, j) \in Text /\ Len(SubSeq(t, 1, j)) = j
           /\ \A i \in 1..j : SubSeq(t, 1, j)[i] = t[i]
BY DEF Text

\* The places from i to j.
LEMMA CutFrom ==
    ASSUME NEW t \in Text, NEW i \in Nat \ {0}, NEW j \in 0..Len(t), i <= j + 1
    PROVE  /\ SubSeq(t, i, j) \in Text /\ Len(SubSeq(t, i, j)) = j - i + 1
           /\ \A k \in 1..(j - i + 1) : SubSeq(t, i, j)[k] = t[i + k - 1]
BY DEF Text

\* Digits are characters between ZERO and nine more.
LEMMA DigitsInRange ==
    ASSUME NEW t \in Text
    PROVE  DigitsOf(t) <=> \A i \in 1..Len(t) : t[i] \in ZERO..(ZERO + 9)
<1>1. DOMAIN t = 1..Len(t)
  BY DEF Text
<1> QED BY <1>1 DEF DigitsOf, Range

\* The six digits, one by one.
LEMMA SixDigitsType ==
    ASSUME NEW v \in Nat
    PROVE  /\ SixDigits(v) \in Text /\ Len(SixDigits(v)) = 6
           /\ SixDigits(v)[1] = Digit(v)
           /\ SixDigits(v)[2] = Digit(Tenth(v))
           /\ SixDigits(v)[3] = Digit(Tenth(Tenth(v)))
           /\ SixDigits(v)[4] = Digit(Tenth(Tenth(Tenth(v))))
           /\ SixDigits(v)[5] = Digit(Tenth(Tenth(Tenth(Tenth(v)))))
           /\ SixDigits(v)[6] = Digit(Tenth(Tenth(Tenth(Tenth(Tenth(v))))))
           /\ \A i \in 1..6 : SixDigits(v)[i] \in ZERO..(ZERO + 9)
           /\ Whole(v) \in Nat
<1> DEFINE a == Tenth(v)
           b == Tenth(a)
           c == Tenth(b)
           d == Tenth(c)
           e == Tenth(d)
           t1 == Append(<<>>, Digit(v))
           t2 == Append(t1, Digit(a))
           t3 == Append(t2, Digit(b))
           t4 == Append(t3, Digit(c))
           t5 == Append(t4, Digit(d))
           t6 == Append(t5, Digit(e))
<1>1. SixDigits(v) = t6
  BY DEF SixDigits
<1>2. \A n \in Nat : Tenth(n) \in Nat /\ Digit(n) \in Code /\ Digit(n) \in ZERO..(ZERO + 9)
  BY DigitOf DEF Tenth
<1>3. a \in Nat /\ b \in Nat /\ c \in Nat /\ d \in Nat /\ e \in Nat /\ Whole(v) \in Nat
  BY <1>2 DEF Whole
<1> HIDE DEF a, b, c, d, e, t1, t2, t3, t4, t5, t6
<1>4. t1 \in Text /\ Len(t1) = 1 /\ t1[1] = Digit(v)
  <2>1. t1 \in Text /\ Len(t1) = Len(<<>>) + 1 /\ t1[Len(<<>>) + 1] = Digit(v)
    BY <1>2, ShortTexts, Appended DEF t1
  <2> QED BY <2>1, ShortTexts
<1>5. t2 \in Text /\ Len(t2) = 2 /\ t2[2] = Digit(a) /\ t2[1] = t1[1]
  <2>1. /\ t2 \in Text /\ Len(t2) = Len(t1) + 1 /\ t2[Len(t1) + 1] = Digit(a)
        /\ \A i \in 1..Len(t1) : t2[i] = t1[i]
    BY <1>2, <1>3, <1>4, Appended DEF t2
  <2> QED BY <1>4, <2>1
<1>6. t3 \in Text /\ Len(t3) = 3 /\ t3[3] = Digit(b) /\ \A i \in 1..2 : t3[i] = t2[i]
  <2>1. /\ t3 \in Text /\ Len(t3) = Len(t2) + 1 /\ t3[Len(t2) + 1] = Digit(b)
        /\ \A i \in 1..Len(t2) : t3[i] = t2[i]
    BY <1>2, <1>3, <1>5, Appended DEF t3
  <2> QED BY <1>5, <2>1
<1>7. t4 \in Text /\ Len(t4) = 4 /\ t4[4] = Digit(c) /\ \A i \in 1..3 : t4[i] = t3[i]
  <2>1. /\ t4 \in Text /\ Len(t4) = Len(t3) + 1 /\ t4[Len(t3) + 1] = Digit(c)
        /\ \A i \in 1..Len(t3) : t4[i] = t3[i]
    BY <1>2, <1>3, <1>6, Appended DEF t4
  <2> QED BY <1>6, <2>1
<1>8. t5 \in Text /\ Len(t5) = 5 /\ t5[5] = Digit(d) /\ \A i \in 1..4 : t5[i] = t4[i]
  <2>1. /\ t5 \in Text /\ Len(t5) = Len(t4) + 1 /\ t5[Len(t4) + 1] = Digit(d)
        /\ \A i \in 1..Len(t4) : t5[i] = t4[i]
    BY <1>2, <1>3, <1>7, Appended DEF t5
  <2> QED BY <1>7, <2>1
<1>9. t6 \in Text /\ Len(t6) = 6 /\ t6[6] = Digit(e) /\ \A i \in 1..5 : t6[i] = t5[i]
  <2>1. /\ t6 \in Text /\ Len(t6) = Len(t5) + 1 /\ t6[Len(t5) + 1] = Digit(e)
        /\ \A i \in 1..Len(t5) : t6[i] = t5[i]
    BY <1>2, <1>3, <1>8, Appended DEF t6
  <2> QED BY <1>8, <2>1
<1>10. /\ t6[1] = Digit(v) /\ t6[2] = Digit(a) /\ t6[3] = Digit(b)
       /\ t6[4] = Digit(c) /\ t6[5] = Digit(d)
  BY <1>4, <1>5, <1>6, <1>7, <1>8, <1>9
<1>11. \A i \in 1..6 : t6[i] \in ZERO..(ZERO + 9)
  <2>1. \A i \in 1..6 : i = 1 \/ i = 2 \/ i = 3 \/ i = 4 \/ i = 5 \/ i = 6
    OBVIOUS
  <2> QED BY <1>2, <1>3, <1>9, <1>10, <2>1
<1> QED BY <1>1, <1>3, <1>9, <1>10, <1>11 DEF a, b, c, d, e

\* The characters of token_digits, in the order in which they are read.
LEMMA TokenReversed ==
    ASSUME NEW v \in Nat, NEW whole, whole = decimal[Whole(v)]
    PROVE  LET made == Reverse(token_digits(v, 6))
           IN  /\ whole \in Text /\ made \in Text /\ Len(made) = Len(whole) + 7
               /\ \A i \in 1..Len(whole) : made[i] = whole[i]
               /\ made[Len(whole) + 1] = DOT
               /\ \A i \in 1..6 : made[Len(whole) + 1 + i] = SixDigits(v)[7 - i]
<1> DEFINE n == Len(whole)
           six == SixDigits(v)
           point == Append(six, DOT)
           back == Reverse(whole)
           all == token_digits(v, 6)
           made == Reverse(all)
<1>1. whole \in Text /\ n \in Nat
  <2>1. whole \in Text
    BY SixDigitsType, Decimal
  <2> QED BY <2>1 DEF Text
<1>2. six \in Text /\ Len(six) = 6
  BY SixDigitsType
<1>3. all = point \o back
  BY TokenDigits
<1> HIDE DEF n, six, point, all
<1>4. point \in Text /\ Len(point) = 7 /\ point[7] = DOT /\ \A i \in 1..6 : point[i] = six[i]
  <2>1. DOT \in Code
    BY DEF DOT, Code
  <2>2. /\ point \in Text /\ Len(point) = Len(six) + 1 /\ point[Len(six) + 1] = DOT
        /\ \A i \in 1..Len(six) : point[i] = six[i]
    BY <1>2, <2>1, Appended DEF point
  <2> QED BY <1>2, <2>2
<1>5. /\ back \in Text /\ Len(back) = n
      /\ \A i \in 1..n : back[i] = whole[n - i + 1]
  BY <1>1, Reversed DEF n
<1> HIDE DEF back
<1>6. /\ all \in Text /\ Len(all) = 7 + n
      /\ \A i \in 1..7 : all[i] = point[i]
      /\ \A i \in 1..n : all[7 + i] = back[i]
  <2>1. /\ all \in Text /\ Len(all) = Len(point) + Len(back)
        /\ \A i \in 1..Len(point) : all[i] = point[i]
        /\ \A i \in 1..Len(back) : all[Len(point) + i] = back[i]
    BY <1>3, <1>4, <1>5, Joined
  <2> QED BY <1>4, <1>5, <2>1
<1>7. /\ made \in Text /\ Len(made) = n + 7
      /\ \A i \in 1..(n + 7) : made[i] = all[(n + 7) - i + 1]
  <2>1. /\ made \in Text /\ Len(made) = Len(all)
        /\ \A i \in 1..Len(all) : made[i] = all[Len(all) - i + 1]
    BY <1>6, Reversed
  <2>2. Len(all) = n + 7
    BY <1>1, <1>6
  <2> HIDE DEF made
  <2> QED BY <2>1, <2>2
<1> HIDE DEF made
<1>8. ASSUME NEW i \in 1..n PROVE made[i] = whole[i]
  <2> DEFINE k == n - i + 1
  <2>1. k \in 1..n /\ (n + 7) - i + 1 = 7 + k /\ n - k + 1 = i /\ i \in 1..(n + 7)
    BY <1>1
  <2> HIDE DEF k
  <2>2. made[i] = all[7 + k] /\ all[7 + k] = back[k] /\ back[k] = whole[n - k + 1]
    BY <1>5, <1>6, <1>7, <2>1
  <2> QED BY <2>1, <2>2
<1>9. made[n + 1] = DOT
  <2>1. n + 1 \in 1..(n + 7) /\ (n + 7) - (n + 1) + 1 = 7
    BY <1>1
  <2>2. made[n + 1] = all[7]
    BY <1>7, <2>1
  <2> QED BY <1>4, <1>6, <2>2
<1>10. ASSUME NEW i \in 1..6 PROVE made[n + 1 + i] = six[7 - i]
  <2>1. n + 1 + i \in 1..(n + 7) /\ (n + 7) - (n + 1 + i) + 1 = 7 - i /\ 7 - i \in 1..6
    BY <1>1
  <2>2. made[n + 1 + i] = all[7 - i]
    BY <1>7, <2>1
  <2> QED BY <1>4, <1>6, <2>1, <2>2
<1> QED BY <1>1, <1>7, <1>8, <1>9, <1>10 DEF n, made, all, six

\* Six digits after the whole ones: the number again.
IsPadded(t, v) ==
    LET whole == decimal[Whole(v)]
    IN  /\ t \in Text /\ Len(t) = Len(whole) + 6
        /\ \A i \in 1..Len(whole) : t[i] = whole[i]
        /\ \A i \in 1..6 : t[Len(whole) + i] = SixDigits(v)[7 - i]

\* A digit after a text that reads as a tenth of the number.
LEMMA DigitAdded ==
    ASSUME NEW t \in Text, NEW k \in Nat, Reading(t) = Tenth(k)
    PROVE  LET u == Append(t, Digit(k))
           IN  /\ u \in Text /\ Len(u) = Len(t) + 1 /\ u[Len(t) + 1] = Digit(k)
               /\ Reading(u) = k
               /\ \A i \in 1..Len(t) : u[i] = t[i]
<1> DEFINE u == Append(t, Digit(k))
<1>1. Digit(k) \in Code /\ k = 10 * Tenth(k) + (Digit(k) - ZERO)
  BY DigitOf DEF Tenth
<1>2. Reading(u) = 10 * Reading(t) + (Digit(k) - ZERO)
  BY <1>1, ReadingOfOneMore
<1>3. /\ u \in Text /\ Len(u) = Len(t) + 1 /\ u[Len(t) + 1] = Digit(k)
      /\ \A i \in 1..Len(t) : u[i] = t[i]
  BY <1>1, Appended
<1> HIDE DEF u
<1> QED BY <1>1, <1>2, <1>3 DEF u

\* The whole digits and the six after them read as the number.
LEMMA TokenReads ==
    ASSUME NEW v \in Nat, NEW t, IsPadded(t, v)
    PROVE  Reading(t) = v
<1> DEFINE whole == decimal[Whole(v)]
           a == Tenth(v)
           b == Tenth(a)
           c == Tenth(b)
           d == Tenth(c)
           e == Tenth(d)
           w == Tenth(e)
           t1 == Append(whole, Digit(e))
           t2 == Append(t1, Digit(d))
           t3 == Append(t2, Digit(c))
           t4 == Append(t3, Digit(b))
           t5 == Append(t4, Digit(a))
           t6 == Append(t5, Digit(v))
           n == Len(whole)
<1>1. \A k \in Nat : Tenth(k) \in Nat
  BY DigitOf DEF Tenth
<1>2. w = Whole(v)
  BY DEF Whole
<1>3. a \in Nat /\ b \in Nat /\ c \in Nat /\ d \in Nat /\ e \in Nat /\ w \in Nat
  BY <1>1
<1>4. /\ SixDigits(v)[1] = Digit(v) /\ SixDigits(v)[2] = Digit(a) /\ SixDigits(v)[3] = Digit(b)
      /\ SixDigits(v)[4] = Digit(c) /\ SixDigits(v)[5] = Digit(d) /\ SixDigits(v)[6] = Digit(e)
  BY SixDigitsType
<1>5. /\ a = Tenth(v) /\ b = Tenth(a) /\ c = Tenth(b)
      /\ d = Tenth(c) /\ e = Tenth(d) /\ w = Tenth(e)
  OBVIOUS
<1> HIDE DEF a, b, c, d, e, w, t1, t2, t3, t4, t5, t6
<1>6. whole \in Text /\ Reading(whole) = w
  BY <1>2, <1>3, Decimal, DecimalReads
<1>7. /\ n \in Nat /\ t \in Text /\ Len(t) = n + 6
      /\ \A i \in 1..n : t[i] = whole[i]
      /\ \A i \in 1..6 : t[n + i] = SixDigits(v)[7 - i]
  <2>1. n \in Nat
    BY <1>6 DEF Text
  <2> QED BY <2>1 DEF IsPadded
<1> HIDE DEF whole
<1>8. t1 \in Text /\ Len(t1) = Len(whole) + 1 /\ t1[Len(whole) + 1] = Digit(e) /\ Reading(t1) = e
      /\ \A i \in 1..Len(whole) : t1[i] = whole[i]
  <2>1. whole \in Text /\ e \in Nat /\ Reading(whole) = Tenth(e)
    BY <1>3, <1>5, <1>6
  <2> QED BY <2>1, DigitAdded DEF t1
<1>9. t2 \in Text /\ Len(t2) = Len(t1) + 1 /\ t2[Len(t1) + 1] = Digit(d) /\ Reading(t2) = d
      /\ \A i \in 1..Len(t1) : t2[i] = t1[i]
  <2>1. t1 \in Text /\ d \in Nat /\ Reading(t1) = Tenth(d)
    BY <1>3, <1>5, <1>8
  <2> QED BY <2>1, DigitAdded DEF t2
<1>10. t3 \in Text /\ Len(t3) = Len(t2) + 1 /\ t3[Len(t2) + 1] = Digit(c) /\ Reading(t3) = c
      /\ \A i \in 1..Len(t2) : t3[i] = t2[i]
  <2>1. t2 \in Text /\ c \in Nat /\ Reading(t2) = Tenth(c)
    BY <1>3, <1>5, <1>9
  <2> QED BY <2>1, DigitAdded DEF t3
<1>11. t4 \in Text /\ Len(t4) = Len(t3) + 1 /\ t4[Len(t3) + 1] = Digit(b) /\ Reading(t4) = b
      /\ \A i \in 1..Len(t3) : t4[i] = t3[i]
  <2>1. t3 \in Text /\ b \in Nat /\ Reading(t3) = Tenth(b)
    BY <1>3, <1>5, <1>10
  <2> QED BY <2>1, DigitAdded DEF t4
<1>12. t5 \in Text /\ Len(t5) = Len(t4) + 1 /\ t5[Len(t4) + 1] = Digit(a) /\ Reading(t5) = a
      /\ \A i \in 1..Len(t4) : t5[i] = t4[i]
  <2>1. t4 \in Text /\ a \in Nat /\ Reading(t4) = Tenth(a)
    BY <1>3, <1>5, <1>11
  <2> QED BY <2>1, DigitAdded DEF t5
<1>13. t6 \in Text /\ Len(t6) = Len(t5) + 1 /\ t6[Len(t5) + 1] = Digit(v) /\ Reading(t6) = v
      /\ \A i \in 1..Len(t5) : t6[i] = t5[i]
  <2>1. t5 \in Text /\ v \in Nat /\ Reading(t5) = Tenth(v)
    BY <1>3, <1>5, <1>12
  <2> QED BY <2>1, DigitAdded DEF t6
<1> HIDE DEF n
<1>14. /\ Len(t1) = n + 1 /\ Len(t2) = n + 2 /\ Len(t3) = n + 3
       /\ Len(t4) = n + 4 /\ Len(t5) = n + 5 /\ Len(t6) = n + 6
  BY <1>8, <1>9, <1>10, <1>11, <1>12, <1>13, <1>7 DEF n
<1>15. /\ t6[n + 6] = Digit(v) /\ t6[n + 5] = Digit(a) /\ t6[n + 4] = Digit(b)
       /\ t6[n + 3] = Digit(c) /\ t6[n + 2] = Digit(d) /\ t6[n + 1] = Digit(e)
       /\ \A i \in 1..n : t6[i] = whole[i]
  <2>1. /\ t6[n + 6] = Digit(v) /\ \A i \in 1..(n + 5) : t6[i] = t5[i]
    BY <1>13, <1>7, <1>14
  <2>2. /\ t5[n + 5] = Digit(a) /\ \A i \in 1..(n + 4) : t5[i] = t4[i]
    BY <1>12, <1>7, <1>14
  <2>3. /\ t4[n + 4] = Digit(b) /\ \A i \in 1..(n + 3) : t4[i] = t3[i]
    BY <1>11, <1>7, <1>14
  <2>4. /\ t3[n + 3] = Digit(c) /\ \A i \in 1..(n + 2) : t3[i] = t2[i]
    BY <1>10, <1>7, <1>14
  <2>5. /\ t2[n + 2] = Digit(d) /\ \A i \in 1..(n + 1) : t2[i] = t1[i]
    BY <1>9, <1>7, <1>14
  <2>6. /\ t1[n + 1] = Digit(e) /\ \A i \in 1..n : t1[i] = whole[i]
    BY <1>8 DEF n
  <2>7. ASSUME NEW i \in 1..n PROVE t6[i] = whole[i]
    <3>1. i \in 1..(n + 1) /\ i \in 1..(n + 2) /\ i \in 1..(n + 3) /\ i \in 1..(n + 4)
          /\ i \in 1..(n + 5)
      BY <1>7
    <3> QED BY <2>1, <2>2, <2>3, <2>4, <2>5, <2>6, <3>1
  <2>8. /\ t6[n + 5] = t5[n + 5] /\ t6[n + 4] = t4[n + 4] /\ t6[n + 3] = t3[n + 3]
        /\ t6[n + 2] = t2[n + 2] /\ t6[n + 1] = t1[n + 1]
    <3>1. t6[n + 5] = t5[n + 5] /\ t6[n + 4] = t5[n + 4] /\ t6[n + 3] = t5[n + 3]
          /\ t6[n + 2] = t5[n + 2] /\ t6[n + 1] = t5[n + 1]
      <4>1. /\ n + 5 \in 1..(n + 5) /\ n + 4 \in 1..(n + 5) /\ n + 3 \in 1..(n + 5)
            /\ n + 2 \in 1..(n + 5) /\ n + 1 \in 1..(n + 5)
        <5>1. n \in Nat
          BY <1>7
        <5> HIDE DEF n
        <5> QED BY <5>1
      <4>2. \A i \in 1..(n + 5) : t6[i] = t5[i]
        BY <2>1
      <4> QED BY <4>1, <4>2, Zenon
    <3>2. /\ t5[n + 4] = t4[n + 4] /\ t5[n + 3] = t4[n + 3]
          /\ t5[n + 2] = t4[n + 2] /\ t5[n + 1] = t4[n + 1]
      <4>1. /\ n + 4 \in 1..(n + 4) /\ n + 3 \in 1..(n + 4) /\ n + 2 \in 1..(n + 4)
            /\ n + 1 \in 1..(n + 4)
        <5>1. n \in Nat
          BY <1>7
        <5> HIDE DEF n
        <5> QED BY <5>1
      <4>2. \A i \in 1..(n + 4) : t5[i] = t4[i]
        BY <2>2
      <4> QED BY <4>1, <4>2, Zenon
    <3>3. t4[n + 3] = t3[n + 3] /\ t4[n + 2] = t3[n + 2] /\ t4[n + 1] = t3[n + 1]
      <4>1. n + 3 \in 1..(n + 3) /\ n + 2 \in 1..(n + 3) /\ n + 1 \in 1..(n + 3)
        <5>1. n \in Nat
          BY <1>7
        <5> HIDE DEF n
        <5> QED BY <5>1
      <4>2. \A i \in 1..(n + 3) : t4[i] = t3[i]
        BY <2>3
      <4> QED BY <4>1, <4>2, Zenon
    <3>4. t3[n + 2] = t2[n + 2] /\ t3[n + 1] = t2[n + 1] /\ t2[n + 1] = t1[n + 1]
      <4>1. /\ n + 2 \in 1..(n + 2) /\ n + 1 \in 1..(n + 2)
            /\ n + 1 \in 1..(n + 1)
        <5>1. n \in Nat
          BY <1>7
        <5> HIDE DEF n
        <5> QED BY <5>1
      <4>2. /\ \A i \in 1..(n + 2) : t3[i] = t2[i]
            /\ \A i \in 1..(n + 1) : t2[i] = t1[i]
        BY <2>4, <2>5
      <4> QED BY <4>1, <4>2, Zenon
    <3> QED BY <3>1, <3>2, <3>3, <3>4
  <2> QED BY <2>1, <2>2, <2>3, <2>4, <2>5, <2>6, <2>7, <2>8
<1>16. ASSUME NEW i \in 1..(n + 6) PROVE t[i] = t6[i]
  <2>1. CASE i <= n
    <3>1. i \in 1..n
      BY <1>7, <2>1
    <3> QED BY <1>7, <1>15, <3>1
  <2>2. CASE i > n
    <3> DEFINE k == i - n
    <3>1. k \in 1..6 /\ i = n + k
      <4>1. n \in Nat
        BY <1>7
      <4>2. i \in Int /\ n < i /\ i <= n + 6
        BY <2>2, <4>1
      <4> QED BY <4>1, <4>2
    <3> HIDE DEF k
    <3>2. k = 1 \/ k = 2 \/ k = 3 \/ k = 4 \/ k = 5 \/ k = 6
      BY <3>1
    <3>3. t[n + k] = SixDigits(v)[7 - k]
      BY <1>7, <3>1
    <3>4. SixDigits(v)[7 - k] = t6[n + k]
      <4>1. 7 - 1 = 6 /\ 7 - 2 = 5 /\ 7 - 3 = 4 /\ 7 - 4 = 3 /\ 7 - 5 = 2 /\ 7 - 6 = 1
        OBVIOUS
      <4> QED BY <1>4, <1>15, <3>2, <4>1
    <3> QED BY <3>1, <3>3, <3>4
  <2> QED BY <1>7, <2>1, <2>2
<1>17. t = t6
  BY <1>13, <1>7, <1>14, <1>16, SameText
<1> QED BY <1>13, <1>17

\* Of the characters that fit, the zeros after the last other one are cut.
LEMMA Stripped ==
    ASSUME NEW t \in Text, NEW m \in 0..Len(t), NEW j \in 2..m, t[j] # ZERO,
           \A k \in 1..Len(t) : k > j => t[k] = ZERO
    PROVE  strip_zeros(SubSeq(t, 1, m)) = SubSeq(t, 1, j)
<1> DEFINE u == SubSeq(t, 1, m)
           Is(i) == /\ i = 1 \/ u[i] # ZERO
                    /\ \A k \in DOMAIN u : k > i => u[k] = ZERO
           last == CHOOSE i \in DOMAIN u : Is(i)
<1>1. Len(t) \in Nat /\ m \in Nat /\ j \in Nat /\ j <= m /\ j # 1 /\ m <= Len(t)
  BY DEF Text
<1>2. u \in Text /\ Len(u) = m /\ DOMAIN u = 1..m /\ \A i \in 1..m : u[i] = t[i]
  <2>1. u \in Text /\ Len(u) = m /\ \A i \in 1..m : u[i] = t[i]
    BY Cut
  <2> HIDE DEF u
  <2> QED BY <2>1 DEF Text
<1> HIDE DEF u
<1>3. j \in 1..m /\ Is(j)
  BY <1>1, <1>2
<1>4. last \in 1..m /\ Is(last)
  <2> HIDE DEF Is
  <2> QED BY <1>2, <1>3
<1> HIDE DEF last
<1>5. last = j
  <2>1. ~(j > last)
    BY <1>1, <1>2, <1>3, <1>4
  <2>2. ~(last > j)
    BY <1>1, <1>2, <1>3, <1>4
  <2> QED BY <1>1, <1>4, <2>1, <2>2
<1>6. strip_zeros(u) = SubSeq(u, 1, j)
  BY <1>5 DEF strip_zeros, last
<1>7. SubSeq(u, 1, j) = SubSeq(t, 1, j)
  <2> DEFINE a == SubSeq(u, 1, j)
             b == SubSeq(t, 1, j)
  <2>1. a \in Text /\ Len(a) = j /\ \A i \in 1..j : a[i] = u[i]
    BY <1>1, <1>2, Cut
  <2>2. b \in Text /\ Len(b) = j /\ \A i \in 1..j : b[i] = t[i]
    BY <1>1, Cut
  <2> HIDE DEF a, b
  <2>3. \A i \in 1..j : a[i] = b[i]
    BY <1>1, <1>2, <2>1, <2>2
  <2>4. a = b
    BY <2>1, <2>2, <2>3, SameText
  <2> QED BY <2>4 DEF a, b
<1> QED BY <1>6, <1>7 DEF u

\* `text` is printed in any room that takes it, and the point: the characters that
\* are `made`, up to the last that is not a zero, which is the j-th.
IsAmount(v, whole, made, j, text) ==
    /\ made[j] # ZERO
    /\ \A k \in 1..Len(made) : k > j => made[k] = ZERO
    /\ text = IF j = Len(whole) + 1 THEN whole ELSE SubSeq(made, 1, j)
    /\ \A size \in Nat, token \in Text :
          size > j =>
              snprintf_token(size, v, 6, token) =
                  IF Len(text) + Len(token) + 1 < size THEN text \o <<SPACE>> \o token
                                                       ELSE text

\* What snprintf_token writes of any amount, for every size with room for the point.
LEMMA AmountText ==
    ASSUME NEW v \in Nat, NEW whole, whole = decimal[Whole(v)]
    PROVE  \E j \in (Len(whole) + 1)..(Len(whole) + 7), text \in Text :
              IsAmount(v, whole, Reverse(token_digits(v, 6)), j, text)
<1> DEFINE made == Reverse(token_digits(v, 6))
           n == Len(whole)
           rest == {k \in 1..(n + 7) : made[k] # ZERO}
           j == Max(rest)
           cut == SubSeq(made, 1, j)
<1>1. /\ whole \in Text /\ made \in Text /\ Len(made) = n + 7
      /\ \A i \in 1..n : made[i] = whole[i]
      /\ made[n + 1] = DOT
      /\ \A i \in 1..6 : made[n + 1 + i] = SixDigits(v)[7 - i]
  BY TokenReversed
<1>2. n \in Nat \ {0} /\ \A i \in 1..n : whole[i] \in ZERO..(ZERO + 9)
  <2>1. Whole(v) \in Nat
    BY SixDigitsType
  <2>2. n \in Nat \ {0} /\ DigitsOf(whole)
    BY <2>1, DecimalReads DEF IsNumeral
  <2> QED BY <1>1, <2>2, DigitsInRange
<1>3. \A i \in 1..6 : SixDigits(v)[i] \in ZERO..(ZERO + 9)
  BY SixDigitsType
<1> HIDE DEF made, n
<1>4. n + 1 \in rest /\ rest \in SUBSET (1..(n + 7))
  BY <1>1, <1>2 DEF DOT, ZERO
<1>5. j \in rest /\ \A k \in rest : k <= j
  <2> HIDE DEF rest
  <2>1. n + 7 \in Nat /\ rest # {}
    BY <1>2, <1>4
  <2> QED BY <1>4, <2>1, LastPlace
<1> HIDE DEF j
<1>6. /\ j \in (n + 1)..(n + 7) /\ made[j] # ZERO
      /\ \A k \in 1..(n + 7) : k > j => made[k] = ZERO
  BY <1>2, <1>4, <1>5
<1> HIDE DEF rest
<1>7. cut \in Text /\ Len(cut) = j /\ \A i \in 1..j : cut[i] = made[i]
  <2>1. j \in 0..Len(made)
    BY <1>1, <1>2, <1>6
  <2> QED BY <1>1, <2>1, Cut
<1> HIDE DEF cut
<1>8. strip_point(cut) = IF j = n + 1 THEN whole ELSE cut
  <2>1. Last(cut) = made[j]
    BY <1>2, <1>6, <1>7 DEF Last
  <2>2. CASE j = n + 1
    <3> DEFINE u == SubSeq(cut, 1, n)
    <3>1. strip_point(cut) = u
      BY <1>1, <1>2, <1>7, <2>1, <2>2 DEF strip_point, Front
    <3>2. u \in Text /\ Len(u) = n /\ \A i \in 1..n : u[i] = cut[i]
      <4>1. n \in 0..Len(cut)
        BY <1>2, <1>7, <2>2
      <4> QED BY <1>7, <4>1, Cut
    <3> HIDE DEF u
    <3>3. \A i \in 1..n : u[i] = whole[i]
      BY <1>1, <1>2, <1>7, <2>2, <3>2
    <3>4. u = whole
      BY <1>1, <3>2, <3>3, SameText DEF n
    <3> QED BY <2>2, <3>1, <3>4
  <2>3. CASE j # n + 1
    <3>1. made[j] # DOT
      <4> DEFINE i == j - (n + 1)
      <4>1. i \in 1..6 /\ j = n + 1 + i /\ 7 - i \in 1..6
        BY <1>2, <1>6, <2>3
      <4> HIDE DEF i
      <4>2. made[j] = SixDigits(v)[7 - i]
        BY <1>1, <4>1
      <4>3. DOT \notin ZERO..(ZERO + 9)
        BY DEF DOT, ZERO
      <4> QED BY <1>3, <4>1, <4>2, <4>3
    <3> QED BY <2>1, <2>3, <3>1 DEF strip_point
  <2> QED BY <2>2, <2>3
<1> DEFINE text == IF j = n + 1 THEN whole ELSE cut
<1>9. text \in Text
  BY <1>1, <1>7
<1>10. ASSUME NEW size \in Nat, NEW token \in Text, size > j
       PROVE  snprintf_token(size, v, 6, token) =
                  IF Len(text) + Len(token) + 1 < size
                    THEN text \o <<SPACE>> \o token ELSE text
  <2> DEFINE m == Min({size - 1, Len(made)})
             kept == SubSeq(made, 1, m)
  <2>1. m \in 0..Len(made) /\ j \in 2..m
    <3>1. m = IF size - 1 <= n + 7 THEN size - 1 ELSE n + 7
      <4>1. Len(made) = n + 7 /\ size - 1 \in Int /\ n + 7 \in Int
        BY <1>1, <1>2
      <4> HIDE DEF made
      <4>2. Min({size - 1, n + 7}) = IF size - 1 <= n + 7 THEN size - 1 ELSE n + 7
        BY <4>1, MinOfTwo
      <4> QED BY <4>1, <4>2
    <3> HIDE DEF m
    <3> QED BY <1>1, <1>2, <1>6, <1>10, <3>1
  <2> HIDE DEF m
  <2>2. strip_zeros(kept) = cut
    <3>1. \A k \in 1..Len(made) : k > j => made[k] = ZERO
      BY <1>1, <1>6
    <3> QED BY <1>1, <1>6, <2>1, <3>1, Stripped DEF cut
  <2>3. strip_point(strip_zeros(kept)) = text
    BY <1>8, <2>2
  <2> HIDE DEF text
  <2>4. snprintf_token(size, v, 6, token) =
            LET dst == strip_point(strip_zeros(kept))
            IN  IF Len(dst) + Len(token) + 1 < size THEN dst \o <<SPACE>> \o token ELSE dst
    BY DEF snprintf_token, made, m
  <2> QED BY <2>3, <2>4
<1> HIDE DEF text
<1>11. IsAmount(v, whole, made, j, text)
  <2>1. \A k \in 1..Len(made) : k > j => made[k] = ZERO
    BY <1>1, <1>6
  <2>2. text = IF j = Len(whole) + 1 THEN whole ELSE SubSeq(made, 1, j)
    BY DEF text, cut, n
  <2> QED BY <1>6, <1>10, <2>1, <2>2 DEF IsAmount
<1> QED BY <1>6, <1>9, <1>11 DEF n, made

\* Every amount that a uint64_t holds, and more, up to twenty digits, reads as what will
\* be paid, in any room for it (printers.c:52).
THEOREM TokenIsRead == number \in Nat /\ number < tens[20] => TokenIsAmount
<1> SUFFICES ASSUME number \in Nat, number < tens[20] PROVE TokenIsAmount
  OBVIOUS
<1> DEFINE W == decimal[Whole(number)]
           n == Len(W)
           made == Reverse(token_digits(number, 6))
           six == SixDigits(number)
<1>1. PICK j \in (n + 1)..(n + 7), text \in Text :
         IsAmount(number, W, made, j, text)
  BY AmountText
<1>2. /\ W \in Text /\ made \in Text /\ Len(made) = n + 7
      /\ \A i \in 1..n : made[i] = W[i]
      /\ made[n + 1] = DOT
      /\ \A i \in 1..6 : made[n + 1 + i] = six[7 - i]
  BY TokenReversed
<1>3. /\ Whole(number) \in Nat /\ \A i \in 1..6 : six[i] \in ZERO..(ZERO + 9)
  BY SixDigitsType
<1>4. /\ n \in Nat \ {0} /\ IsNumeral(W) /\ \A i \in 1..n : W[i] \in ZERO..(ZERO + 9)
      /\ n > 1 => Whole(number) >= tens[n - 1]
  <2>1. /\ n \in Nat \ {0} /\ IsNumeral(W)
        /\ n > 1 => Whole(number) >= tens[n - 1]
    BY <1>3, DecimalReads
  <2>2. DigitsOf(W)
    BY <2>1 DEF IsNumeral
  <2> QED BY <1>2, <2>1, <2>2, DigitsInRange
<1>5. n <= 20
  <2> SUFFICES ASSUME n > 20 PROVE FALSE
    BY <1>4
  <2>1. Whole(number) <= number
    <3>1. \A k \in Nat : Tenth(k) \in Nat /\ Tenth(k) <= k
      BY DEF Tenth
    <3> DEFINE a == Tenth(number)
               b == Tenth(a)
               c == Tenth(b)
               d == Tenth(c)
               e == Tenth(d)
               f == Tenth(e)
    <3>2. f = Whole(number)
      BY DEF Whole
    <3> HIDE DEF a, b, c, d, e, f
    <3>3. a \in Nat /\ a <= number
      BY <3>1 DEF a
    <3>4. b \in Nat /\ b <= a
      BY <3>1, <3>3 DEF b
    <3>5. c \in Nat /\ c <= b
      BY <3>1, <3>4 DEF c
    <3>6. d \in Nat /\ d <= c
      BY <3>1, <3>5 DEF d
    <3>7. e \in Nat /\ e <= d
      BY <3>1, <3>6 DEF e
    <3>8. f \in Nat /\ f <= e
      BY <3>1, <3>7 DEF f
    <3> QED BY <3>2, <3>3, <3>4, <3>5, <3>6, <3>7, <3>8
  <2> HIDE DEF n
  <2>2. n - 1 \in Nat /\ 20 <= n - 1 /\ n > 1
    BY <1>4
  <2>3. tens[20] <= tens[n - 1] /\ tens[n - 1] \in Nat /\ tens[20] \in Nat
    BY <2>2, TensGrow, TensStep
  <2>4. Whole(number) >= tens[n - 1]
    BY <1>4, <2>2
  <2> QED BY <1>3, <2>1, <2>3, <2>4
<1> HIDE DEF W, made, six
<1>6. /\ made[j] # ZERO
      /\ \A k \in 1..Len(made) : k > j => made[k] = ZERO
      /\ text = IF j = n + 1 THEN W ELSE SubSeq(made, 1, j)
      /\ \A size \in Nat, token \in Text :
             size > j =>
                 snprintf_token(size, number, 6, token) =
                     IF Len(text) + Len(token) + 1 < size
                       THEN text \o <<SPACE>> \o token ELSE text
  BY <1>1 DEF IsAmount
<1> HIDE DEF n
<1> DEFINE points == {i \in DOMAIN text : text[i] = DOT}
           whole  == IF points = {} THEN text ELSE SubSeq(text, 1, Min(points) - 1)
           rest   == SubSeq(text, Len(whole) + 2, Len(text))
           zeros  == [i \in 1..(6 - Len(rest)) |-> ZERO]
           amount == snprintf_token(ROOM, number, DIVISIBILITY, <<>>)
<1>7. ASSUME NEW i \in 1..n PROVE W[i] # DOT
  <2>1. DOT \notin ZERO..(ZERO + 9)
    BY DEF DOT, ZERO
  <2> QED BY <1>4, <1>7, <2>1
<1>8. /\ j = n + 1 => Len(text) = n /\ text = W
      /\ j # n + 1 => /\ Len(text) = j
                      /\ \A i \in 1..j : text[i] = made[i]
  <2>1. j \in 0..Len(made)
    BY <1>2, <1>4
  <2>2. Len(SubSeq(made, 1, j)) = j /\ \A i \in 1..j : SubSeq(made, 1, j)[i] = made[i]
    BY <1>2, <2>1, Cut
  <2> QED BY <1>6, <2>2 DEF n
<1>9. Front(amount) = text
  <2>1. ROOM \in Nat /\ ROOM > j /\ Len(text) + 0 + 1 < ROOM /\ Len(text) \in Nat
    BY <1>4, <1>5, <1>8 DEF ROOM
  <2>2. amount = text \o <<SPACE>> \o <<>>
    <3>1. <<>> \in Text /\ Len(<<>>) = 0
      BY ShortTexts
    <3> QED BY <1>6, <2>1, <3>1 DEF DIVISIBILITY
  <2>3. SPACE \in Code
    BY DEF SPACE, Code
  <2> DEFINE a == Append(text, SPACE)
  <2>4. a = text \o <<SPACE>> \o <<>> /\ a \in Text /\ Len(a) = Len(text) + 1
        /\ \A i \in 1..Len(text) : a[i] = text[i]
    <3>1. a = text \o <<SPACE>> /\ a \in Text /\ Len(a) = Len(text) + 1
          /\ \A i \in 1..Len(text) : a[i] = text[i]
      BY <2>3, Appended
    <3>2. a \o <<>> = a
      BY <3>1 DEF Text
    <3> QED BY <3>1, <3>2
  <2> HIDE DEF a
  <2>5. Front(a) = SubSeq(a, 1, Len(text))
    BY <2>1, <2>4 DEF Front
  <2>6. SubSeq(a, 1, Len(text)) = text
    <3> DEFINE u == SubSeq(a, 1, Len(text))
    <3>1. Len(text) \in 0..Len(a)
      BY <2>1, <2>4
    <3>2. u \in Text /\ Len(u) = Len(text) /\ \A i \in 1..Len(text) : u[i] = a[i]
      BY <2>4, <3>1, Cut
    <3> HIDE DEF u
    <3>3. u = text
      BY <2>4, <3>2, SameText
    <3> QED BY <3>3 DEF u
  <2> QED BY <2>2, <2>4, <2>5, <2>6
<1> HIDE DEF amount
<1>10. whole = W
  <2>1. DOMAIN text = 1..Len(text)
    BY DEF Text
  <2>2. CASE j = n + 1
    <3>1. points = {}
      BY <1>7, <1>8, <2>1, <2>2
    <3> QED BY <1>8, <2>2, <3>1
  <2>3. CASE j # n + 1
    <3>1. n + 1 \in 1..Len(text) /\ text[n + 1] = DOT
      BY <1>2, <1>4, <1>8, <2>3
    <3>2. ASSUME NEW i \in 1..Len(text), i # n + 1 PROVE text[i] # DOT
      <4>1. CASE i <= n
        BY <1>2, <1>4, <1>7, <1>8, <2>3, <4>1
      <4>2. CASE i > n
        <5> DEFINE k == i - (n + 1)
        <5>1. k \in 1..6 /\ i = n + 1 + k /\ 7 - k \in 1..6
          BY <1>4, <1>8, <2>3, <3>2, <4>2
        <5> HIDE DEF k
        <5>2. text[i] = six[7 - k]
          BY <1>2, <1>8, <2>3, <5>1
        <5>3. DOT \notin ZERO..(ZERO + 9)
          BY DEF DOT, ZERO
        <5> QED BY <1>3, <5>1, <5>2, <5>3
      <4> QED BY <1>4, <1>8, <2>3, <4>1, <4>2
    <3>3. points = {n + 1}
      BY <2>1, <3>1, <3>2
    <3> HIDE DEF points
    <3>4. Min(points) = n + 1
      <4>1. Min({n + 1, n + 1}) = n + 1
        BY <1>4, MinOfTwo
      <4> QED BY <3>3, <4>1
    <3> DEFINE u == SubSeq(text, 1, n)
    <3>5. whole = u
      <4>1. (n + 1) - 1 = n
        BY <1>4
      <4> QED BY <3>3, <3>4, <4>1
    <3>6. u \in Text /\ Len(u) = n /\ \A i \in 1..n : u[i] = text[i]
      <4>1. n \in 0..Len(text)
        BY <1>4, <1>8, <2>3
      <4> QED BY <4>1, Cut
    <3> HIDE DEF u, whole
    <3>7. \A i \in 1..n : u[i] = W[i]
      BY <1>2, <1>4, <1>8, <2>3, <3>6
    <3>8. u = W
      BY <1>2, <3>6, <3>7, SameText DEF n
    <3> QED BY <3>5, <3>8
  <2> QED BY <2>2, <2>3
<1>11. points # {} <=> j # n + 1
  <2>1. DOMAIN text = 1..Len(text)
    BY DEF Text
  <2>2. CASE j = n + 1
    BY <1>7, <1>8, <2>1, <2>2
  <2>3. CASE j # n + 1
    <3>1. n + 1 \in 1..Len(text) /\ text[n + 1] = DOT
      BY <1>2, <1>4, <1>8, <2>3
    <3>2. n + 1 \in points
      BY <2>1, <3>1
    <3> HIDE DEF points
    <3> QED BY <2>3, <3>2
  <2> HIDE DEF points
  <2> QED BY <2>2, <2>3
<1> HIDE DEF points, whole
<1>12. /\ rest \in Text /\ Len(rest) = IF j = n + 1 THEN 0 ELSE j - (n + 1)
       /\ \A i \in 1..Len(rest) : rest[i] = made[n + 1 + i] /\ rest[i] \in ZERO..(ZERO + 9)
       /\ j # n + 1 => Last(rest) # ZERO
  <2>1. CASE j = n + 1
    <3>1. rest = <<>>
      <4>1. rest = SubSeq(text, n + 2, n)
        BY <1>8, <1>10, <2>1 DEF n
      <4>2. SubSeq(text, n + 2, n) = <<>>
        BY <1>4 DEF Text
      <4> QED BY <4>1, <4>2
    <3> HIDE DEF rest
    <3> QED BY <2>1, <3>1, ShortTexts
  <2>2. CASE j # n + 1
    <3>1. rest = SubSeq(text, n + 2, j)
      BY <1>8, <1>10, <2>2 DEF n
    <3>2. n + 2 \in Nat \ {0} /\ j \in 0..Len(text) /\ n + 2 <= j + 1
          /\ j - (n + 2) + 1 = j - (n + 1) /\ j - (n + 1) \in 1..6
      BY <1>4, <1>8, <2>2
    <3>3. /\ rest \in Text /\ Len(rest) = j - (n + 2) + 1
          /\ \A k \in 1..(j - (n + 2) + 1) : rest[k] = text[(n + 2) + k - 1]
      <4> DEFINE i == n + 2
                 u == SubSeq(text, i, j)
      <4>1. i \in Nat \ {0} /\ i <= j + 1
        BY <3>2
      <4> HIDE DEF i
      <4>2. u \in Text /\ Len(u) = j - i + 1 /\ \A k \in 1..(j - i + 1) : u[k] = text[i + k - 1]
        BY <3>2, <4>1, CutFrom
      <4>3. rest = u
        BY <3>1 DEF i
      <4> HIDE DEF u, rest
      <4> QED BY <4>2, <4>3 DEF i
    <3> HIDE DEF rest
    <3>4. Len(rest) = j - (n + 1)
      BY <3>2, <3>3
    <3>5. ASSUME NEW i \in 1..Len(rest)
          PROVE  rest[i] = made[n + 1 + i] /\ rest[i] \in ZERO..(ZERO + 9)
      <4>1. (n + 2) + i - 1 = n + 1 + i /\ n + 1 + i \in 1..j /\ i \in 1..6 /\ 7 - i \in 1..6
            /\ i \in 1..(j - (n + 2) + 1)
        BY <1>4, <3>2, <3>4
      <4>2. rest[i] = made[n + 1 + i]
        BY <1>8, <2>2, <3>3, <4>1
      <4> QED BY <1>2, <1>3, <4>1, <4>2
    <3>6. Last(rest) # ZERO
      <4>1. Last(rest) = rest[Len(rest)]
        BY DEF Last
      <4>2. Len(rest) \in 1..Len(rest) /\ n + 1 + Len(rest) = j /\ j > n + 1
        BY <1>4, <3>2, <3>4
      <4> QED BY <1>6, <3>5, <4>1, <4>2
    <3> QED BY <2>2, <3>3, <3>4, <3>5, <3>6
  <2> QED BY <2>1, <2>2
<1> HIDE DEF rest
<1>13. Len(rest) \in 0..6 /\ Len(rest) = j - (n + 1)
  BY <1>4, <1>12
<1>14. Reading(whole \o rest \o zeros) = number
  <2> DEFINE m == Len(rest)
             wr == W \o rest
             t == wr \o zeros
  <2>1. zeros \in Text /\ Len(zeros) = 6 - m /\ \A i \in 1..(6 - m) : zeros[i] = ZERO
    <3>1. ZERO \in Code /\ 6 - m \in Nat
      BY <1>13 DEF ZERO, Code
    <3>2. zeros = [i \in 1..(6 - m) |-> ZERO]
      OBVIOUS
    <3> HIDE DEF m, zeros
    <3>3. ASSUME NEW k \in Nat, NEW c \in Code, NEW u, u = [i \in 1..k |-> c]
          PROVE  u \in Text /\ Len(u) = k /\ \A i \in 1..k : u[i] = c
      BY <3>3 DEF Text
    <3> QED BY <3>1, <3>2, <3>3
  <2> HIDE DEF zeros, m
  <2>2. /\ wr \in Text /\ Len(wr) = n + m
        /\ \A i \in 1..n : wr[i] = W[i]
        /\ \A i \in 1..m : wr[n + i] = rest[i]
    BY <1>2, <1>12, Joined DEF n, m
  <2> HIDE DEF wr
  <2>3. m \in 0..6 /\ m = j - (n + 1)
    BY <1>13 DEF m
  <2>4. /\ t \in Text /\ Len(t) = n + 6
        /\ \A i \in 1..n : t[i] = W[i]
        /\ \A i \in 1..m : t[n + i] = rest[i]
        /\ \A i \in 1..(6 - m) : t[n + m + i] = ZERO
    <3>1. /\ t \in Text /\ Len(t) = Len(wr) + Len(zeros)
          /\ \A i \in 1..Len(wr) : t[i] = wr[i]
          /\ \A i \in 1..Len(zeros) : t[Len(wr) + i] = zeros[i]
      BY <2>1, <2>2, Joined
    <3> HIDE DEF t
    <3>2. \A i \in 1..n : i \in 1..(n + m)
      BY <1>4, <2>3
    <3>3. \A i \in 1..m : n + i \in 1..(n + m)
      BY <1>4, <2>3
    <3>4. Len(wr) = n + m /\ Len(t) = n + 6
      BY <1>4, <2>1, <2>2, <2>3, <3>1
    <3>5. \A i \in 1..(6 - m) : t[n + m + i] = ZERO
      BY <2>1, <3>1, <3>4
    <3> QED BY <2>2, <3>1, <3>2, <3>3, <3>4, <3>5
  <2> HIDE DEF t
  <2>5. ASSUME NEW i \in 1..6 PROVE t[n + i] = six[7 - i]
    <3>1. made[n + 1 + i] = six[7 - i]
      BY <1>2
    <3>2. CASE i <= m
      <4>1. i \in 1..m
        BY <2>3, <3>2
      <4>2. rest[i] = made[n + 1 + i]
        BY <1>12, <4>1 DEF m
      <4> QED BY <2>4, <3>1, <4>1, <4>2
    <3>3. CASE i > m
      <4> DEFINE k == i - m
      <4>1. k \in 1..(6 - m) /\ n + m + k = n + i
        BY <1>4, <2>3, <3>3
      <4> HIDE DEF k
      <4>2. t[n + i] = ZERO
        BY <2>4, <4>1
      <4>3. n + 1 + i \in 1..Len(made) /\ n + 1 + i > j
        BY <1>2, <1>4, <2>3, <3>3
      <4>4. made[n + 1 + i] = ZERO
        BY <1>6, <4>3
      <4> QED BY <3>1, <4>2, <4>4
    <3> QED BY <2>3, <3>2, <3>3
  <2>6. Reading(t) = number
    <3>1. W = decimal[Whole(number)] /\ n = Len(W)
      BY DEF W, n
    <3>2. IsPadded(t, number)
      BY <2>4, <2>5, <3>1 DEF six, IsPadded
    <3> QED BY <3>2, TokenReads
  <2> QED BY <1>10, <2>6 DEF t, wr
<1>15. points # {} => DigitsOf(rest) /\ rest # <<>> /\ Last(rest) # ZERO
  <2> SUFFICES ASSUME points # {} PROVE DigitsOf(rest) /\ rest # <<>> /\ Last(rest) # ZERO
    OBVIOUS
  <2>1. j # n + 1 /\ Len(rest) # 0
    BY <1>4, <1>11, <1>13
  <2>2. DigitsOf(rest)
    BY <1>12, DigitsInRange
  <2>3. rest # <<>>
    BY <2>1
  <2> QED BY <1>12, <2>1, <2>2, <2>3
<1>16. ASSUME NEW size \in TextSizes, size > Len(text), size > Len(whole) + 1
       PROVE  snprintf_token(size, number, DIVISIBILITY, XEM) =
                  IF Len(text) + 4 < size THEN text \o <<SPACE>> \o XEM ELSE text
  <2>1. size \in Nat /\ Len(whole) = n
    BY <1>10, TextSizesAssumption DEF n
  <2>2. size > j
    BY <1>4, <1>8, <1>16, <2>1
  <2>3. XEM \in Text /\ Len(XEM) = 3
    BY DEF XEM, Text, Code
  <2>4. Len(text) + 3 + 1 = Len(text) + 4
    BY <1>4, <1>8
  <2> QED BY <1>6, <2>1, <2>2, <2>3, <2>4 DEF DIVISIBILITY
<1>17. IsNumeral(whole) /\ Len(rest) <= 6
  BY <1>4, <1>10, <1>13
<1> QED BY <1>9, <1>14, <1>15, <1>16, <1>17
        DEF TokenIsAmount, DIVISIBILITY, amount, points, whole, rest

-----------------------------------------------------------------------------
(* Bytes as text *)

\* How far a run of bytes that are not printable goes on.
LEMMA NextRun ==
    ASSUME data \in Text, NEW i \in 0..Len(data), i < Len(data)
    PROVE  /\ RunTo(0) = 0 /\ RunTo(i) \in Nat
           /\ RunTo(i + 1) = IF Printable(data[i + 1]) THEN 0 ELSE RunTo(i) + 1
<1> DEFINE n == Len(data)
           Shown(k) == {0} \cup {j \in 1..k : Printable(data[j])}
<1>1. n \in Nat
  BY DEF Text
<1> HIDE DEF n
<1>2. \A k \in 0..n : Shown(k) \in SUBSET (0..n) /\ Shown(k) # {} /\ Shown(k) \in SUBSET (0..k)
  BY <1>1
<1>3. \A k \in 0..n : RunTo(k) = k - Max(Shown(k))
  BY DEF RunTo
<1>4. \A k \in 0..n : Max(Shown(k)) \in Shown(k) /\ \A y \in Shown(k) : y <= Max(Shown(k))
  <2> HIDE DEF Shown
  <2> QED BY <1>1, <1>2, LastOf
<1>5. i \in 0..n /\ i + 1 \in 0..n /\ 0 \in 0..n
  BY <1>1 DEF n
<1>6. Shown(0) = {0}
  OBVIOUS
<1>7. Shown(i + 1) = IF Printable(data[i + 1]) THEN Shown(i) \cup {i + 1} ELSE Shown(i)
  <2>1. 1..(i + 1) = (1..i) \cup {i + 1}
    BY <1>5
  <2> QED BY <2>1
<1> DEFINE last(k) == Max(Shown(k))
<1>8. last(0) = 0 /\ last(i) \in 0..i /\ last(i + 1) \in 0..(i + 1)
      /\ last(i + 1) = IF Printable(data[i + 1]) THEN i + 1 ELSE last(i)
  <2>1. last(0) \in Shown(0) /\ last(i) \in Shown(i) /\ last(i + 1) \in Shown(i + 1)
    BY <1>4, <1>5
  <2>2. last(0) = 0
    BY <1>6, <2>1
  <2>3. last(i) \in 0..i /\ last(i + 1) \in 0..(i + 1)
    BY <1>2, <1>5, <2>1
  <2>4. CASE Printable(data[i + 1])
    <3>1. i + 1 \in Shown(i + 1)
      BY <1>7, <2>4
    <3>2. i + 1 <= last(i + 1)
      BY <1>4, <1>5, <3>1
    <3> HIDE DEF last
    <3> QED BY <1>5, <2>2, <2>3, <2>4, <3>2
  <2>5. CASE ~Printable(data[i + 1])
    BY <1>7, <2>2, <2>3, <2>5
  <2> QED BY <2>4, <2>5
<1>9. RunTo(0) = 0 - last(0) /\ RunTo(i) = i - last(i) /\ RunTo(i + 1) = (i + 1) - last(i + 1)
  BY <1>3, <1>5
<1> HIDE DEF last, Shown
<1>10. RunTo(0) = 0 /\ RunTo(i) \in Nat
  <2>1. RunTo(0) = 0
    BY <1>8, <1>9
  <2>2. ASSUME NEW l \in 0..i PROVE i - l \in Nat
    BY <1>1, <1>5
  <2> QED BY <1>8, <1>9, <2>1, <2>2
<1>11. CASE Printable(data[i + 1])
  BY <1>5, <1>8, <1>9, <1>10, <1>11
<1>12. CASE ~Printable(data[i + 1])
  <2>1. (i + 1) - last(i) = (i - last(i)) + 1
    BY <1>5, <1>8
  <2> QED BY <1>8, <1>9, <1>10, <1>12, <2>1
<1> QED BY <1>10, <1>11, <1>12

\* The places up to i with a character of their own, and where the last of these
\* characters is.
UpTo(i)  == {j \in Kept : j <= i}
Place(i) == Cardinality(UpTo(i))

\* A place more.
LEMMA NextPlace ==
    ASSUME data \in Text, NEW i \in 0..Len(data), i < Len(data)
    PROVE  /\ Place(0) = 0 /\ Place(i) \in Nat
           /\ Place(i + 1) = IF i + 1 \in Kept THEN Place(i) + 1 ELSE Place(i)
           /\ UpTo(i + 1) = IF i + 1 \in Kept THEN UpTo(i) \cup {i + 1} ELSE UpTo(i)
<1>1. Len(data) \in Nat /\ DOMAIN data = 1..Len(data)
  BY DEF Text
<1>2. Kept \subseteq 1..Len(data)
  BY <1>1 DEF Kept
<1>3. UpTo(0) = {} /\ i + 1 \notin UpTo(i) /\ UpTo(i) \in SUBSET (1..Len(data))
  <2>1. \A j \in Kept : j \in Nat /\ ~(j <= 0)
    BY <1>2
  <2>2. ~(i + 1 <= i)
    OBVIOUS
  <2> QED BY <1>2, <2>1, <2>2 DEF UpTo
<1>4. UpTo(i + 1) = IF i + 1 \in Kept THEN UpTo(i) \cup {i + 1} ELSE UpTo(i)
  <2>1. i \in Nat /\ \A j \in Kept : j \in Nat
    BY <1>1, <1>2
  <2>2. \A j \in Kept : j <= i + 1 <=> j <= i \/ j = i + 1
    BY <2>1
  <2>3. \A j : j \in UpTo(i + 1) <=> j \in Kept /\ (j \in UpTo(i) \/ j = i + 1)
    BY <2>2 DEF UpTo
  <2>4. UpTo(i) \subseteq Kept
    BY DEF UpTo
  <2> QED BY <2>3, <2>4
<1>5. IsFiniteSet(UpTo(i))
  <2>1. IsFiniteSet(1..Len(data))
    BY <1>1, FS_Interval
  <2> QED BY <1>3, <2>1, FS_Subset
<1>6. Place(0) = 0
  BY <1>3, FS_EmptySet DEF Place
<1>7. Place(i) \in Nat
  BY <1>5, FS_CardinalityType DEF Place
<1>8. i + 1 \in Kept => Place(i + 1) = Place(i) + 1
  BY <1>3, <1>4, <1>5, FS_AddElement DEF Place
<1>9. i + 1 \notin Kept => Place(i + 1) = Place(i)
  BY <1>4 DEF Place
<1> QED BY <1>4, <1>6, <1>7, <1>8, <1>9

AsciiState == [k: {0, 1}, text: Text]

\* A byte more leaves a text and a count of 0 or 1.
LEMMA AsciiByteType ==
    ASSUME NEW s \in AsciiState, NEW c \in Code
    PROVE  ascii_byte(s, c) \in AsciiState
<1>1. QUESTION \in Code
  BY DEF QUESTION, Code
<1>2. Append(s.text, c) \in Text /\ Append(s.text, QUESTION) \in Text /\ s.text \in Text
  BY <1>1, Appended DEF AsciiState
<1>3. 1 - s.k \in {0, 1}
  BY DEF AsciiState
<1> QED BY <1>2, <1>3 DEF ascii_byte, AsciiState

\* The state after each byte.
LEMMA AsciiInTurn ==
    ASSUME NEW src \in Text
    PROVE  \E states :
              /\ states[0] = [k |-> 0, text |-> <<>>]
              /\ \A i \in 0..Len(src) : i < Len(src) =>
                    states[i + 1] = ascii_byte(states[i], src[i + 1])
              /\ states[Len(src)] = FoldLeft(ascii_byte, [k |-> 0, text |-> <<>>], src)
<1> DEFINE n       == Len(src)
           start   == [k |-> 0, text |-> <<>>]
           Add(t, i) == ascii_byte(t, src[i])
           Value(g, s) == IF s = {} THEN start ELSE Add(g[s \ {Max(s)}], Max(s))
           Is(g)   == g = [s \in SUBSET (1..n) |-> Value(g, s)]
           iter    == CHOOSE g : Is(g)
           step    == [p \in AsciiState \X (1..n) |-> Add(p[1], p[2])]
           folded  == FoldLeft(ascii_byte, start, src)
<1>1. n \in Nat /\ DOMAIN src = 1..n /\ \A i \in 1..n : src[i] \in Code
  BY DEF Text
<1>2. folded = iter[1..n]
  BY <1>1 DEF FoldLeft, MapThenFoldSet
<1>3. \A t \in AsciiState, i \in 1..n : Add(t, i) \in AsciiState
  BY <1>1, AsciiByteType
<1>4. start \in AsciiState
  BY ShortTexts DEF AsciiState
<1> HIDE DEF n, Add, start, folded
<1>5. Foldable(n, AsciiState, start, step)
  BY <1>1, <1>3, <1>4 DEF Foldable
<1>6. PICK g : IsFold(g, n, AsciiState, start, step)
  BY <1>5, Folding
<1>7. Is(g)
  <2>1. ASSUME NEW s \in SUBSET (1..n), s # {}
        PROVE  g[s] = Add(g[s \ {Max(s)}], Max(s))
    <3>1. Max(s) \in 1..n /\ s \ {Max(s)} \in SUBSET (1..n)
      BY <1>1, <2>1, LastPlace
    <3>2. /\ g[s \ {Max(s)}] \in AsciiState
          /\ g[s] = step[<<g[s \ {Max(s)}], Max(s)>>]
      BY <1>6, <2>1, <3>1 DEF IsFold
    <3> QED BY <3>1, <3>2
  <2>2. g[{}] = start
    BY <1>6 DEF IsFold
  <2> HIDE DEF step
  <2> QED BY <1>6, <2>1, <2>2 DEF IsFold
<1>8. Is(iter)
  <2> HIDE DEF Is
  <2> QED BY <1>7
<1> HIDE DEF iter
<1>9. \A s \in SUBSET (1..n) : iter[s] = Value(iter, s)
  <2> HIDE DEF Value
  <2> QED BY <1>8
<1> DEFINE states == [i \in 0..n |-> iter[1..i]]
<1>10. /\ states[0] = start
       /\ \A i \in 0..n : i < n => states[i + 1] = Add(states[i], i + 1)
       /\ states[n] = folded
  <2>1. iter[{}] = start
    BY <1>9
  <2>2. ASSUME NEW i \in 0..n, i < n PROVE iter[1..(i + 1)] = Add(iter[1..i], i + 1)
    <3> DEFINE s == 1..(i + 1)
    <3>1. s \in SUBSET (1..n) /\ s # {} /\ Max(s) = i + 1 /\ s \ {i + 1} = 1..i
      BY <1>1, <2>2, NextPrefix
    <3> HIDE DEF s
    <3>2. iter[s] = Add(iter[s \ {Max(s)}], Max(s))
      BY <1>9, <3>1
    <3> QED BY <3>1, <3>2 DEF s
  <2>3. /\ 0 \in 0..n /\ n \in 0..n /\ 1..0 = {}
        /\ \A i \in 0..n : i < n => i + 1 \in 0..n
    BY <1>1
  <2>4. \A i \in 0..n : states[i] = iter[1..i]
    OBVIOUS
  <2> HIDE DEF states
  <2> QED BY <1>2, <2>1, <2>2, <2>3, <2>4
<1> HIDE DEF states
<1> QED BY <1>10 DEF Add, n, start, folded

\* After i bytes: `k` says whether a '?' stands for the last of them alone, and every
\* place that is kept has its character.
LEMMA AsciiKeeps ==
    ASSUME data \in Text
    PROVE  LET text == FoldLeft(ascii_byte, [k |-> 0, text |-> <<>>], data).text
           IN  /\ text \in Text /\ Len(text) = Cardinality(Kept)
               /\ \A i \in Kept : Place(i) \in 1..Len(text)
               /\ \A i \in Kept : text[Place(i)] = IF Printable(data[i]) THEN data[i]
                                                   ELSE QUESTION
<1> DEFINE n == Len(data)
           Shows(c) == IF Printable(c) THEN c ELSE QUESTION
           Holds(s, i) == /\ s \in AsciiState /\ s.k = RunTo(i) % 2
                          /\ Len(s.text) = Place(i)
                          /\ \A j \in UpTo(i) : /\ Place(j) \in 1..Place(i)
                                                /\ s.text[Place(j)] = Shows(data[j])
<1>1. n \in Nat /\ DOMAIN data = 1..n /\ \A i \in 1..n : data[i] \in Code
  BY DEF Text
<1>2. PICK states :
         /\ states[0] = [k |-> 0, text |-> <<>>]
         /\ \A i \in 0..n : i < n => states[i + 1] = ascii_byte(states[i], data[i + 1])
         /\ states[n] = FoldLeft(ascii_byte, [k |-> 0, text |-> <<>>], data)
  BY AsciiInTurn
<1>3. Kept \subseteq 1..n /\ UpTo(n) = Kept /\ UpTo(0) = {}
  BY <1>1 DEF Kept, UpTo
<1>4. \A i \in 0..n : i < n =>
         /\ RunTo(0) = 0 /\ RunTo(i) \in Nat
         /\ RunTo(i + 1) = IF Printable(data[i + 1]) THEN 0 ELSE RunTo(i) + 1
         /\ Place(0) = 0 /\ Place(i) \in Nat
         /\ Place(i + 1) = IF i + 1 \in Kept THEN Place(i) + 1 ELSE Place(i)
         /\ UpTo(i + 1) = IF i + 1 \in Kept THEN UpTo(i) \cup {i + 1} ELSE UpTo(i)
  BY NextRun, NextPlace
<1>5. \A i \in 1..n : i \in Kept <=> Printable(data[i]) \/ RunTo(i) % 2 = 1
  BY <1>1 DEF Kept
<1> HIDE DEF n
<1> DEFINE S == {i \in 0..n : Holds(states[i], i)}
<1>6. 0 \in S
  <2>1. RunTo(0) = 0
    <3>1. Max({0} \cup {j \in 1..0 : Printable(data[j])}) = 0
      <4>1. {0} \cup {j \in 1..0 : Printable(data[j])} = {0, 0}
        OBVIOUS
      <4> QED BY <4>1, MinOfTwo DEF Max
    <3> QED BY <3>1 DEF RunTo
  <2>2. Place(0) = 0
    BY <1>3, FS_EmptySet DEF Place
  <2>3. states[0] \in AsciiState
    BY <1>2, ShortTexts DEF AsciiState
  <2>4. Holds(states[0], 0)
    BY <1>2, <1>3, <2>1, <2>2, <2>3
  <2> QED BY <1>1, <2>4
<1>7. ASSUME NEW i \in 0..n, i \in S, i < n PROVE i + 1 \in S
  <2> DEFINE s == states[i]
             z == states[i + 1]
             c == data[i + 1]
  <2>1. s \in AsciiState /\ s.k = RunTo(i) % 2 /\ Len(s.text) = Place(i)
        /\ \A j \in UpTo(i) : Place(j) \in 1..Place(i) /\ s.text[Place(j)] = Shows(data[j])
    BY <1>7
  <2>2. i + 1 \in 1..n /\ i + 1 \in 0..n /\ c \in Code
    BY <1>1, <1>7
  <2>3. z = ascii_byte(s, c)
    BY <1>2, <1>7
  <2>4. /\ RunTo(i) \in Nat
        /\ RunTo(i + 1) = IF Printable(c) THEN 0 ELSE RunTo(i) + 1
        /\ Place(i) \in Nat
        /\ Place(i + 1) = IF i + 1 \in Kept THEN Place(i) + 1 ELSE Place(i)
        /\ UpTo(i + 1) = IF i + 1 \in Kept THEN UpTo(i) \cup {i + 1} ELSE UpTo(i)
        /\ i + 1 \in Kept <=> Printable(c) \/ RunTo(i + 1) % 2 = 1
    BY <1>4, <1>5, <1>7, <2>2
  <2> HIDE DEF s, z, Holds
  <2>5. z \in AsciiState
    BY <2>1, <2>2, <2>3, AsciiByteType
  <2>6. s.k \in {0, 1} /\ s.text \in Text
    BY <2>1 DEF AsciiState
  <2>7. z.k = RunTo(i + 1) % 2 /\ (i + 1 \in Kept <=> Printable(c) \/ s.k = 0)
    <3>1. CASE Printable(c)
      <4>1. z.k = 0
        BY <2>3, <3>1 DEF ascii_byte
      <4> QED BY <2>4, <3>1, <4>1
    <3>2. CASE ~Printable(c)
      <4>1. z.k = 1 - s.k
        BY <2>3, <3>2 DEF ascii_byte
      <4> DEFINE r == RunTo(i)
      <4>2. RunTo(i + 1) = r + 1 /\ r \in Nat /\ s.k = r % 2
        BY <2>1, <2>4, <3>2
      <4> HIDE DEF r
      <4>3. (r + 1) % 2 = 1 - (r % 2)
        BY <4>2
      <4> QED BY <2>4, <2>6, <3>2, <4>1, <4>2, <4>3
    <3> QED BY <3>1, <3>2
  <2>8. z.text = IF i + 1 \in Kept THEN Append(s.text, Shows(c)) ELSE s.text
    BY <2>3, <2>6, <2>7 DEF ascii_byte
  <2>9. Shows(c) \in Code
    BY <2>2 DEF QUESTION, Code
  <2>10. CASE i + 1 \notin Kept
    BY <2>1, <2>2, <2>4, <2>5, <2>7, <2>8, <2>10 DEF Holds, s, z
  <2>11. CASE i + 1 \in Kept
    <3> DEFINE t == s.text
               q == Shows(c)
    <3>1. z.text = Append(t, q) /\ Place(i + 1) = Place(i) + 1 /\ UpTo(i + 1) = UpTo(i) \cup {i + 1}
      BY <2>4, <2>8, <2>11
    <3>2. /\ Len(Append(t, q)) = Place(i) + 1 /\ Append(t, q)[Place(i) + 1] = q
          /\ \A j \in 1..Place(i) : Append(t, q)[j] = t[j]
      <4>1. t \in Text /\ q \in Code /\ Len(t) = Place(i)
        BY <2>1, <2>6, <2>9
      <4> HIDE DEF t, q
      <4> QED BY <4>1, Appended
    <3>3. ASSUME NEW j \in UpTo(i + 1)
          PROVE  Place(j) \in 1..Place(i + 1) /\ z.text[Place(j)] = Shows(data[j])
      <4>1. CASE j = i + 1
        BY <2>4, <3>1, <3>2, <4>1
      <4>2. CASE j \in UpTo(i)
        <5>1. Place(j) \in 1..Place(i) /\ t[Place(j)] = Shows(data[j])
          BY <2>1, <4>2
        <5>2. Place(j) \in 1..Place(i + 1)
          BY <2>4, <3>1, <5>1
        <5> QED BY <3>1, <3>2, <5>1, <5>2
      <4> QED BY <3>1, <4>1, <4>2
    <3> QED BY <2>2, <2>5, <2>7, <3>1, <3>2, <3>3 DEF Holds, z
  <2> QED BY <2>10, <2>11
<1>8. n \in S
  <2> HIDE DEF S
  <2>1. 0..n \subseteq S
    BY <1>1, <1>6, <1>7, Induction
  <2> QED BY <1>1, <2>1
<1>9. Holds(states[n], n)
  BY <1>8
<1>10. Place(n) = Cardinality(Kept)
  BY <1>3 DEF Place
<1> QED BY <1>2, <1>3, <1>9, <1>10 DEF AsciiState

\* Whatever bytes are printed as text, in whatever room: every printable byte is there,
\* in order, other bytes in a row are one '?' for two of them, and nothing passes the
\* end of the buffer (printers.c:132).
THEOREM AsciiIsRead == data \in Text => AsciiKeepsPrintable
<1> SUFFICES ASSUME data \in Text, NEW size \in TextSizes
             PROVE  LET text    == snprintf_ascii(XEM, 2, size, data)
                        place(i) == 2 + Cardinality({j \in Kept : j <= i})
                    IN  IF data = <<>> \/ Len(data) + 2 >= size THEN text = XEM
                        ELSE /\ Len(text) = 2 + Cardinality(Kept)
                             /\ SubSeq(text, 1, 2) = SubSeq(XEM, 1, 2)
                             /\ \A i \in Kept : text[place(i)] =
                                    IF Printable(data[i]) THEN data[i] ELSE QUESTION
  BY DEF AsciiKeepsPrintable
<1>1. size \in Nat /\ Len(data) \in Nat /\ (data = <<>> <=> Len(data) = 0)
  BY TextSizesAssumption DEF Text
<1>2. AsciiFits(2, Len(data), size) <=> ~(data = <<>> \/ Len(data) + 2 >= size)
  BY <1>1 DEF AsciiFits
<1>3. CASE data = <<>> \/ Len(data) + 2 >= size
  BY <1>2, <1>3 DEF snprintf_ascii
<1>4. CASE ~(data = <<>> \/ Len(data) + 2 >= size)
  <2> DEFINE made == FoldLeft(ascii_byte, [k |-> 0, text |-> <<>>], data).text
             two == SubSeq(XEM, 1, 2)
             text == two \o made
             u == SubSeq(text, 1, 2)
  <2>1. snprintf_ascii(XEM, 2, size, data) = text
    BY <1>2, <1>4 DEF snprintf_ascii
  <2>2. /\ made \in Text /\ Len(made) = Cardinality(Kept)
        /\ \A i \in Kept : Place(i) \in 1..Len(made)
        /\ \A i \in Kept : made[Place(i)] = IF Printable(data[i]) THEN data[i] ELSE QUESTION
    BY AsciiKeeps
  <2> HIDE DEF made
  <2>3. two \in Text /\ Len(two) = 2
    <3>1. XEM \in Text /\ Len(XEM) = 3
      BY DEF XEM, Text, Code
    <3>2. 2 \in 0..Len(XEM)
      BY <3>1
    <3> QED BY <3>1, <3>2, Cut
  <2> HIDE DEF two
  <2>4. /\ text \in Text /\ Len(text) = 2 + Len(made)
        /\ \A i \in 1..2 : text[i] = two[i]
        /\ \A i \in 1..Len(made) : text[2 + i] = made[i]
    <3>1. /\ text \in Text /\ Len(text) = Len(two) + Len(made)
          /\ \A i \in 1..Len(two) : text[i] = two[i]
          /\ \A i \in 1..Len(made) : text[Len(two) + i] = made[i]
      BY <2>2, <2>3, Joined
    <3> QED BY <2>3, <3>1
  <2> HIDE DEF text
  <2>5. u = two
    <3>1. 2 \in 0..Len(text)
      BY <2>2, <2>4 DEF Text
    <3>2. u \in Text /\ Len(u) = 2 /\ \A i \in 1..2 : u[i] = text[i]
      BY <2>4, <3>1, Cut
    <3> HIDE DEF u
    <3>3. \A i \in 1..Len(u) : u[i] = two[i]
      BY <2>4, <3>2
    <3> QED BY <2>3, <3>2, <3>3, SameText
  <2>6. \A i \in Kept : text[2 + Place(i)] =
                            IF Printable(data[i]) THEN data[i] ELSE QUESTION
    BY <2>2, <2>4
  <2> QED BY <1>4, <2>1, <2>2, <2>4, <2>5, <2>6 DEF Place, UpTo, two
<1> QED BY <1>3, <1>4

-----------------------------------------------------------------------------
(* Hexadecimal *)

\* A byte is two characters.
LEMMA HexByteType ==
    ASSUME NEW byte \in Code, NEW letter \in {65, 97}
    PROVE  hex_byte(byte, letter) \in Text /\ Len(hex_byte(byte, letter)) = 2
<1>1. byte \div 16 \in 0..15 /\ byte % 16 \in 0..15
  BY DEF Code
<1> QED BY <1>1 DEF hex_byte, Text, Code, ZERO

\* The text after each byte.
LEMMA HexInTurn ==
    ASSUME NEW src \in Text, NEW letter \in {65, 97}
    PROVE  \E texts :
              /\ texts[0] = <<>>
              /\ \A k \in 0..Len(src) : k < Len(src) =>
                    texts[k + 1] = texts[k] \o hex_byte(src[k + 1], letter)
              /\ texts[Len(src)] = hex_text(src, letter)
<1> DEFINE n       == Len(src)
           Add(t, k) == t \o hex_byte(src[k], letter)
           Value(g, s) == IF s = {} THEN <<>> ELSE Add(g[s \ {Max(s)}], Max(s))
           Is(g)   == g = [s \in SUBSET (1..n) |-> Value(g, s)]
           iter    == CHOOSE g : Is(g)
           step    == [p \in Text \X (1..n) |-> Add(p[1], p[2])]
<1>1. n \in Nat /\ DOMAIN src = 1..n /\ \A k \in 1..n : src[k] \in Code
  BY DEF Text
<1>2. hex_text(src, letter) = iter[1..n]
  BY <1>1 DEF hex_text, FoldLeft, MapThenFoldSet
<1>3. \A t \in Text, k \in 1..n : Add(t, k) \in Text
  BY <1>1, HexByteType DEF Text
<1> HIDE DEF n, Add
<1>4. Foldable(n, Text, <<>>, step)
  BY <1>1, <1>3 DEF Text, Foldable
<1>5. PICK g : IsFold(g, n, Text, <<>>, step)
  BY <1>4, Folding
<1>6. Is(g)
  <2>1. ASSUME NEW s \in SUBSET (1..n), s # {}
        PROVE  g[s] = Add(g[s \ {Max(s)}], Max(s))
    <3>1. Max(s) \in 1..n /\ s \ {Max(s)} \in SUBSET (1..n)
      BY <1>1, <2>1, LastPlace
    <3>2. g[s \ {Max(s)}] \in Text /\ g[s] = step[<<g[s \ {Max(s)}], Max(s)>>]
      BY <1>5, <2>1, <3>1 DEF IsFold
    <3> QED BY <3>1, <3>2
  <2>2. g[{}] = <<>>
    BY <1>5 DEF IsFold
  <2> HIDE DEF step
  <2> QED BY <1>5, <2>1, <2>2 DEF IsFold
<1>7. Is(iter)
  <2> HIDE DEF Is
  <2> QED BY <1>6
<1> HIDE DEF iter
<1>9. \A s \in SUBSET (1..n) : iter[s] = Value(iter, s)
  <2> HIDE DEF Value
  <2> QED BY <1>7
<1> DEFINE texts == [k \in 0..n |-> iter[1..k]]
<1>8. /\ texts[0] = <<>>
      /\ \A k \in 0..n : k < n => texts[k + 1] = Add(texts[k], k + 1)
      /\ texts[n] = hex_text(src, letter)
  <2>1. iter[{}] = <<>>
    BY <1>9
  <2>2. ASSUME NEW k \in 0..n, k < n PROVE iter[1..(k + 1)] = Add(iter[1..k], k + 1)
    <3> DEFINE s == 1..(k + 1)
    <3>1. s \in SUBSET (1..n) /\ s # {} /\ Max(s) = k + 1 /\ s \ {k + 1} = 1..k
      BY <1>1, <2>2, NextPrefix
    <3> HIDE DEF s
    <3>2. iter[s] = Add(iter[s \ {Max(s)}], Max(s))
      BY <1>9, <3>1
    <3> QED BY <3>1, <3>2 DEF s
  <2>3. /\ 0 \in 0..n /\ n \in 0..n /\ 1..0 = {}
        /\ \A k \in 0..n : k < n => k + 1 \in 0..n
    BY <1>1
  <2>4. \A k \in 0..n : texts[k] = iter[1..k]
    OBVIOUS
  <2> HIDE DEF texts
  <2> QED BY <1>2, <2>1, <2>2, <2>3, <2>4
<1> HIDE DEF texts
<1> QED BY <1>8 DEF Add, n

\* The digits of each byte are at twice its place.
LEMMA HexDigits ==
    ASSUME NEW src \in Text, NEW letter \in {65, 97}
    PROVE  /\ hex_text(src, letter) \in Text /\ Len(hex_text(src, letter)) = 2 * Len(src)
           /\ \A i \in 1..Len(src) :
                 /\ hex_text(src, letter)[2 * i - 1] = hex_byte(src[i], letter)[1]
                 /\ hex_text(src, letter)[2 * i] = hex_byte(src[i], letter)[2]
<1> DEFINE n == Len(src)
           Two(i) == hex_byte(src[i], letter)
           Holds(t, k) == /\ t \in Text /\ Len(t) = 2 * k
                          /\ \A i \in 1..k : t[2 * i - 1] = Two(i)[1] /\ t[2 * i] = Two(i)[2]
<1>1. n \in Nat /\ \A i \in 1..n : Two(i) \in Text /\ Len(Two(i)) = 2
  BY HexByteType DEF Text
<1>2. PICK texts : /\ texts[0] = <<>>
                   /\ \A k \in 0..n : k < n => texts[k + 1] = texts[k] \o Two(k + 1)
                   /\ texts[n] = hex_text(src, letter)
  BY HexInTurn
<1> HIDE DEF n, Two
<1> DEFINE S == {k \in 0..n : Holds(texts[k], k)}
<1>3. 0 \in S
  <2>1. <<>> \in Text /\ Len(<<>>) = 0 /\ 0 \in 0..n
    BY <1>1 DEF Text
  <2>2. \A i \in 1..0 : FALSE
    OBVIOUS
  <2>3. Holds(texts[0], 0)
    BY <1>2, <2>1, <2>2
  <2> QED BY <2>1, <2>3
<1>4. ASSUME NEW k \in 0..n, k \in S, k < n PROVE k + 1 \in S
  <2> DEFINE t == texts[k]
             u == texts[k + 1]
             b == Two(k + 1)
  <2>1. /\ t \in Text /\ Len(t) = 2 * k
        /\ \A i \in 1..k : t[2 * i - 1] = Two(i)[1] /\ t[2 * i] = Two(i)[2]
    BY <1>4
  <2>2. k + 1 \in 1..n /\ k + 1 \in 0..n
    BY <1>1, <1>4
  <2>3. b \in Text /\ Len(b) = 2 /\ u = t \o b
    BY <1>1, <1>2, <1>4, <2>2
  <2> HIDE DEF t, u, b
  <2>4. u \in Text /\ Len(u) = 2 * (k + 1)
    <3>1. t \o b \in Text /\ Len(t \o b) = Len(t) + Len(b)
      <4>1. t \in Text /\ b \in Text
        BY <2>1, <2>3
      <4> QED BY <4>1, Joined
    <3> QED BY <2>1, <2>3, <3>1
  <2>5. ASSUME NEW i \in 1..(k + 1) PROVE u[2 * i - 1] = Two(i)[1] /\ u[2 * i] = Two(i)[2]
    <3>1. CASE i = k + 1
      <4>1. 2 * i - 1 = Len(t) + 1 /\ 2 * i = Len(t) + 2
        BY <2>1, <3>1
      <4>2. u[Len(t) + 1] = b[1] /\ u[Len(t) + 2] = b[2]
        <5>1. 1 \in 1..Len(b) /\ 2 \in 1..Len(b)
          BY <2>3
        <5>2. \A j \in 1..Len(b) : (t \o b)[Len(t) + j] = b[j]
          <6>1. t \in Text /\ b \in Text
            BY <2>1, <2>3
          <6> QED BY <6>1, Joined
        <5> QED BY <2>3, <5>1, <5>2
      <4> QED BY <3>1, <4>1, <4>2 DEF b
    <3>2. CASE i # k + 1
      <4>1. i \in 1..k /\ 2 * i - 1 \in 1..Len(t) /\ 2 * i \in 1..Len(t)
        BY <2>1, <3>2
      <4>2. u[2 * i - 1] = t[2 * i - 1] /\ u[2 * i] = t[2 * i]
        BY <2>1, <2>3, <4>1, Joined
      <4> QED BY <2>1, <4>1, <4>2
    <3> QED BY <3>1, <3>2
  <2> QED BY <2>2, <2>4, <2>5 DEF u
<1>5. n \in S
  <2>1. \A k \in 0..n : k \in S /\ k < n => k + 1 \in S
    BY <1>4
  <2> HIDE DEF S
  <2>2. 0..n \subseteq S
    BY <1>1, <1>3, <2>1, Induction
  <2> QED BY <1>1, <2>2
<1> QED BY <1>2, <1>5 DEF n, Two

\* Two digits read as their byte.
LEMMA HexByteReads ==
    ASSUME NEW byte \in Code, NEW letter \in {65, 97}
    PROVE  16 * HexDigit(hex_byte(byte, letter)[1]) + HexDigit(hex_byte(byte, letter)[2])
               = byte
<1> DEFINE digit(n) == IF n > 9 THEN n - 10 + letter ELSE n + ZERO
<1>1. ASSUME NEW n \in 0..15 PROVE HexDigit(digit(n)) = n
  <2>1. CASE n <= 9
    <3>1. digit(n) = n + 48 /\ digit(n) \in 48..57
      BY <2>1 DEF ZERO
    <3>2. digit(n) \notin 65..70 /\ digit(n) \notin 97..102
      BY <3>1
    <3> HIDE DEF digit
    <3> QED BY <3>1, <3>2 DEF HexDigit
  <2>2. CASE n > 9 /\ letter = 65
    <3>1. digit(n) = n + 55 /\ digit(n) \in 65..70
      BY <2>2
    <3>2. digit(n) \notin 48..57 /\ digit(n) \notin 97..102
      BY <3>1
    <3> HIDE DEF digit
    <3> QED BY <3>1, <3>2 DEF HexDigit
  <2>3. CASE n > 9 /\ letter = 97
    <3>1. digit(n) = n + 87 /\ digit(n) \in 97..102
      BY <2>3
    <3>2. digit(n) \notin 48..57 /\ digit(n) \notin 65..70
      BY <3>1
    <3> HIDE DEF digit
    <3> QED BY <3>1, <3>2 DEF HexDigit
  <2> QED BY <2>1, <2>2, <2>3
<1>2. /\ byte \div 16 \in 0..15 /\ byte % 16 \in 0..15
      /\ byte = 16 * (byte \div 16) + (byte % 16)
  <2>1. byte \in Nat /\ byte < 256
    BY DEF Code
  <2>2. byte = 16 * (byte \div 16) + (byte % 16) /\ byte % 16 \in 0..15
    BY <2>1
  <2>3. byte \div 16 \in Nat
    BY <2>1
  <2> QED BY <2>1, <2>2, <2>3
<1>3. /\ hex_byte(byte, letter)[1] = digit(byte \div 16)
      /\ hex_byte(byte, letter)[2] = digit(byte % 16)
  BY DEF hex_byte
<1> HIDE DEF digit
<1>4. /\ HexDigit(digit(byte \div 16)) = byte \div 16
      /\ HexDigit(digit(byte % 16)) = byte % 16
  BY <1>1, <1>2
<1> QED BY <1>2, <1>3, <1>4

\* The digits of a text read as its bytes.
LEMMA HexTextReads ==
    ASSUME NEW src \in Text, NEW letter \in {65, 97}
    PROVE  HexBytes(hex_text(src, letter)) = src
<1> DEFINE n == Len(src)
           t == hex_text(src, letter)
<1>1. n \in Nat /\ DOMAIN src = 1..n /\ \A i \in 1..n : src[i] \in Code
  BY DEF Text
<1>2. Len(t) \div 2 = n
  <2>1. Len(hex_text(src, letter)) = 2 * Len(src)
    BY HexDigits
  <2>2. Len(t) = 2 * n
    BY <2>1
  <2> HIDE DEF t, n
  <2> QED BY <1>1, <2>2
<1>3. ASSUME NEW i \in 1..n
      PROVE  16 * HexDigit(t[2 * i - 1]) + HexDigit(t[2 * i]) = src[i]
  <2>1. t[2 * i - 1] = hex_byte(src[i], letter)[1] /\ t[2 * i] = hex_byte(src[i], letter)[2]
    BY HexDigits, Zenon DEF t, n
  <2>2. src[i] \in Code
    BY <1>1
  <2>3. 16 * HexDigit(hex_byte(src[i], letter)[1]) + HexDigit(hex_byte(src[i], letter)[2])
            = src[i]
    BY <2>2, HexByteReads
  <2> HIDE DEF t
  <2> QED BY <2>1, <2>3, Zenon
<1>4. src = [i \in 1..n |-> src[i]]
  BY <1>1 DEF Text
<1> HIDE DEF n, t
<1> QED BY <1>2, <1>3, <1>4 DEF HexBytes, t

\* Whatever bytes are printed, in whatever room: two digits a byte read back as the
\* bytes, in their order or reversed, or nothing is written (printers.c:109).
THEOREM HexIsRead == data \in Text => HexReadsBack
<1> SUFFICES ASSUME data \in Text, NEW size \in TextSizes, NEW reverse \in BOOLEAN
             PROVE  LET upper == snprintf_hex(size, data, reverse)
                        lower == snprintf_hex2ascii(size, data)
                    IN  /\ upper.ok = lower.ok
                        /\ upper.ok => /\ Len(upper.text) < size /\ Len(lower.text) < size
                                       /\ HexBytes(lower.text) = data
                                       /\ HexBytes(upper.text) =
                                              IF reverse THEN Reverse(data) ELSE data
  BY DEF HexReadsBack
<1> DEFINE src == IF reverse THEN Reverse(data) ELSE data
<1>1. src \in Text /\ Len(src) = Len(data)
  <2>1. Reverse(data) \in Text /\ Len(Reverse(data)) = Len(data)
    BY DEF Reverse, Text
  <2> QED BY <2>1
<1> HIDE DEF src
<1>2. size \in Nat /\ Len(data) \in Nat
  BY TextSizesAssumption DEF Text
<1>3. CASE HexFits(Len(data), size)
  <2>1. /\ snprintf_hex(size, data, reverse) = Written(hex_text(src, 65))
        /\ snprintf_hex2ascii(size, data) = Written(hex_text(data, 97))
    BY <1>3 DEF snprintf_hex, snprintf_hex2ascii, src
  <2>2. Len(hex_text(src, 65)) = 2 * Len(data) /\ Len(hex_text(data, 97)) = 2 * Len(data)
    <3>1. 65 \in {65, 97} /\ 97 \in {65, 97} /\ data \in Text /\ src \in Text
      BY <1>1
    <3>2. \A t \in Text : \A letter \in {65, 97} : Len(hex_text(t, letter)) = 2 * Len(t)
      BY HexDigits
    <3>3. Len(hex_text(src, 65)) = 2 * Len(src) /\ Len(hex_text(data, 97)) = 2 * Len(data)
      BY <3>1, <3>2
    <3> QED BY <1>1, <3>3
  <2>3. 2 * Len(data) < size
    BY <1>2, <1>3 DEF HexFits
  <2>4. HexBytes(hex_text(src, 65)) = src /\ HexBytes(hex_text(data, 97)) = data
    BY <1>1, HexTextReads
  <2> QED BY <2>1, <2>2, <2>3, <2>4 DEF Written, src
<1>4. CASE ~HexFits(Len(data), size)
  BY <1>4 DEF snprintf_hex, snprintf_hex2ascii, Failure
<1> QED BY <1>3, <1>4

-----------------------------------------------------------------------------
(* base32 *)

\* The bit of weight 2^j.
BitAt(x, j) == (x \div 2^j) % 2

\* A division by a power of two, once more by two.
LEMMA Halved ==
    ASSUME NEW x \in Nat, NEW j \in 0..11
    PROVE  x \div 2^(j + 1) = (x \div 2^j) \div 2
<1> DEFINE Is(k) == x \div 2^(k + 1) = (x \div 2^k) \div 2
<1>1. Is(0) /\ Is(1) /\ Is(2) /\ Is(3)
  <2>1. /\ 2^(0 + 1) = 2 /\ 2^0 = 1
        /\ 2^(1 + 1) = 4 /\ 2^1 = 2
        /\ 2^(2 + 1) = 8 /\ 2^2 = 4
        /\ 2^(3 + 1) = 16 /\ 2^3 = 8
    OBVIOUS
  <2>2. /\ x \div 2 = (x \div 1) \div 2
        /\ x \div 4 = (x \div 2) \div 2
        /\ x \div 8 = (x \div 4) \div 2
        /\ x \div 16 = (x \div 8) \div 2
    OBVIOUS
  <2> QED BY <2>1, <2>2
<1>2. Is(4) /\ Is(5) /\ Is(6) /\ Is(7)
  <2>1. /\ 2^(4 + 1) = 32 /\ 2^4 = 16
        /\ 2^(5 + 1) = 64 /\ 2^5 = 32
        /\ 2^(6 + 1) = 128 /\ 2^6 = 64
        /\ 2^(7 + 1) = 256 /\ 2^7 = 128
    OBVIOUS
  <2>2. /\ x \div 32 = (x \div 16) \div 2
        /\ x \div 64 = (x \div 32) \div 2
        /\ x \div 128 = (x \div 64) \div 2
        /\ x \div 256 = (x \div 128) \div 2
    OBVIOUS
  <2> QED BY <2>1, <2>2
<1>3. Is(8) /\ Is(9) /\ Is(10) /\ Is(11)
  <2>1. /\ 2^(8 + 1) = 512 /\ 2^8 = 256
        /\ 2^(9 + 1) = 1024 /\ 2^9 = 512
        /\ 2^(10 + 1) = 2048 /\ 2^10 = 1024
        /\ 2^(11 + 1) = 4096 /\ 2^11 = 2048
    OBVIOUS
  <2>2. /\ x \div 512 = (x \div 256) \div 2
        /\ x \div 1024 = (x \div 512) \div 2
        /\ x \div 2048 = (x \div 1024) \div 2
        /\ x \div 4096 = (x \div 2048) \div 2
    OBVIOUS
  <2> QED BY <2>1, <2>2
<1>4. \/ j = 0 \/ j = 1 \/ j = 2 \/ j = 3 \/ j = 4 \/ j = 5 \/ j = 6 \/ j = 7
      \/ j = 8 \/ j = 9 \/ j = 10 \/ j = 11
  OBVIOUS
<1> HIDE DEF Is
<1>5. Is(j)
  BY <1>1, <1>2, <1>3, <1>4
<1> QED BY <1>5 DEF Is

\* A remainder keeps the bits below it.
LEMMA LowBits ==
    ASSUME NEW x \in Nat
    PROVE  /\ \A j \in 0..4 : BitAt(x % 32, j) = BitAt(x, j)
           /\ \A j \in 0..11 : BitAt(x % 65536, j) = BitAt(x, j)
<1> DEFINE Is(m, j) == BitAt(x % m, j) = BitAt(x, j)
<1>1. Is(32, 0) /\ Is(32, 1) /\ Is(32, 2) /\ Is(32, 3) /\ Is(32, 4)
  <2>1. 2^0 = 1 /\ 2^1 = 2 /\ 2^2 = 4 /\ 2^3 = 8 /\ 2^4 = 16
    OBVIOUS
  <2>2. /\ ((x % 32) \div 1) % 2 = (x \div 1) % 2
        /\ ((x % 32) \div 2) % 2 = (x \div 2) % 2
        /\ ((x % 32) \div 4) % 2 = (x \div 4) % 2
        /\ ((x % 32) \div 8) % 2 = (x \div 8) % 2
        /\ ((x % 32) \div 16) % 2 = (x \div 16) % 2
    OBVIOUS
  <2> QED BY <2>1, <2>2 DEF BitAt
<1>2. Is(65536, 0) /\ Is(65536, 1) /\ Is(65536, 2) /\ Is(65536, 3)
  <2>1. 2^0 = 1 /\ 2^1 = 2 /\ 2^2 = 4 /\ 2^3 = 8
    OBVIOUS
  <2>2. /\ ((x % 65536) \div 1) % 2 = (x \div 1) % 2
        /\ ((x % 65536) \div 2) % 2 = (x \div 2) % 2
        /\ ((x % 65536) \div 4) % 2 = (x \div 4) % 2
        /\ ((x % 65536) \div 8) % 2 = (x \div 8) % 2
    OBVIOUS
  <2> QED BY <2>1, <2>2 DEF BitAt
<1>3. Is(65536, 4) /\ Is(65536, 5) /\ Is(65536, 6) /\ Is(65536, 7)
  <2>1. 2^4 = 16 /\ 2^5 = 32 /\ 2^6 = 64 /\ 2^7 = 128
    OBVIOUS
  <2>2. /\ ((x % 65536) \div 16) % 2 = (x \div 16) % 2
        /\ ((x % 65536) \div 32) % 2 = (x \div 32) % 2
        /\ ((x % 65536) \div 64) % 2 = (x \div 64) % 2
        /\ ((x % 65536) \div 128) % 2 = (x \div 128) % 2
    OBVIOUS
  <2> QED BY <2>1, <2>2 DEF BitAt
<1>4. Is(65536, 8) /\ Is(65536, 9) /\ Is(65536, 10) /\ Is(65536, 11)
  <2>1. 2^8 = 256 /\ 2^9 = 512 /\ 2^10 = 1024 /\ 2^11 = 2048
    OBVIOUS
  <2>2. ((x % 65536) \div 256) % 2 = (x \div 256) % 2
    OBVIOUS
  <2>3. ((x % 65536) \div 512) % 2 = (x \div 512) % 2
    OBVIOUS
  <2>4. ((x % 65536) \div 1024) % 2 = (x \div 1024) % 2
    OBVIOUS
  <2>5. ((x % 65536) \div 2048) % 2 = (x \div 2048) % 2
    OBVIOUS
  <2> QED BY <2>1, <2>2, <2>3, <2>4, <2>5 DEF BitAt
<1> HIDE DEF Is
<1>5. ASSUME NEW j \in 0..4 PROVE Is(32, j)
  <2>1. j = 0 \/ j = 1 \/ j = 2 \/ j = 3 \/ j = 4
    OBVIOUS
  <2> QED BY <1>1, <2>1
<1>6. ASSUME NEW j \in 0..11 PROVE Is(65536, j)
  <2>1. \/ j = 0 \/ j = 1 \/ j = 2 \/ j = 3 \/ j = 4 \/ j = 5 \/ j = 6 \/ j = 7
        \/ j = 8 \/ j = 9 \/ j = 10 \/ j = 11
    OBVIOUS
  <2> QED BY <1>2, <1>3, <1>4, <2>1
<1> QED BY <1>5, <1>6 DEF Is

\* Bits that are pushed to the right by m.
LEMMA BitsOfDiv ==
    ASSUME NEW x \in Nat, NEW m \in 0..7, NEW j \in 0..4
    PROVE  BitAt(x \div 2^m, j) = BitAt(x, m + j)
<1> DEFINE y == x \div 2^m
<1>1. y \in Nat
  <2>1. m = 0 \/ m = 1 \/ m = 2 \/ m = 3 \/ m = 4 \/ m = 5 \/ m = 6 \/ m = 7
    OBVIOUS
  <2>2. /\ x \div 2^0 \in Nat /\ x \div 2^1 \in Nat /\ x \div 2^2 \in Nat /\ x \div 2^3 \in Nat
        /\ x \div 2^4 \in Nat /\ x \div 2^5 \in Nat /\ x \div 2^6 \in Nat /\ x \div 2^7 \in Nat
    OBVIOUS
  <2> QED BY <2>1, <2>2
<1> DEFINE Is(k) == y \div 2^k = x \div 2^(m + k)
<1>2. Is(0)
  <2>1. 2^0 = 1 /\ m + 0 = m
    OBVIOUS
  <2> HIDE DEF y
  <2>2. y \div 1 = y
    BY <1>1
  <2> QED BY <2>1, <2>2 DEF y
<1>3. ASSUME NEW k \in 0..3, Is(k) PROVE Is(k + 1)
  <2>1. k \in 0..11 /\ m + k \in 0..11 /\ m + (k + 1) = (m + k) + 1
    OBVIOUS
  <2> HIDE DEF y
  <2>2. y \div 2^(k + 1) = (y \div 2^k) \div 2
    BY <1>1, <2>1, Halved
  <2>3. x \div 2^((m + k) + 1) = (x \div 2^(m + k)) \div 2
    BY <2>1, Halved
  <2> QED BY <1>3, <2>1, <2>2, <2>3
<1> HIDE DEF Is
<1>4. Is(1) /\ Is(2) /\ Is(3) /\ Is(4)
  <2>1. 0 + 1 = 1 /\ 1 + 1 = 2 /\ 2 + 1 = 3 /\ 3 + 1 = 4
    OBVIOUS
  <2>2. Is(1)
    BY <1>2, <1>3, <2>1
  <2>3. Is(2)
    BY <1>3, <2>1, <2>2
  <2>4. Is(3)
    BY <1>3, <2>1, <2>3
  <2>5. Is(4)
    BY <1>3, <2>1, <2>4
  <2> QED BY <2>2, <2>3, <2>4, <2>5
<1>5. j = 0 \/ j = 1 \/ j = 2 \/ j = 3 \/ j = 4
  OBVIOUS
<1>6. Is(j)
  BY <1>2, <1>4, <1>5
<1> HIDE DEF y
<1> QED BY <1>6 DEF Is, BitAt, y

\* Bits of a number that takes in a byte.
LEMMA BitsOfNext ==
    ASSUME NEW x \in Nat, NEW d \in Code
    PROVE  /\ \A j \in 0..7 : BitAt(x * 256 + d, j) = BitAt(d, j)
           /\ \A j \in 8..11 : BitAt(x * 256 + d, j) = BitAt(x, j - 8)
<1> DEFINE v == x * 256 + d
           Low(j) == BitAt(v, j) = BitAt(d, j)
           High(j) == BitAt(v, j) = BitAt(x, j - 8)
<1>1. d \in 0..255 /\ v \in Nat /\ v = x * 256 + d
  BY DEF Code
<1> HIDE DEF v
<1>2. Low(0) /\ Low(1) /\ Low(2) /\ Low(3)
  <2>1. 2^0 = 1 /\ 2^1 = 2 /\ 2^2 = 4 /\ 2^3 = 8
    OBVIOUS
  <2>2. /\ (v \div 1) % 2 = (d \div 1) % 2
        /\ (v \div 2) % 2 = (d \div 2) % 2
    BY <1>1
  <2>3. /\ (v \div 4) % 2 = (d \div 4) % 2
        /\ (v \div 8) % 2 = (d \div 8) % 2
    BY <1>1
  <2> QED BY <2>1, <2>2, <2>3 DEF BitAt
<1>3. Low(4) /\ Low(5) /\ Low(6) /\ Low(7)
  <2>1. 2^4 = 16 /\ 2^5 = 32 /\ 2^6 = 64 /\ 2^7 = 128
    OBVIOUS
  <2>2. /\ (v \div 16) % 2 = (d \div 16) % 2
        /\ (v \div 32) % 2 = (d \div 32) % 2
    BY <1>1
  <2>3. /\ (v \div 64) % 2 = (d \div 64) % 2
        /\ (v \div 128) % 2 = (d \div 128) % 2
    BY <1>1
  <2> QED BY <2>1, <2>2, <2>3 DEF BitAt
<1>4. High(8) /\ High(9) /\ High(10) /\ High(11)
  <2>1. /\ 2^8 = 256 /\ 2^9 = 512 /\ 2^10 = 1024 /\ 2^11 = 2048
        /\ 8 - 8 = 0 /\ 9 - 8 = 1 /\ 10 - 8 = 2 /\ 11 - 8 = 3
        /\ 2^0 = 1 /\ 2^1 = 2 /\ 2^2 = 4 /\ 2^3 = 8
    OBVIOUS
  <2>2. /\ v \div 256 = x \div 1
        /\ v \div 512 = x \div 2
    BY <1>1
  <2>3. /\ v \div 1024 = x \div 4
        /\ v \div 2048 = x \div 8
    BY <1>1
  <2> QED BY <2>1, <2>2, <2>3 DEF BitAt
<1> HIDE DEF Low, High
<1>5. ASSUME NEW j \in 0..7 PROVE Low(j)
  <2>1. j = 0 \/ j = 1 \/ j = 2 \/ j = 3 \/ j = 4 \/ j = 5 \/ j = 6 \/ j = 7
    OBVIOUS
  <2> QED BY <1>2, <1>3, <2>1
<1>6. ASSUME NEW j \in 8..11 PROVE High(j)
  <2>1. j = 8 \/ j = 9 \/ j = 10 \/ j = 11
    OBVIOUS
  <2> QED BY <1>4, <2>1
<1> QED BY <1>5, <1>6 DEF Low, High, v

\* Bits that are pushed to the left, with zeros after them.
LEMMA BitsOfShift ==
    ASSUME NEW x \in Nat, NEW p \in 1..4, NEW j \in 0..4
    PROVE  BitAt(x * 2^p, j) = IF j < p THEN 0 ELSE BitAt(x, j - p)
<1> DEFINE Is(q, i) == BitAt(x * 2^q, i) = IF i < q THEN 0 ELSE BitAt(x, i - q)
           All(q) == Is(q, 0) /\ Is(q, 1) /\ Is(q, 2) /\ Is(q, 3) /\ Is(q, 4)
<1>1. 2^0 = 1 /\ 2^1 = 2 /\ 2^2 = 4 /\ 2^3 = 8 /\ 2^4 = 16
  OBVIOUS
<1>2. All(1)
  <2>1. /\ ((x * 2) \div 1) % 2 = 0
        /\ (x * 2) \div 2 = x \div 1
        /\ (x * 2) \div 4 = x \div 2
        /\ (x * 2) \div 8 = x \div 4
        /\ (x * 2) \div 16 = x \div 8
    OBVIOUS
  <2>2. 1 - 1 = 0 /\ 2 - 1 = 1 /\ 3 - 1 = 2 /\ 4 - 1 = 3
    OBVIOUS
  <2> QED BY <1>1, <2>1, <2>2 DEF BitAt
<1>3. All(2)
  <2>1. /\ ((x * 4) \div 1) % 2 = 0
        /\ ((x * 4) \div 2) % 2 = 0
        /\ (x * 4) \div 4 = x \div 1
        /\ (x * 4) \div 8 = x \div 2
        /\ (x * 4) \div 16 = x \div 4
    OBVIOUS
  <2>2. 2 - 2 = 0 /\ 3 - 2 = 1 /\ 4 - 2 = 2
    OBVIOUS
  <2> QED BY <1>1, <2>1, <2>2 DEF BitAt
<1>4. All(3)
  <2>1. /\ ((x * 8) \div 1) % 2 = 0
        /\ ((x * 8) \div 2) % 2 = 0
        /\ ((x * 8) \div 4) % 2 = 0
        /\ (x * 8) \div 8 = x \div 1
        /\ (x * 8) \div 16 = x \div 2
    OBVIOUS
  <2>2. 3 - 3 = 0 /\ 4 - 3 = 1
    OBVIOUS
  <2> QED BY <1>1, <2>1, <2>2 DEF BitAt
<1>5. All(4)
  <2>1. /\ ((x * 16) \div 1) % 2 = 0
        /\ ((x * 16) \div 2) % 2 = 0
        /\ ((x * 16) \div 4) % 2 = 0
        /\ ((x * 16) \div 8) % 2 = 0
        /\ (x * 16) \div 16 = x \div 1
    OBVIOUS
  <2>2. 4 - 4 = 0
    OBVIOUS
  <2> QED BY <1>1, <2>1, <2>2 DEF BitAt
<1>6. p = 1 \/ p = 2 \/ p = 3 \/ p = 4
  OBVIOUS
<1>7. j = 0 \/ j = 1 \/ j = 2 \/ j = 3 \/ j = 4
  OBVIOUS
<1> HIDE DEF Is
<1>8. Is(p, j)
  BY <1>2, <1>3, <1>4, <1>5, <1>6, <1>7
<1> QED BY <1>8 DEF Is

\* A bit of data, and zeros after the last one.
DataBit(t, i) == IF i < 8 * Len(t) THEN Bit(t, 8, i) ELSE 0

\* The bits of a byte of the data.
LEMMA BitOfByte ==
    ASSUME NEW t \in Text, NEW p \in Nat, p < Len(t), NEW j \in 0..7
    PROVE  DataBit(t, 8 * p + 7 - j) = BitAt(t[p + 1], j)
<1> DEFINE i == 8 * p + 7 - j
<1>1. i \div 8 = p /\ i % 8 = 7 - j /\ Len(t) \in Nat
  <2>1. Len(t) \in Nat
    BY DEF Text
  <2> QED BY <2>1
<1>2. i < 8 * Len(t)
  <2> DEFINE n == Len(t)
  <2>1. n \in Nat /\ p < n
    BY <1>1
  <2> HIDE DEF n
  <2>2. i < 8 * n
    BY <2>1
  <2> QED BY <2>2 DEF n
<1>3. 8 - 1 - (7 - j) = j
  OBVIOUS
<1> HIDE DEF i
<1>4. DataBit(t, i) = Bit(t, 8, i)
  BY <1>2 DEF DataBit
<1>5. Bit(t, 8, i) = (t[p + 1] \div 2^j) % 2
  BY <1>1, <1>3 DEF Bit
<1> QED BY <1>4, <1>5 DEF i, BitAt

\* What the encoder has taken and not written yet: the bits of the data up to
\* place `end`, the last one at the right.
Holds(t, buffer, bitsLeft, end) ==
    \A j \in 0..(bitsLeft - 1) : BitAt(buffer, j) = DataBit(t, end - 1 - j)

\* Remainders and characters are values of the buffer.
LEMMA IntType ==
    /\ \A v \in Nat : v % INT \in 0..(INT - 1)
    /\ \A v \in 0..(INT - 1) : v \in Nat
    /\ \A c \in Code : c \in 0..(INT - 1) /\ c \in Nat
<1>1. INT = 65536
  BY DEF INT
<1>2. INT \in Nat
  BY DEF INT
<1>3. \A v \in Nat : v % INT \in Int /\ 0 <= v % INT /\ v % INT <= INT - 1
  <2>1. \A v \in Nat : v % 65536 \in Int /\ 0 <= v % 65536 /\ v % 65536 <= 65536 - 1
    OBVIOUS
  <2> QED BY <1>1, <2>1
<1>4. \A v \in 0..(INT - 1) : v \in Nat
  BY <1>2
<1>5. \A c \in Code : c \in Int /\ 0 <= c /\ c <= INT - 1
  <2>1. \A c \in Code : c \in Int /\ 0 <= c /\ c <= 255
    BY DEF Code
  <2> QED BY <1>1, <2>1
<1> QED BY <1>2, <1>3, <1>4, <1>5

\* The bits of a character.
LEMMA LowFive ==
    \A v \in Nat : \A j \in 0..4 : BitAt(v % 32, j) = BitAt(v, j)
BY LowBits

\* The bits that an int keeps.
LEMMA MaskedBits ==
    \A v \in Nat : \A j \in 0..11 : BitAt(v % INT, j) = BitAt(v, j)
<1>1. \A v \in Nat : \A j \in 0..11 : BitAt(v % 65536, j) = BitAt(v, j)
  BY LowBits
<1> QED BY <1>1 DEF INT

\* base32_fill takes in a byte: the bits move up, and the byte is below them.
LEMMA FilledByte ==
    ASSUME NEW t \in Text, NEW next \in Nat, next < Len(t), NEW bitsLeft \in 0..4,
           NEW x \in 0..(INT - 1), Holds(t, x, bitsLeft, 8 * next)
    PROVE  Holds(t, (x * 256 + t[next + 1]) % INT, bitsLeft + 8, 8 * (next + 1))
<1> DEFINE d == t[next + 1]
           v == x * 256 + d
<1>1. d \in Code /\ Len(t) \in Nat
  BY DEF Text
<1> HIDE DEF d
<1>2. x \in Nat /\ v \in Nat
  <2>1. x \in Nat /\ d \in Nat
    BY <1>1, IntType
  <2> QED BY <2>1
<1>3. /\ \A j \in 0..7 : BitAt(v, j) = BitAt(d, j)
      /\ \A j \in 8..11 : BitAt(v, j) = BitAt(x, j - 8)
  BY <1>1, <1>2, BitsOfNext
<1> HIDE DEF v
<1>4. \A j \in 0..11 : BitAt(v % INT, j) = BitAt(v, j)
  BY <1>2, MaskedBits
<1>5. ASSUME NEW j \in 0..((bitsLeft + 8) - 1)
      PROVE  BitAt(v % INT, j) = DataBit(t, 8 * (next + 1) - 1 - j)
  <2>1. j \in 0..11
    OBVIOUS
  <2>2. BitAt(v % INT, j) = BitAt(v, j)
    BY <1>4, <2>1
  <2>3. CASE j \in 0..7
    <3>1. DataBit(t, 8 * next + 7 - j) = BitAt(d, j)
      BY <2>3, BitOfByte DEF d
    <3>2. 8 * next + 7 - j = 8 * (next + 1) - 1 - j
      BY <2>3
    <3> QED BY <1>3, <2>2, <2>3, <3>1, <3>2
  <2>4. CASE j \notin 0..7
    <3>1. j \in 8..11 /\ j - 8 \in 0..(bitsLeft - 1)
      BY <2>1, <2>4
    <3>2. BitAt(x, j - 8) = DataBit(t, 8 * next - 1 - (j - 8))
      BY <3>1 DEF Holds
    <3>3. 8 * next - 1 - (j - 8) = 8 * (next + 1) - 1 - j
      BY <2>1
    <3> QED BY <1>3, <2>2, <3>1, <3>2, <3>3
  <2> QED BY <2>3, <2>4
<1> QED BY <1>5 DEF Holds, v, d

\* After the last byte: zeros to the right of the bits.
LEMMA FilledZeros ==
    ASSUME NEW t \in Text, NEW bitsLeft \in 1..4,
           NEW x \in 0..(INT - 1), Holds(t, x, bitsLeft, 8 * Len(t))
    PROVE  Holds(t, (x * 2^(5 - bitsLeft)) % INT, 5, 8 * Len(t) - bitsLeft + 5)
<1> DEFINE p == 5 - bitsLeft
           v == x * 2^p
           n == Len(t)
<1>1. p \in 1..4 /\ bitsLeft = 5 - p /\ x \in Nat /\ n \in Nat
  <2>1. x \in Nat /\ n \in Nat
    BY IntType DEF Text
  <2> HIDE DEF n
  <2> QED BY <2>1
<1>2. v \in Nat
  <2>1. 2^1 \in Nat /\ 2^2 \in Nat /\ 2^3 \in Nat /\ 2^4 \in Nat
    OBVIOUS
  <2>2. p = 1 \/ p = 2 \/ p = 3 \/ p = 4
    BY <1>1
  <2>3. 2^p \in Nat
    <3> HIDE DEF p
    <3> QED BY <2>1, <2>2
  <2> QED BY <1>1, <2>3
<1> HIDE DEF p, n
<1>3. \A j \in 0..4 : BitAt(v, j) = IF j < p THEN 0 ELSE BitAt(x, j - p)
  BY <1>1, BitsOfShift
<1> HIDE DEF v
<1>4. \A j \in 0..11 : BitAt(v % INT, j) = BitAt(v, j)
  BY <1>2, MaskedBits
<1>5. ASSUME NEW j \in 0..(5 - 1)
      PROVE  BitAt(v % INT, j) = DataBit(t, (8 * n - bitsLeft + 5) - 1 - j)
  <2>1. j \in 0..11 /\ j \in 0..4
    OBVIOUS
  <2>2. BitAt(v % INT, j) = BitAt(v, j)
    BY <1>4, <2>1
  <2>3. CASE j < p
    <3>1. ~((8 * n - bitsLeft + 5) - 1 - j < 8 * n)
      BY <1>1, <2>1, <2>3
    <3>2. DataBit(t, (8 * n - bitsLeft + 5) - 1 - j) = 0
      BY <3>1 DEF DataBit, n
    <3> QED BY <1>3, <2>1, <2>2, <2>3, <3>2
  <2>4. CASE ~(j < p)
    <3>1. j - p \in 0..(bitsLeft - 1) /\ 8 * n - 1 - (j - p) = (8 * n - bitsLeft + 5) - 1 - j
      BY <1>1, <2>1, <2>4
    <3>2. BitAt(x, j - p) = DataBit(t, 8 * n - 1 - (j - p))
      BY <3>1 DEF Holds, n
    <3> QED BY <1>3, <2>1, <2>2, <2>4, <3>1, <3>2
  <2> QED BY <2>3, <2>4
<1> QED BY <1>5 DEF Holds, v, p, n

\* The next character has the first five of the bits.
LEMMA CharacterBits ==
    ASSUME NEW t \in Text, NEW x \in Nat, NEW bits \in 5..12, NEW end \in Int,
           Holds(t, x, bits, end)
    PROVE  LET c == (x \div 2^(bits - 5)) % 32
           IN  /\ c \in 0..31
               /\ \A j \in 0..4 : BitAt(c, j) = DataBit(t, (end - bits) + 4 - j)
<1> DEFINE m == bits - 5
           y == x \div 2^m
<1>1. m \in 0..7 /\ bits = m + 5
  OBVIOUS
<1> HIDE DEF m
<1>2. y \in Nat
  <2>1. m = 0 \/ m = 1 \/ m = 2 \/ m = 3 \/ m = 4 \/ m = 5 \/ m = 6 \/ m = 7
    BY <1>1
  <2>2. /\ x \div 2^0 \in Nat /\ x \div 2^1 \in Nat /\ x \div 2^2 \in Nat /\ x \div 2^3 \in Nat
        /\ x \div 2^4 \in Nat /\ x \div 2^5 \in Nat /\ x \div 2^6 \in Nat /\ x \div 2^7 \in Nat
    OBVIOUS
  <2> QED BY <2>1, <2>2
<1>3. \A j \in 0..4 : BitAt(y, j) = BitAt(x, m + j)
  BY <1>1, BitsOfDiv
<1> HIDE DEF y
<1>4. y % 32 \in 0..31 /\ \A j \in 0..4 : BitAt(y % 32, j) = BitAt(y, j)
  <2>1. y % 32 \in 0..31
    BY <1>2
  <2> QED BY <1>2, <2>1, LowFive
<1>5. ASSUME NEW j \in 0..4 PROVE BitAt(y % 32, j) = DataBit(t, (end - bits) + 4 - j)
  <2>1. m + j \in 0..(bits - 1) /\ end - 1 - (m + j) = (end - bits) + 4 - j
    BY <1>1
  <2>2. BitAt(x, m + j) = DataBit(t, end - 1 - (m + j))
    BY <2>1 DEF Holds
  <2> QED BY <1>3, <1>4, <2>1, <2>2
<1> QED BY <1>4, <1>5 DEF y, m

\* Powers of two, and divisions by them, are naturals.
LEMMA PowersAreNat ==
    /\ \A p \in 1..5 : 2^p \in Nat
    /\ \A x \in Nat, m \in 0..7 : x \div 2^m \in Nat
<1>1. ASSUME NEW p \in 1..5 PROVE 2^p \in Nat
  <2>1. 2^1 \in Nat /\ 2^2 \in Nat /\ 2^3 \in Nat /\ 2^4 \in Nat /\ 2^5 \in Nat
    OBVIOUS
  <2>2. p = 1 \/ p = 2 \/ p = 3 \/ p = 4 \/ p = 5
    OBVIOUS
  <2> QED BY <2>1, <2>2
<1>2. ASSUME NEW x \in Nat, NEW m \in 0..7 PROVE x \div 2^m \in Nat
  <2>1. m = 0 \/ m = 1 \/ m = 2 \/ m = 3 \/ m = 4 \/ m = 5 \/ m = 6 \/ m = 7
    OBVIOUS
  <2>2. /\ x \div 2^0 \in Nat /\ x \div 2^1 \in Nat /\ x \div 2^2 \in Nat /\ x \div 2^3 \in Nat
        /\ x \div 2^4 \in Nat /\ x \div 2^5 \in Nat /\ x \div 2^6 \in Nat /\ x \div 2^7 \in Nat
    OBVIOUS
  <2> QED BY <2>1, <2>2
<1> QED BY <1>1, <1>2

\* base32_fill leaves five bits or more.
LEMMA FillType ==
    ASSUME NEW t \in Text, NEW s \in Encoder
    PROVE  LET f == base32_fill(s, t)
           IN  /\ f \in [buffer: 0..(INT - 1), next: Nat, bitsLeft: 5..12, result: Text]
               /\ f.result = s.result
<1> DEFINE f == base32_fill(s, t)
           Filled == [buffer: 0..(INT - 1), next: Nat, bitsLeft: 5..12, result: Text]
           x == s.buffer
           p == s.next
           b == s.bitsLeft
           n == Len(t)
<1>1. x \in 0..(INT - 1) /\ x \in Nat /\ p \in Nat /\ b \in 0..8 /\ s.result \in Text /\ n \in Nat
  <2>1. x \in 0..(INT - 1) /\ p \in Nat /\ b \in 0..8 /\ s.result \in Text /\ n \in Nat
    BY DEF Encoder, Text
  <2> HIDE DEF x, p, b, n
  <2> QED BY <2>1
<1>2. \A v \in Nat : v % INT \in 0..(INT - 1)
  BY IntType
<1> HIDE DEF x, p, b, n
<1>3. CASE b >= 5
  <2>1. f = s
    BY <1>3 DEF base32_fill, b
  <2>2. b \in 5..12
    BY <1>1, <1>3
  <2>3. s \in Filled
    BY <1>1, <2>2 DEF Encoder, b
  <2> QED BY <2>1, <2>3
<1>4. CASE ~(b >= 5) /\ p < n
  <2> DEFINE d == t[p + 1]
             v == x * 256 + d
  <2>1. v \in Nat
    <3>1. p + 1 \in 1..n
      BY <1>1, <1>4
    <3>2. d \in 0..255
      <4>1. \A i \in 1..Len(t) : t[i] \in Code
        BY DEF Text
      <4>2. d \in Code
        BY <3>1, <4>1 DEF n
      <4> QED BY <4>2 DEF Code
    <3> HIDE DEF d
    <3> QED BY <1>1, <3>2
  <2>2. f = [s EXCEPT !.buffer = v % INT, !.next = p + 1, !.bitsLeft = b + 8]
    BY <1>4 DEF base32_fill, Encoder, x, p, b, n
  <2> HIDE DEF v, f
  <2>3. v % INT \in 0..(INT - 1) /\ p + 1 \in Nat
    BY <1>1, <1>2, <2>1
  <2>4. b + 8 \in 5..12
    BY <1>1, <1>4
  <2>5. f = [buffer |-> v % INT, next |-> p + 1, bitsLeft |-> b + 8, result |-> s.result]
    BY <2>2 DEF Encoder
  <2> QED BY <1>1, <2>3, <2>4, <2>5 DEF f
<1>5. CASE ~(b >= 5) /\ ~(p < n)
  <2> DEFINE v == x * 2^(5 - b)
  <2>1. v \in Nat
    <3>1. 5 - b \in 1..5
      BY <1>1, <1>5
    <3>2. 2^(5 - b) \in Nat
      BY <3>1, PowersAreNat
    <3> QED BY <1>1, <3>2
  <2>2. f = [s EXCEPT !.buffer = v % INT, !.bitsLeft = 5]
    BY <1>5 DEF base32_fill, Encoder, x, p, b, n
  <2> HIDE DEF v, f
  <2>3. v % INT \in 0..(INT - 1) /\ 5 \in 5..12
    BY <1>2, <2>1
  <2>4. f = [buffer |-> v % INT, next |-> p, bitsLeft |-> 5, result |-> s.result]
    BY <2>2 DEF Encoder, p
  <2> QED BY <1>1, <2>3, <2>4 DEF f
<1> QED BY <1>3, <1>4, <1>5

\* A turn of the loop of base32_encode.
Turn(t, s) == base32_character(base32_fill(s, t))

Character(f) == (f.buffer \div 2^(f.bitsLeft - 5)) % 32

\* A turn appends one character.
LEMMA TurnType ==
    ASSUME NEW t \in Text, NEW s \in Encoder
    PROVE  LET f == base32_fill(s, t)
           IN  /\ Turn(t, s) = [buffer |-> f.buffer, next |-> f.next, bitsLeft |-> f.bitsLeft - 5,
                                result |-> Append(s.result, Character(f))]
               /\ Turn(t, s) \in Encoder
               /\ Character(f) \in Code
<1> DEFINE f == base32_fill(s, t)
           Filled == [buffer: 0..(INT - 1), next: Nat, bitsLeft: 5..12, result: Text]
           c == Character(f)
<1>1. f \in Filled /\ f.result = s.result
  BY FillType
<1> HIDE DEF f
<1>2. f.buffer \in 0..(INT - 1) /\ f.next \in Nat /\ f.bitsLeft \in 5..12 /\ f.result \in Text
  BY <1>1
<1>3. c \in 0..31
  <2> DEFINE x == f.buffer
             m == f.bitsLeft - 5
             y == x \div 2^m
  <2>1. x \in Nat
    BY <1>2
  <2>2. m \in 0..7
    <3> DEFINE b == f.bitsLeft
    <3>1. b \in 5..12
      BY <1>2
    <3> HIDE DEF b
    <3>2. b - 5 \in 0..7
      BY <3>1
    <3> QED BY <3>2 DEF b
  <2> HIDE DEF x, m
  <2>3. y \in Nat
    BY <2>1, <2>2, PowersAreNat
  <2> HIDE DEF y
  <2>4. y % 32 \in 0..31
    BY <2>3
  <2> QED BY <2>4 DEF Character, x, m, y
<1>4. c \in Code
  BY <1>3 DEF Code
<1>5. base32_character(f) = [buffer |-> f.buffer, next |-> f.next, bitsLeft |-> f.bitsLeft - 5,
                             result |-> Append(f.result, c)]
  <2>1. base32_character(f) = [f EXCEPT !.result = Append(f.result, c),
                                        !.bitsLeft = f.bitsLeft - 5]
    BY DEF base32_character, Character
  <2> HIDE DEF c
  <2> QED BY <1>1, <2>1
<1> HIDE DEF c
<1>6. Append(f.result, c) \in Text
  BY <1>2, <1>4, Appended
<1>7. base32_character(f) \in Encoder
  <2>1. f.bitsLeft - 5 \in 0..8
    BY <1>2
  <2> QED BY <1>2, <1>5, <1>6, <2>1 DEF Encoder
<1> QED BY <1>1, <1>4, <1>5, <1>7 DEF Turn, f, c

More(t, size, s) == Len(s.result) < size /\ (s.bitsLeft > 0 \/ s.next < Len(t))

IsEncoderLoop(loop, t, size) ==
    \A s \in Encoder : loop[s] = IF More(t, size, s) THEN loop[Turn(t, s)] ELSE s.result

Start(t) == [buffer |-> t[1], next |-> 1, bitsLeft |-> 8, result |-> <<>>]

\* The loop of base32_encode has the values that its body says.
LEMMA EncoderLoop ==
    ASSUME NEW t \in Text, t # <<>>, NEW bufSize \in Nat
    PROVE  \E loop : /\ base32_characters(t, bufSize) = loop[Start(t)]
                     /\ IsEncoderLoop(loop, t, bufSize)
<1> DEFINE X == Encoder
           Value(f, s) == IF More(t, bufSize, s) THEN f[Turn(t, s)] ELSE s.result
           Is(f) == f = [s \in X |-> Value(f, s)]
           iter  == CHOOSE f : Is(f)
           End   == {s \in X : ~More(t, bufSize, s)}
           first == [s \in X |-> s.result]
           next  == [s \in X |-> Turn(t, s)]
           step  == [p \in X \X Text |-> p[2]]
           size  == [s \in X |-> IF Len(s.result) < bufSize THEN bufSize - Len(s.result) ELSE 0]
<1>1. base32_characters(t, bufSize) = iter[Start(t)]
  BY DEF base32_characters, Start, More, Turn
<1>2. ASSUME NEW s \in X
      PROVE  /\ Turn(t, s) \in X /\ size[s] \in Nat
             /\ s \notin End => size[Turn(t, s)] < size[s]
  <2> DEFINE r == s.result
             s2 == Turn(t, s)
             c == Character(base32_fill(s, t))
  <2>1. s2 \in X /\ s2.result = Append(r, c) /\ c \in Code /\ r \in Text
    <3>1. r \in Text
      BY DEF Encoder
    <3>2. /\ s2 \in Encoder /\ c \in Code
          /\ s2 = [buffer |-> base32_fill(s, t).buffer, next |-> base32_fill(s, t).next,
                   bitsLeft |-> base32_fill(s, t).bitsLeft - 5, result |-> Append(r, c)]
      BY TurnType
    <3> HIDE DEF c, s2, r
    <3> QED BY <3>1, <3>2
  <2> HIDE DEF c, s2, r
  <2>2. Len(s2.result) = Len(r) + 1 /\ Len(r) \in Nat
    BY <2>1, Appended
  <2>3. /\ size[s] = IF Len(r) < bufSize THEN bufSize - Len(r) ELSE 0
        /\ size[s2] = IF Len(r) + 1 < bufSize THEN bufSize - (Len(r) + 1) ELSE 0
        /\ s \notin End => Len(r) < bufSize
    BY <2>1, <2>2 DEF r, More
  <2> HIDE DEF size, End
  <2>4. size[s] \in Nat /\ (Len(r) < bufSize => size[s2] < size[s])
    BY <2>2, <2>3
  <2> QED BY <2>1, <2>3, <2>4 DEF s2
<1>3. ComesToEnd(X, Text, End, first, next, step, size)
  <2>1. Text # {}
    BY ShortTexts
  <2>2. \A s \in X \ End : size[next[s]] < size[s]
    <3> HIDE DEF size, End
    <3> QED BY <1>2
  <2>3. next \in [X -> X]
    <3> HIDE DEF size, End, X
    <3> QED BY <1>2
  <2>4. size \in [X -> Nat]
    <3>1. size = [s \in X |-> size[s]]
      OBVIOUS
    <3> HIDE DEF size, End, X
    <3> QED BY <1>2, <3>1
  <2>5. End \subseteq X /\ first \in [X -> Text] /\ step \in [X \X Text -> Text]
    BY DEF Encoder
  <2> HIDE DEF End, first, next, step, size, X
  <2> QED BY <2>1, <2>2, <2>3, <2>4, <2>5 DEF ComesToEnd
<1>4. PICK g \in [X -> Text] : \A s \in X : g[s] = Body(g, s, End, first, next, step)
  <2> HIDE DEF End, first, next, step, size, X
  <2> QED BY <1>3, Recursion
<1>5. ASSUME NEW s \in X PROVE g[s] = Value(g, s)
  <2>1. CASE s \in End
    BY <1>4, <2>1 DEF Body
  <2>2. CASE s \notin End
    <3>1. g[s] = step[<<s, g[next[s]]>>] /\ next[s] = Turn(t, s)
      <4> HIDE DEF step, End, first
      <4> QED BY <1>4, <2>2 DEF Body
    <3>2. g[Turn(t, s)] \in Text
      BY <1>2
    <3>3. g[s] = g[Turn(t, s)]
      <4> HIDE DEF X
      <4> QED BY <3>1, <3>2
    <3> QED BY <2>2, <3>3
  <2> QED BY <2>1, <2>2
<1>6. Is(g)
  <2> HIDE DEF Value, X
  <2> QED BY <1>5
<1>7. Is(iter)
  <2> HIDE DEF Is
  <2> QED BY <1>6
<1> HIDE DEF iter
<1>8. \A s \in X : iter[s] = Value(iter, s)
  <2> HIDE DEF Value, X
  <2> QED BY <1>7
<1>9. IsEncoderLoop(iter, t, bufSize)
  BY <1>8 DEF IsEncoderLoop
<1> QED BY <1>1, <1>9

\* The characters of r have the bits of the data, five at a time.
GivesBits(t, r) ==
    \A q \in 0..(Len(r) - 1) :
        /\ r[q + 1] \in 0..31
        /\ \A j \in 0..4 : BitAt(r[q + 1], j) = DataBit(t, 5 * q + 4 - j)

\* Enough characters and not one more.
Enough(n, k) == 8 * n <= 5 * k /\ 5 * k < 8 * n + 5

EncoderInv(t, size, s) ==
    LET k == Len(s.result)
    IN  /\ k <= size /\ s.next \in 1..Len(t) /\ GivesBits(t, s.result)
        /\ Holds(t, s.buffer, s.bitsLeft, 5 * k + s.bitsLeft)
        /\ \/ 5 * k + s.bitsLeft = 8 * s.next
           \/ s.bitsLeft = 0 /\ s.next = Len(t) /\ Enough(Len(t), k)

\* What base32_fill leaves to take the next character from.
LEMMA FilledBits ==
    ASSUME NEW t \in Text, NEW size \in Nat, NEW s \in Encoder,
           EncoderInv(t, size, s), More(t, size, s)
    PROVE  LET f == base32_fill(s, t)
               k == Len(s.result)
           IN  /\ Holds(t, f.buffer, f.bitsLeft, 5 * k + f.bitsLeft)
               /\ f.next \in 1..Len(t)
               /\ \/ 5 * k + f.bitsLeft = 8 * f.next
                  \/ f.bitsLeft = 5 /\ f.next = Len(t) /\ Enough(Len(t), k + 1)
<1> DEFINE f == base32_fill(s, t)
           x == s.buffer
           p == s.next
           b == s.bitsLeft
           n == Len(t)
           k == Len(s.result)
<1>1. x \in 0..(INT - 1) /\ b \in 0..8 /\ n \in Nat /\ k \in Nat /\ p \in 1..n
  BY DEF Encoder, Text, EncoderInv
<1>2. /\ Holds(t, x, b, 5 * k + b)
      /\ 5 * k + b = 8 * p \/ (b = 0 /\ p = n)
      /\ b > 0 \/ p < n
  BY DEF EncoderInv, More
<1> HIDE DEF x, p, b, n, k
<1>3. CASE b >= 5
  <2>1. f = s
    BY <1>3 DEF base32_fill, b
  <2>2. 5 * k + b = 8 * p
    BY <1>1, <1>2, <1>3
  <2> QED BY <1>1, <1>2, <2>1, <2>2 DEF x, p, b, n, k
<1>4. CASE ~(b >= 5) /\ p < n
  <2> DEFINE y == (x * 256 + t[p + 1]) % INT
  <2>1. f = [s EXCEPT !.buffer = y, !.next = p + 1, !.bitsLeft = b + 8]
    BY <1>4 DEF base32_fill, x, p, b, n
  <2>2. 5 * k + b = 8 * p /\ b \in 0..4 /\ p \in Nat
    BY <1>1, <1>2, <1>4
  <2>3. Holds(t, y, b + 8, 8 * (p + 1))
    <3>1. p < Len(t) /\ x \in 0..(INT - 1) /\ Holds(t, x, b, 8 * p)
      BY <1>1, <1>2, <1>4, <2>2 DEF n
    <3> QED BY <2>2, <3>1, FilledByte
  <2> HIDE DEF y, f
  <2>4. f.buffer = y /\ f.next = p + 1 /\ f.bitsLeft = b + 8
    BY <2>1 DEF Encoder
  <2>5. 8 * (p + 1) = 5 * k + (b + 8) /\ p + 1 \in 1..n
    BY <1>1, <1>4, <2>2
  <2> QED BY <2>3, <2>4, <2>5 DEF f, n, k
<1>5. CASE ~(b >= 5) /\ ~(p < n)
  <2> DEFINE y == (x * 2^(5 - b)) % INT
  <2>1. f = [s EXCEPT !.buffer = y, !.bitsLeft = 5]
    BY <1>5 DEF base32_fill, x, p, b, n
  <2>2. 5 * k + b = 8 * n /\ b \in 1..4 /\ p = n
    BY <1>1, <1>2, <1>5
  <2>3. Holds(t, y, 5, 8 * n - b + 5)
    <3>1. x \in 0..(INT - 1) /\ Holds(t, x, b, 8 * Len(t))
      BY <1>1, <1>2, <2>2 DEF n
    <3> QED BY <2>2, <3>1, FilledZeros DEF n
  <2> HIDE DEF y, f
  <2>4. f.buffer = y /\ f.next = p /\ f.bitsLeft = 5
    BY <2>1 DEF Encoder, p
  <2>5. 8 * n - b + 5 = 5 * k + 5 /\ Enough(n, k + 1)
    BY <1>1, <2>2 DEF Enough
  <2> QED BY <1>1, <2>2, <2>3, <2>4, <2>5 DEF f, n, k
<1> QED BY <1>3, <1>4, <1>5

\* A turn keeps the invariant and makes one character.
LEMMA TurnKeeps ==
    ASSUME NEW t \in Text, NEW size \in Nat, NEW s \in Encoder,
           EncoderInv(t, size, s), More(t, size, s)
    PROVE  EncoderInv(t, size, Turn(t, s)) /\ Len(Turn(t, s).result) = Len(s.result) + 1
<1> DEFINE f == base32_fill(s, t)
           r == s.result
           k == Len(r)
           c == Character(f)
           s2 == Turn(t, s)
           x == f.buffer
           l == f.bitsLeft
           n == Len(t)
<1>1. /\ s2 = [buffer |-> x, next |-> f.next, bitsLeft |-> l - 5, result |-> Append(r, c)]
      /\ c \in Code
  BY TurnType
<1>2. x \in Nat /\ l \in 5..12
  <2>1. f.buffer \in 0..(INT - 1) /\ f.bitsLeft \in 5..12
    BY FillType
  <2> HIDE DEF x, l
  <2>2. x \in 0..(INT - 1) /\ l \in 5..12
    BY <2>1 DEF x, l
  <2> QED BY <2>2, IntType
<1>3. r \in Text /\ k \in Nat /\ n \in Nat /\ k < size /\ GivesBits(t, r)
  BY DEF Encoder, Text, EncoderInv, More
<1>4. /\ Holds(t, x, l, 5 * k + l)
      /\ f.next \in 1..n
      /\ 5 * k + l = 8 * f.next \/ (l = 5 /\ f.next = n /\ Enough(n, k + 1))
  BY FilledBits
<1>5. c = (x \div 2^(l - 5)) % 32
  BY DEF Character
<1> HIDE DEF f, r, c, s2, x, l, n
<1>6. Append(r, c) \in Text /\ Len(Append(r, c)) = k + 1 /\ Append(r, c)[k + 1] = c
      /\ \A i \in 1..k : Append(r, c)[i] = r[i]
  BY <1>1, <1>3, Appended
<1> HIDE DEF k
<1>7. c \in 0..31 /\ \A j \in 0..4 : BitAt(c, j) = DataBit(t, 5 * k + 4 - j)
  <2>1. 5 * k + l \in Int /\ (5 * k + l) - l = 5 * k
    BY <1>2, <1>3
  <2>2. c \in 0..31 /\ \A j \in 0..4 : BitAt(c, j) = DataBit(t, ((5 * k + l) - l) + 4 - j)
    BY <1>2, <1>4, <1>5, <2>1, CharacterBits
  <2> QED BY <2>1, <2>2
<1> DEFINE r2 == Append(r, c)
<1> HIDE DEF r2
<1>8. GivesBits(t, r2)
  <2> SUFFICES ASSUME NEW q \in 0..(Len(r2) - 1)
               PROVE  /\ r2[q + 1] \in 0..31
                      /\ \A j \in 0..4 : BitAt(r2[q + 1], j) = DataBit(t, 5 * q + 4 - j)
    BY DEF GivesBits
  <2>1. q \in 0..k
    BY <1>3, <1>6 DEF r2
  <2>2. CASE q = k
    BY <1>6, <1>7, <2>2 DEF r2
  <2>3. CASE q # k
    <3>1. q \in 0..(k - 1) /\ q + 1 \in 1..k
      BY <1>3, <2>1, <2>3
    <3>2. r2[q + 1] = r[q + 1]
      BY <1>6, <3>1 DEF r2
    <3> QED BY <1>3, <3>1, <3>2 DEF GivesBits, k
  <2> QED BY <2>2, <2>3
<1>9. Holds(t, x, l - 5, 5 * (k + 1) + (l - 5))
  <2>1. 5 * (k + 1) + (l - 5) = 5 * k + l
    BY <1>2, <1>3
  <2>2. \A j \in 0..((l - 5) - 1) : j \in 0..(l - 1)
    BY <1>2
  <2> QED BY <1>4, <2>1, <2>2 DEF Holds
<1>10. \/ 5 * (k + 1) + (l - 5) = 8 * f.next
       \/ l - 5 = 0 /\ f.next = n /\ Enough(n, k + 1)
  BY <1>2, <1>3, <1>4
<1>11. k + 1 <= size
  BY <1>3
<1>12. /\ s2.buffer = x /\ s2.next = f.next /\ s2.bitsLeft = l - 5
       /\ s2.result = r2 /\ Len(r2) = k + 1
  BY <1>1, <1>6 DEF r2
<1>13. EncoderInv(t, size, s2)
  BY <1>4, <1>8, <1>9, <1>10, <1>11, <1>12 DEF EncoderInv, n
<1> QED BY <1>12, <1>13 DEF s2, k, r

\* What the loop makes, with no room for more.
Encoding(t, size, r) ==
    /\ r \in Text /\ GivesBits(t, r)
    /\ Len(r) <= size /\ 5 * Len(r) < 8 * Len(t) + 5
    /\ Len(r) = size \/ 8 * Len(t) <= 5 * Len(r)

\* A turn leaves room for one character less.
LEMMA OneNearer ==
    \A size \in Nat, m \in Nat, k \in Nat : size - k = m + 1 => size - (k + 1) = m
OBVIOUS

\* From any state of the invariant on, the loop encodes the data.
LEMMA LoopEncodes ==
    ASSUME NEW t \in Text, NEW size \in Nat, NEW loop, IsEncoderLoop(loop, t, size)
    PROVE  \A s \in Encoder : EncoderInv(t, size, s) => Encoding(t, size, loop[s])
<1> DEFINE Has(m) == \A s \in Encoder :
                        EncoderInv(t, size, s) /\ size - Len(s.result) = m
                            => Encoding(t, size, loop[s])
           S == {m \in Nat : Has(m)}
<1>1. ASSUME NEW s \in Encoder, EncoderInv(t, size, s), ~More(t, size, s)
      PROVE  Encoding(t, size, loop[s])
  <2> DEFINE r == s.result
             k == Len(r)
             b == s.bitsLeft
             p == s.next
             n == Len(t)
  <2>1. r \in Text /\ k \in Nat /\ b \in Nat /\ n \in Nat /\ loop[s] = r
    BY <1>1 DEF Encoder, Text, IsEncoderLoop
  <2>2. /\ k <= size /\ GivesBits(t, r) /\ p \in 1..n
        /\ 5 * k + b = 8 * p \/ (b = 0 /\ p = n /\ Enough(n, k))
        /\ ~(k < size) \/ (~(b > 0) /\ ~(p < n))
    BY <1>1 DEF EncoderInv, More
  <2> HIDE DEF r, k, b, p, n
  <2>3. 5 * k < 8 * n + 5
    BY <2>1, <2>2 DEF Enough
  <2>4. k = size \/ 8 * n <= 5 * k
    BY <2>1, <2>2 DEF Enough
  <2> QED BY <2>1, <2>2, <2>3, <2>4 DEF Encoding, k, n
<1>2. 0 \in S
  <2> SUFFICES ASSUME NEW s \in Encoder, EncoderInv(t, size, s), size - Len(s.result) = 0
               PROVE  Encoding(t, size, loop[s])
    OBVIOUS
  <2>1. ~More(t, size, s)
    <3> DEFINE k == Len(s.result)
    <3>1. k \in Nat /\ size - k = 0
      BY DEF Encoder, Text
    <3> HIDE DEF k
    <3>2. ~(k < size)
      BY <3>1
    <3> QED BY <3>2 DEF More, k
  <2> QED BY <1>1, <2>1
<1>3. ASSUME NEW m \in Nat, m \in S PROVE m + 1 \in S
  <2> SUFFICES ASSUME NEW s \in Encoder, EncoderInv(t, size, s), size - Len(s.result) = m + 1
               PROVE  Encoding(t, size, loop[s])
    <3>1. m + 1 \in Nat
      OBVIOUS
    <3> QED BY <3>1
  <2>1. CASE More(t, size, s)
    <3> DEFINE s2 == Turn(t, s)
    <3>1. s2 \in Encoder
      BY TurnType
    <3>2. EncoderInv(t, size, s2) /\ Len(s2.result) = Len(s.result) + 1
      BY <2>1, TurnKeeps
    <3>3. loop[s] = loop[s2]
      BY <2>1 DEF IsEncoderLoop
    <3> HIDE DEF s2
    <3>4. size - Len(s2.result) = m
      <4> DEFINE k == Len(s.result)
                 k2 == Len(s2.result)
      <4>1. k \in Nat /\ size - k = m + 1 /\ k2 = k + 1
        BY <3>2 DEF Encoder, Text
      <4>2. \A i \in Nat : size - i = m + 1 => size - (i + 1) = m
        BY OneNearer
      <4> HIDE DEF k, k2
      <4>3. size - k2 = m
        BY <4>1, <4>2
      <4> QED BY <4>3 DEF k2
    <3>5. Has(m)
      <4> HIDE DEF Has
      <4> QED BY <1>3
    <3> QED BY <3>1, <3>2, <3>3, <3>4, <3>5
  <2>2. CASE ~More(t, size, s)
    BY <1>1, <2>2
  <2> QED BY <2>1, <2>2
<1> HIDE DEF S
<1>4. Nat \subseteq S
  BY <1>2, <1>3, NatsIn
<1>5. ASSUME NEW s \in Encoder, EncoderInv(t, size, s) PROVE Encoding(t, size, loop[s])
  <2> DEFINE m == size - Len(s.result)
  <2>1. m \in Nat
    <3> DEFINE k == Len(s.result)
    <3>1. k \in Nat /\ k <= size
      BY <1>5 DEF Encoder, Text, EncoderInv
    <3> HIDE DEF k
    <3>2. size - k \in Nat
      BY <3>1
    <3> QED BY <3>2 DEF k
  <2>2. Has(m)
    <3> HIDE DEF Has, m
    <3> QED BY <1>4, <2>1 DEF S
  <2> QED BY <1>5, <2>2
<1> QED BY <1>5

\* The characters before the pads.
LEMMA CharactersEncode ==
    ASSUME NEW t \in Text, NEW size \in Nat
    PROVE  Encoding(t, size, base32_characters(t, size))
<1>1. CASE t = <<>>
  <2>1. base32_characters(t, size) = <<>>
    BY <1>1 DEF base32_characters
  <2>2. <<>> \in Text /\ Len(<<>>) = 0
    BY ShortTexts
  <2>3. GivesBits(t, <<>>)
    BY <2>2 DEF GivesBits
  <2> QED BY <1>1, <2>1, <2>2, <2>3 DEF Encoding
<1>2. CASE t # <<>>
  <2>1. PICK loop : base32_characters(t, size) = loop[Start(t)] /\ IsEncoderLoop(loop, t, size)
    BY <1>2, EncoderLoop
  <2>2. Len(t) \in Nat /\ Len(t) >= 1 /\ t[1] \in Code
    BY <1>2 DEF Text
  <2>3. Start(t) \in Encoder
    <3>1. t[1] \in 0..(INT - 1)
      BY <2>2, IntType
    <3>2. <<>> \in Text
      BY ShortTexts
    <3> QED BY <3>1, <3>2 DEF Encoder, Start
  <2>4. EncoderInv(t, size, Start(t))
    <3>1. Len(<<>>) = 0
      OBVIOUS
    <3>2. GivesBits(t, <<>>)
      BY <3>1 DEF GivesBits
    <3>3. Holds(t, t[1], 8, 8)
      <4> SUFFICES ASSUME NEW j \in 0..(8 - 1) PROVE BitAt(t[1], j) = DataBit(t, 8 - 1 - j)
        BY DEF Holds
      <4>1. j \in 0..7 /\ 8 * 0 + 7 - j = 8 - 1 - j /\ 0 + 1 = 1
        OBVIOUS
      <4>2. DataBit(t, 8 * 0 + 7 - j) = BitAt(t[0 + 1], j)
        <5>1. 0 \in Nat /\ 0 < Len(t)
          BY <2>2
        <5> QED BY <4>1, <5>1, BitOfByte
      <4> QED BY <4>1, <4>2
    <3>4. 5 * 0 + 8 = 8 /\ 8 = 8 * 1 /\ 0 <= size /\ 1 \in 1..Len(t)
      BY <2>2
    <3>5. /\ Start(t).buffer = t[1] /\ Start(t).next = 1 /\ Start(t).bitsLeft = 8
          /\ Start(t).result = <<>>
      BY DEF Start
    <3> QED BY <3>1, <3>2, <3>3, <3>4, <3>5 DEF EncoderInv
  <2>5. Encoding(t, size, loop[Start(t)])
    BY <2>1, <2>3, <2>4, LoopEncodes
  <2> QED BY <2>1, <2>5
<1> QED BY <1>1, <1>2

\* Padded to eights.
LEMMA Eights ==
    ASSUME NEW n \in Nat, NEW k \in Nat
    PROVE  LET length == 8 * ((8 * n + 39) \div 40)
           IN  /\ length \in Nat
               /\ (-k) % 8 \in Nat
               /\ 5 * k < 8 * n + 5 => k <= length
               /\ Enough(n, k) => k + ((-k) % 8) = length /\ (8 * n + 4) \div 5 = k
<1> DEFINE q == (8 * n + 39) \div 40
           p == (-k) % 8
           u == (-k) \div 8
<1>1. q \in Nat /\ 40 * q <= 8 * n + 39 /\ 8 * n + 39 < 40 * q + 40
  OBVIOUS
<1>2. p \in 0..7 /\ u \in Int /\ -k = 8 * u + p
  OBVIOUS
<1>3. 5 * k < 8 * n + 5 => k <= 8 * q
  <2> HIDE DEF q
  <2> QED BY <1>1
<1>4. Enough(n, k) => k + p = 8 * q
  <2> HIDE DEF q, p, u
  <2> SUFFICES ASSUME Enough(n, k) PROVE k + p = 8 * q
    OBVIOUS
  <2>1. k <= 8 * q /\ 8 * q <= k + 7
    BY <1>1, <1>3 DEF Enough
  <2> QED BY <1>1, <1>2, <2>1
<1>5. Enough(n, k) => (8 * n + 4) \div 5 = k
  BY DEF Enough
<1> QED BY <1>1, <1>2, <1>3, <1>4, <1>5

\* A text of pads.
LEMMA Pads ==
    ASSUME NEW m \in Nat
    PROVE  LET pads == [i \in 1..m |-> PAD]
           IN  pads \in Text /\ Len(pads) = m /\ \A i \in 1..m : pads[i] = PAD
BY DEF PAD, Text, Code

\* The text with its pads, as far as there is room.
LEMMA Padded ==
    ASSUME NEW r \in Text, NEW size \in Nat, Len(r) <= size
    PROVE  LET k    == Len(r)
               text == base32_pad(r, size)
           IN  /\ text \in Text
               /\ Len(text) = IF (-k) % 8 <= size - k THEN k + ((-k) % 8) ELSE size
               /\ \A i \in 1..k : text[i] = r[i]
               /\ \A i \in 1..Len(text) : i > k => text[i] = PAD
<1> DEFINE k    == Len(r)
           p    == (-k) % 8
           m    == Min({p, size - k})
           pads == [i \in 1..m |-> PAD]
           text == r \o pads
<1>1. k \in Nat /\ k <= size
  BY DEF Text
<1>2. base32_pad(r, size) = text
  BY DEF base32_pad
<1> HIDE DEF k
<1>3. p \in Nat /\ p \in Int /\ size - k \in Nat /\ size - k \in Int
  BY <1>1
<1> HIDE DEF p
<1>4. m \in Nat /\ k + m = IF p <= size - k THEN k + p ELSE size
  <2>1. m = IF p <= size - k THEN p ELSE size - k
    BY <1>3, MinOfTwo
  <2> HIDE DEF m
  <2> QED BY <1>1, <1>3, <2>1
<1> HIDE DEF m
<1>5. pads \in Text /\ Len(pads) = m /\ \A i \in 1..m : pads[i] = PAD
  BY <1>4, Pads
<1> HIDE DEF pads
<1>6. /\ text \in Text /\ Len(text) = Len(r) + Len(pads)
      /\ \A i \in 1..Len(r) : text[i] = r[i]
      /\ \A i \in 1..Len(pads) : text[Len(r) + i] = pads[i]
  BY <1>5, Joined
<1>7. Len(text) = k + m
  BY <1>5, <1>6 DEF k
<1>8. ASSUME NEW i \in 1..Len(text), i > k PROVE text[i] = PAD
  <2>1. i - k \in 1..m /\ k + (i - k) = i
    BY <1>1, <1>4, <1>7, <1>8
  <2>2. text[k + (i - k)] = pads[i - k]
    BY <1>5, <1>6, <2>1 DEF k
  <2> QED BY <1>5, <2>1, <2>2
<1> QED BY <1>2, <1>4, <1>6, <1>7, <1>8 DEF k, p

\* base32_encode: whatever the bytes and the room, a base32 reader gets back the
\* bits of the data, or there is an error.
THEOREM Base32IsRead == data \in Text => Base32Decodes
<1> SUFFICES ASSUME data \in Text, NEW size \in TextSizes
             PROVE  LET encoded    == base32_encode(data, size)
                        bits       == 8 * Len(data)
                        characters == (bits + 4) \div 5
                        length     == 8 * ((bits + 39) \div 40)
                    IN  /\ encoded.ok = (length < size)
                        /\ encoded.ok =>
                              /\ Len(encoded.text) = length
                              /\ \A i \in 1..length : encoded.text[i] = PAD <=> i > characters
                              /\ \A i \in 0..(5 * characters - 1) :
                                    Bit(encoded.text, 5, i) =
                                        IF i < bits THEN Bit(data, 8, i) ELSE 0
  BY DEF Base32Decodes
<1> DEFINE n      == Len(data)
           r      == base32_characters(data, size)
           k      == Len(r)
           p      == (-k) % 8
           text   == base32_pad(r, size)
           length == 8 * ((8 * n + 39) \div 40)
           chars  == (8 * n + 4) \div 5
           encoded == base32_encode(data, size)
           Reads(ok, t) ==
               /\ ok = (length < size)
               /\ ok => /\ Len(t) = length
                        /\ \A i \in 1..length : t[i] = PAD <=> i > chars
                        /\ \A i \in 0..(5 * chars - 1) :
                              Bit(t, 5, i) = IF i < 8 * n THEN Bit(data, 8, i) ELSE 0
<1>1. size \in Nat /\ n \in Nat
  BY TextSizesAssumption DEF Text
<1>2. Encoding(data, size, r)
  BY <1>1, CharactersEncode
<1> HIDE DEF r
<1>3. r \in Text /\ k \in Nat /\ k <= size /\ 5 * k < 8 * n + 5
      /\ (k = size \/ 8 * n <= 5 * k) /\ GivesBits(data, r)
  BY <1>2 DEF Encoding, Text
<1> HIDE DEF n
<1>4. /\ text \in Text
      /\ Len(text) = IF p <= size - k THEN k + p ELSE size
      /\ \A i \in 1..k : text[i] = r[i]
      /\ \A i \in 1..Len(text) : i > k => text[i] = PAD
  BY <1>1, <1>3, Padded
<1> HIDE DEF k
<1>5. /\ length \in Nat /\ p \in Nat /\ k <= length
      /\ Enough(n, k) => k + p = length /\ chars = k
  BY <1>1, <1>3, Eights
<1> HIDE DEF p, text, length, chars, encoded
<1>6. Len(text) < size <=> length < size
  <2>1. CASE k = size
    BY <1>1, <1>3, <1>4, <1>5, <2>1
  <2>2. CASE k # size
    <3>1. k + p = length
      BY <1>3, <1>5, <2>2 DEF Enough
    <3> QED BY <1>1, <1>3, <1>4, <1>5, <3>1
  <2> QED BY <2>1, <2>2
<1>7. ASSUME ~(length < size) PROVE Reads(encoded.ok, encoded.text)
  <2>1. encoded = Failure
    BY <1>6, <1>7 DEF base32_encode, encoded, text, r
  <2>2. encoded.ok = FALSE /\ (length < size) = FALSE
    BY <1>7, <2>1 DEF Failure
  <2> QED BY <2>2
<1>8. ASSUME length < size PROVE Reads(encoded.ok, encoded.text)
  <2>1. encoded.ok = TRUE /\ encoded.text = text /\ (length < size) = TRUE
    <3>1. encoded = Written(text)
      BY <1>6, <1>8 DEF base32_encode, encoded, text, r
    <3> QED BY <1>8, <3>1 DEF Written
  <2>2. k + p = length /\ chars = k /\ Len(text) = length
    <3>1. k # size
      BY <1>1, <1>3, <1>5, <1>8
    <3>2. k + p = length /\ chars = k
      BY <1>3, <1>5, <3>1 DEF Enough
    <3> QED BY <1>1, <1>3, <1>4, <1>5, <1>8, <3>2
  <2>3. ASSUME NEW i \in 1..length PROVE text[i] = PAD <=> i > chars
    <3>1. CASE i > k
      BY <1>4, <2>2, <3>1
    <3>2. CASE ~(i > k)
      <4>1. i \in 1..k /\ i - 1 \in 0..(k - 1) /\ (i - 1) + 1 = i
        BY <1>3, <1>5, <3>2
      <4>2. text[i] = r[i] /\ r[i] \in 0..31
        BY <1>3, <1>4, <4>1 DEF GivesBits, k
      <4>3. text[i] # PAD
        BY <4>2 DEF PAD
      <4> QED BY <2>2, <3>2, <4>3
    <3> QED BY <3>1, <3>2
  <2>4. ASSUME NEW i \in 0..(5 * chars - 1)
        PROVE  Bit(text, 5, i) = DataBit(data, i)
    <3> DEFINE q == i \div 5
               j == 4 - (i % 5)
    <3>1. q \in 0..(k - 1) /\ q + 1 \in 1..k /\ j \in 0..4 /\ 5 * q + 4 - j = i
      <4>1. i \in 0..(5 * k - 1)
        BY <2>2
      <4> QED BY <1>3, <4>1
    <3>2. 5 - 1 - (i % 5) = j
      OBVIOUS
    <3>3. Bit(text, 5, i) = BitAt(text[q + 1], j)
      BY <3>2 DEF Bit, BitAt
    <3> HIDE DEF q, j
    <3>4. text[q + 1] = r[q + 1]
      BY <1>4, <3>1
    <3>5. BitAt(r[q + 1], j) = DataBit(data, 5 * q + 4 - j)
      BY <1>3, <3>1 DEF GivesBits, k
    <3> QED BY <3>1, <3>3, <3>4, <3>5
  <2>5. \A i \in 0..(5 * chars - 1) :
            Bit(text, 5, i) = IF i < 8 * n THEN Bit(data, 8, i) ELSE 0
    BY <2>4 DEF DataBit, n
  <2> QED BY <2>1, <2>2, <2>3, <2>5
<1>9. Reads(encoded.ok, encoded.text)
  BY <1>7, <1>8
<1> QED BY <1>9 DEF encoded, length, chars, n
=============================================================================
