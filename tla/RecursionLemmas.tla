--------------------------- MODULE RecursionLemmas ---------------------------
(* Induction over naturals, and functions defined by recursion.

   A recursive function is a CHOOSE: what its body says of it is a theorem only
   once some function is known to satisfy the body.  The lemmas are stated with
   sets and functions, since a lemma about an operator cannot be instantiated
   here; a set of naturals without a least element is what they all exclude. *)
EXTENDS Integers, FiniteSetsExt, WellFoundedInduction, TLAPS

\* A set of naturals has a least one.
LEMMA LeastNat ==
    ASSUME NEW T, T \subseteq Nat, T # {}
    PROVE  \E x \in T : \A y \in T : x <= y
<1> DEFINE R == {ss \in Nat \X Nat : ss[1] < ss[2]}
<1>1. IsWellFoundedOn(R, Nat)
  BY NatLessThanWellFounded DEF OpToRel
<1>2. \E x \in T : \A y \in T : ~ (<<y, x>> \in R)
  <2> HIDE DEF R
  <2> QED BY <1>1, WFMin
<1>3. ASSUME NEW x \in T, NEW y \in T, ~ (<<y, x>> \in R) PROVE x <= y
  BY <1>3
<1> QED BY <1>2, <1>3

\* Induction, over a set.
LEMMA Induction ==
    ASSUME NEW n \in Nat, NEW S, 0 \in S, \A k \in 0..n : k \in S /\ k < n => k + 1 \in S
    PROVE  0..n \subseteq S
<1> DEFINE T == (0..n) \ S
<1> SUFFICES ASSUME T # {} PROVE FALSE
  OBVIOUS
<1>1. PICK least \in T : \A k \in T : least <= k
  <2>1. T \subseteq Nat
    OBVIOUS
  <2> HIDE DEF T
  <2> QED BY <2>1, LeastNat
<1>2. least # 0 /\ least - 1 \in 0..n /\ least - 1 < n
  BY <1>1
<1>3. least - 1 \in S
  BY <1>1, <1>2
<1>4. (least - 1) + 1 \in S
  BY <1>2, <1>3
<1> QED BY <1>1, <1>4

\* Induction over a set of naturals.
LEMMA NatsIn ==
    ASSUME NEW S, 0 \in S, \A k \in Nat : k \in S => k + 1 \in S
    PROVE  Nat \subseteq S
<1> SUFFICES ASSUME NEW n \in Nat PROVE n \in S
  OBVIOUS
<1>1. 0..n \subseteq S
  BY Induction
<1> QED BY <1>1

\* Induction from all the smaller ones.
LEMMA SmallerIn ==
    ASSUME NEW S, \A n \in Nat : (\A k \in Nat : k < n => k \in S) => n \in S
    PROVE  Nat \subseteq S
<1> DEFINE T == Nat \ S
<1> SUFFICES ASSUME T # {} PROVE FALSE
  OBVIOUS
<1>1. PICK least \in T : \A k \in T : least <= k
  <2>1. T \subseteq Nat
    OBVIOUS
  <2> HIDE DEF T
  <2> QED BY <2>1, LeastNat
<1> QED BY <1>1

\* The smaller of two.
LEMMA MinOfTwo ==
    ASSUME NEW a \in Int, NEW b \in Int
    PROVE  Min({a, b}) = IF a <= b THEN a ELSE b
<1>1. \E x \in {a, b} : \A y \in {a, b} : x <= y
  OBVIOUS
<1> QED BY <1>1 DEF Min

-----------------------------------------------------------------------------
(* Recursion that comes to an end *)

\* The value that the body of a recursive function gives for x: `first` where the
\* recursion ends, and else `step` of x and of the value for `next`.
Body(f, x, End, first, next, step) ==
    IF x \in End THEN first[x] ELSE step[<<x, f[next[x]]>>]

\* A recursion from X to Y on ever smaller arguments.
ComesToEnd(X, Y, End, first, next, step, size) ==
    /\ Y # {}
    /\ End \subseteq X
    /\ first \in [X -> Y]
    /\ next \in [X -> X]
    /\ step \in [X \X Y -> Y]
    /\ size \in [X -> Nat]
    /\ \A x \in X \ End : size[next[x]] < size[x]

\* Such a recursion defines a function.
LEMMA Recursion ==
    ASSUME NEW X, NEW Y, NEW End, NEW first, NEW next, NEW step, NEW size,
           ComesToEnd(X, Y, End, first, next, step, size)
    PROVE  \E f \in [X -> Y] : \A x \in X : f[x] = Body(f, x, End, first, next, step)
<1> USE DEF ComesToEnd
<1> DEFINE B(f, x) == Body(f, x, End, first, next, step)
           Up(f, n) == \A x \in X : size[x] < n => f[x] = B(f, x)
           Has(n)   == \E f \in [X -> Y] : Up(f, n)
           F(n)     == CHOOSE f : f \in [X -> Y] /\ Up(f, n)
           g        == [x \in X |-> F(size[x] + 1)[x]]
<1>1. ASSUME NEW f \in [X -> Y], NEW x \in X PROVE B(f, x) \in Y
  BY <1>1 DEF Body
<1>2. Has(0)
  <2>1. PICK y0 \in Y : TRUE
    OBVIOUS
  <2>2. [x \in X |-> y0] \in [X -> Y]
    OBVIOUS
  <2> QED BY <2>2
<1>3. ASSUME NEW n \in Nat, Has(n) PROVE Has(n + 1)
  <2>1. PICK f \in [X -> Y] : Up(f, n)
    BY <1>3
  <2> HIDE DEF B
  <2> DEFINE h == [x \in X |-> IF size[x] < n THEN f[x] ELSE B(f, x)]
  <2>2. h \in [X -> Y]
    BY <1>1
  <2>3. ASSUME NEW x \in X, size[x] < n + 1 PROVE h[x] = B(h, x)
    <3>1. h[x] = B(f, x)
      BY <2>1
    <3>2. CASE x \in End
      BY <3>1, <3>2 DEF B, Body
    <3>3. CASE x \notin End
      <4>1. next[x] \in X /\ size[next[x]] < n
        BY <2>3, <3>3
      <4>2. h[next[x]] = f[next[x]]
        BY <4>1
      <4> HIDE DEF h
      <4> QED BY <3>1, <4>2 DEF B, Body
    <3> QED BY <3>2, <3>3
  <2> HIDE DEF h
  <2> QED BY <2>2, <2>3
<1>4. \A n \in Nat : Has(n)
  <2> DEFINE S == {n \in Nat : Has(n)}
  <2> HIDE DEF Has
  <2>1. 0 \in S /\ \A n \in Nat : n \in S => n + 1 \in S
    BY <1>2, <1>3
  <2>2. Nat \subseteq S
    <3> HIDE DEF S
    <3> QED BY <2>1, NatsIn
  <2> QED BY <2>2
<1>5. \A n \in Nat : F(n) \in [X -> Y] /\ Up(F(n), n)
  <2> HIDE DEF Up
  <2> QED BY <1>4
<1> HIDE DEF F
<1>6. ASSUME NEW n \in Nat, NEW m \in Nat, m <= n, NEW x \in X, size[x] < m
      PROVE  F(m)[x] = F(n)[x]
  <2> DEFINE S == {k \in 0..m : \A z \in X : size[z] < k => F(m)[z] = F(n)[z]}
  <2>1. 0 \in S
    OBVIOUS
  <2>2. ASSUME NEW k \in 0..m, k \in S, k < m PROVE k + 1 \in S
    <3> SUFFICES ASSUME NEW z \in X, size[z] < k + 1 PROVE F(m)[z] = F(n)[z]
      BY <2>2
    <3>1. F(m)[z] = B(F(m), z) /\ F(n)[z] = B(F(n), z)
      BY <1>5, <1>6, <2>2
    <3>2. CASE z \in End
      BY <3>1, <3>2 DEF Body
    <3>3. CASE z \notin End
      <4>1. next[z] \in X /\ size[next[z]] < k
        BY <3>3
      <4>2. F(m)[next[z]] = F(n)[next[z]]
        BY <2>2, <4>1
      <4> QED BY <3>1, <4>2 DEF Body
    <3> QED BY <3>2, <3>3
  <2> HIDE DEF S
  <2>3. \A k \in 0..m : k \in S /\ k < m => k + 1 \in S
    BY <2>2
  <2>4. 0..m \subseteq S
    BY <2>1, <2>3, Induction
  <2>5. m \in S
    BY <2>4
  <2> QED BY <1>6, <2>5 DEF S
<1>7. g \in [X -> Y]
  BY <1>5
<1>8. ASSUME NEW x \in X PROVE g[x] = B(g, x)
  <2> DEFINE n == size[x] + 1
  <2>1. n \in Nat /\ size[x] < n
    OBVIOUS
  <2>2. g[x] = F(n)[x]
    OBVIOUS
  <2> HIDE DEF n
  <2>3. g[x] = B(F(n), x)
    BY <1>5, <2>1, <2>2
  <2>4. CASE x \in End
    BY <2>3, <2>4 DEF Body
  <2>5. CASE x \notin End
    <3>1. next[x] \in X /\ size[next[x]] + 1 <= n /\ size[next[x]] + 1 \in Nat
      BY <2>1, <2>5 DEF n
    <3>2. g[next[x]] = F(size[next[x]] + 1)[next[x]]
      BY <3>1
    <3>3. g[next[x]] = F(n)[next[x]]
      BY <1>6, <2>1, <3>1, <3>2
    <3> HIDE DEF g
    <3> QED BY <2>3, <3>3 DEF Body
  <2> QED BY <2>4, <2>5
<1> HIDE DEF g
<1> QED BY <1>7, <1>8

-----------------------------------------------------------------------------
(* Folds over a sequence, whose recursion takes away the last place *)

\* A set of places, from 0 on, has a last one.
LEMMA LastOf ==
    ASSUME NEW n \in Nat, NEW s \in SUBSET (0..n), s # {}
    PROVE  Max(s) \in s /\ \A y \in s : y <= Max(s)
<1> DEFINE T == {k \in Nat : n - k \in s}
<1>1. T \subseteq Nat /\ T # {}
  <2>1. PICK x \in s : TRUE
    OBVIOUS
  <2>2. n - x \in T
    <3>1. n - x \in Nat /\ n - (n - x) = x
      OBVIOUS
    <3> QED BY <3>1
  <2> QED BY <2>2
<1> HIDE DEF T
<1>2. PICK t \in T : \A y \in T : t <= y
  BY <1>1, LeastNat
<1>3. t \in Nat /\ n - t \in s
  BY DEF T
<1>4. ASSUME NEW y \in s PROVE n - t >= y
  <2>1. n - y \in T
    <3>1. n - y \in Nat /\ n - (n - y) = y
      OBVIOUS
    <3> QED BY <3>1 DEF T
  <2>2. t <= n - y
    BY <1>2, <2>1
  <2> QED BY <1>3, <2>2
<1> QED BY <1>3, <1>4 DEF Max

\* A set of places of a sequence has a last one.
LEMMA LastPlace ==
    ASSUME NEW n \in Nat, NEW s \in SUBSET (1..n), s # {}
    PROVE  Max(s) \in s /\ \A y \in s : y <= Max(s)
<1>1. s \in SUBSET (0..n)
  OBVIOUS
<1> QED BY <1>1, LastOf

\* The first places of a sequence, one after another.
LEMMA NextPrefix ==
    ASSUME NEW n \in Nat, NEW k \in 0..n, k < n
    PROVE  /\ 1..(k + 1) \in SUBSET (1..n) /\ 1..(k + 1) # {}
           /\ Max(1..(k + 1)) = k + 1
           /\ (1..(k + 1)) \ {k + 1} = 1..k
<1>1. k + 1 \in 1..(k + 1) /\ k + 1 \in 0..n
  OBVIOUS
<1>2. \A j \in 1..(k + 1) : j \in 1..n
  OBVIOUS
<1>3. 1..(k + 1) \in SUBSET (1..n) /\ 1..(k + 1) # {}
  BY <1>1, <1>2
<1>4. Max(1..(k + 1)) \in 1..(k + 1) /\ k + 1 <= Max(1..(k + 1))
  BY <1>1, <1>3, LastPlace
<1>5. Max(1..(k + 1)) = k + 1
  BY <1>4
<1> QED BY <1>3, <1>5

\* A fold has a value for each set of places.
Foldable(n, Y, base, step) ==
    n \in Nat /\ base \in Y /\ step \in [Y \X (1..n) -> Y]

IsFold(g, n, Y, base, step) ==
    /\ g \in [SUBSET (1..n) -> Y]
    /\ \A s \in SUBSET (1..n) :
          g[s] = IF s = {} THEN base ELSE step[<<g[s \ {Max(s)}], Max(s)>>]

\* A fold has the values that its recursion says.
LEMMA Folding ==
    ASSUME NEW n, NEW Y, NEW base, NEW step, Foldable(n, Y, base, step)
    PROVE  \E g : IsFold(g, n, Y, base, step)
<1> USE DEF Foldable
<1> DEFINE X     == SUBSET (1..n)
           End   == {{}}
           first == [s \in X |-> base]
           next  == [s \in X |-> s \ {Max(s)}]
           turn  == [p \in X \X Y |-> IF p[1] = {} THEN base ELSE step[<<p[2], Max(p[1])>>]]
           size  == [s \in X |-> IF s = {} THEN 0 ELSE Max(s)]
<1>1. ASSUME NEW s \in X, s # {}
      PROVE  Max(s) \in s /\ Max(s) \in 1..n /\ \A y \in s : y <= Max(s)
  BY <1>1, LastPlace
<1>2. End \in SUBSET X /\ first \in [X -> Y] /\ next \in [X -> X]
  OBVIOUS
<1>3. turn \in [X \X Y -> Y]
  <2> SUFFICES ASSUME NEW s \in X, NEW y \in Y, s # {} PROVE step[<<y, Max(s)>>] \in Y
    OBVIOUS
  <2> QED BY <1>1
<1>4. size \in [X -> Nat]
  BY <1>1
<1>5. ASSUME NEW s \in X \ End PROVE size[next[s]] < size[s]
  <2>1. s # {} /\ size[s] = Max(s) /\ next[s] = s \ {Max(s)} /\ next[s] \in X
    OBVIOUS
  <2>2. CASE next[s] = {}
    BY <1>1, <2>1, <2>2
  <2>3. CASE next[s] # {}
    <3>1. Max(next[s]) \in next[s] /\ size[next[s]] = Max(next[s])
      BY <1>1, <2>1, <2>3
    <3>2. Max(next[s]) \in s /\ Max(next[s]) # Max(s)
      BY <2>1, <3>1
    <3>3. Max(next[s]) <= Max(s) /\ Max(next[s]) \in Nat /\ Max(s) \in Nat
      BY <1>1, <2>1, <3>2
    <3> HIDE DEF next, size
    <3> QED BY <2>1, <3>1, <3>2, <3>3
  <2> QED BY <2>2, <2>3
<1> HIDE DEF End, first, next, turn, size
<1>6. PICK g \in [X -> Y] : \A s \in X : g[s] = Body(g, s, End, first, next, turn)
  <2>1. \A s \in X \ End : size[next[s]] < size[s]
    BY <1>5
  <2> HIDE DEF X
  <2>2. ComesToEnd(X, Y, End, first, next, turn, size)
    BY <1>2, <1>3, <1>4, <2>1 DEF ComesToEnd
  <2> QED BY <2>2, Recursion
<1>7. ASSUME NEW s \in X
      PROVE  g[s] = IF s = {} THEN base ELSE step[<<g[s \ {Max(s)}], Max(s)>>]
  <2>1. CASE s = {}
    BY <1>6, <2>1 DEF Body, End, first
  <2>2. CASE s # {}
    <3>1. g[s] = turn[<<s, g[next[s]]>>] /\ next[s] = s \ {Max(s)} /\ next[s] \in X
      BY <1>6, <2>2 DEF Body, End, next
    <3>2. g[next[s]] \in Y
      BY <3>1
    <3> QED BY <2>2, <3>1, <3>2 DEF turn
  <2> QED BY <2>1, <2>2
<1> QED BY <1>7 DEF IsFold
=============================================================================
