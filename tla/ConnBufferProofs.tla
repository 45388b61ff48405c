-------------------------- MODULE ConnBufferProofs --------------------------
(***************************************************************************)
(* What holds of a connection's input buffer for chunks of any length, any *)
(* initial size and any headroom in front.                                 *)
(***************************************************************************)
EXTENDS ConnBuffer, SequenceTheorems, WellFoundedInduction, TLAPS

\* A buffer: the vector and its two indices.
Buffers == [buffer : Seq(Byte), r : Nat, w : Nat]

\* The reader is not behind the writer, and the writer not behind the end.
Good(b) == b \in Buffers /\ b.r <= b.w /\ b.w <= Len(b.buffer)

\* The bytes that can be read.
Content(b) == SubSeq(b.buffer, b.r + 1, b.w)

-----------------------------------------------------------------------------
(* Sequences.                                                              *)

\* A function on 1..n is a sequence of length n.
LEMMA FunctionIsSeq ==
    ASSUME NEW S, NEW n \in Nat, NEW f \in [1..n -> S]
    PROVE  f \in Seq(S) /\ Len(f) = n
OBVIOUS

\* The elements a + 1 to z of a sequence.
LEMMA Part ==
    ASSUME NEW S, NEW s \in Seq(S), NEW a \in Nat, NEW z \in Nat, a <= z, z <= Len(s)
    PROVE  /\ SubSeq(s, a + 1, z) \in Seq(S) /\ Len(SubSeq(s, a + 1, z)) = z - a
           /\ \A k \in 1..(z - a) : SubSeq(s, a + 1, z)[k] = s[a + k]
OBVIOUS

\* Sequences that agree in length and elements are equal.
LEMMA SameSeq ==
    ASSUME NEW S, NEW s \in Seq(S), NEW t \in Seq(S), Len(s) = Len(t),
           \A k \in 1..Len(s) : s[k] = t[k]
    PROVE  s = t
OBVIOUS

\* What is joined is behind what it is joined to.
LEMMA Joined ==
    ASSUME NEW S, NEW s \in Seq(S), NEW t \in Seq(S)
    PROVE  /\ s \o t \in Seq(S) /\ Len(s \o t) = Len(s) + Len(t)
           /\ \A k \in 1..Len(s) : (s \o t)[k] = s[k]
           /\ \A k \in 1..Len(t) : (s \o t)[Len(s) + k] = t[k]
OBVIOUS

\* Places of n elements that move from behind r to behind c.
LEMMA MovedPlaces ==
    ASSUME NEW r \in Nat, NEW c \in Nat, NEW n \in Nat, NEW len \in Nat,
           r + n <= len, c + n <= len
    PROVE  /\ \A k \in 1..n : r + k \in 1..len /\ c + k \in 1..len
           /\ \A k \in (c + 1)..(c + n) : r + k - c \in 1..len
OBVIOUS

\* Places behind n, counted from it.
LEMMA Offsets ==
    ASSUME NEW n \in Nat, NEW m \in Nat
    PROVE  \A k \in (n + 1)..(n + m) : k - n \in 1..m
OBVIOUS

\* A place in the second of two joined sequences.
LEMMA BehindFirst ==
    ASSUME NEW n \in Nat, NEW m \in Nat, NEW k \in 1..(n + m), k \notin 1..n
    PROVE  k \in Nat /\ n < k /\ k <= n + m
OBVIOUS

-----------------------------------------------------------------------------
(* Induction and recursive functions.  The library states induction for a  *)
(* predicate parameter; here it is stated for a set.                       *)

\* A set of numbers that is not empty has a least one.
LEMMA LeastNumber ==
    ASSUME NEW T, T \subseteq Nat, T # {}
    PROVE  \E x \in T : \A y \in T : x <= y
<1> DEFINE R == OpToRel(<, Nat)
<1>1. IsWellFoundedOn(R, Nat)
  BY NatLessThanWellFounded, Zenon
<1>2. \A x, y \in Nat : y < x => <<y, x>> \in R
  BY DEF OpToRel
<1> HIDE DEF R
<1>3. PICK x \in T : \A y \in T : ~ (<<y, x>> \in R)
  BY <1>1, WFMin, Zenon
<1>4. \A y \in T : x \in Nat /\ y \in Nat /\ ~(y < x)
  BY <1>2, <1>3, Zenon
<1>5. \A y \in T : x <= y
  BY <1>4
<1> QED
  BY <1>5

\* Induction up to a number, for sets.
LEMMA Induction ==
    ASSUME NEW N \in Nat, NEW T, T \subseteq 0..N, 0 \in T,
           \A k \in 0..(N - 1) : k \in T => k + 1 \in T
    PROVE  T = 0..N
<1> DEFINE U == (0..N) \ T
<1> SUFFICES ASSUME U # {} PROVE FALSE
  OBVIOUS
<1>1. U \subseteq Nat
  OBVIOUS
<1>2. PICK x \in U : \A y \in U : x <= y
  <2> HIDE DEF U
  <2> QED
    BY <1>1, LeastNumber, Zenon
<1>3. x \in 1..N /\ x - 1 \in 0..(N - 1) /\ (x - 1) + 1 = x
  BY <1>2
<1>4. x - 1 \in T
  BY <1>2, <1>3
<1> QED
  BY <1>2, <1>3, <1>4

\* A function on 0..N whose first value is a and in which step computes every
\* other value from the one before it.
Closed(step, N, V) == \A k \in 1..N, v \in V : step[k][v] \in V
IsRecursive(g, N, V, a, step) ==
    g \in [0..N -> V] /\ g[0] = a /\ \A k \in 1..N : g[k] = step[k][g[k - 1]]

\* There is one.
LEMMA Recursion ==
    ASSUME NEW N \in Nat, NEW V, NEW a \in V, NEW step, Closed(step, N, V)
    PROVE  \E g : IsRecursive(g, N, V, a, step)
<1> DEFINE T == {n \in 0..N : \E g : IsRecursive(g, n, V, a, step)}
<1>1. 0 \in T
  <2> DEFINE z == [k \in 0..0 |-> a]
  <2>1. IsRecursive(z, 0, V, a, step)
    BY DEF IsRecursive
  <2>2. 0 \in 0..N
    OBVIOUS
  <2> HIDE DEF z
  <2> QED
    BY <2>1, <2>2, Zenon
<1>2. ASSUME NEW n \in 0..(N - 1), n \in T PROVE n + 1 \in T
  <2>1. PICK g : IsRecursive(g, n, V, a, step)
    BY <1>2
  <2> DEFINE h == [k \in 0..(n + 1) |-> IF k = n + 1 THEN step[n + 1][g[n]] ELSE g[k]]
  <2>2. n \in 0..n /\ n + 1 \in 1..N /\ n + 1 \in 0..N /\ (n + 1) - 1 = n /\ g[n] \in V
    BY <2>1 DEF IsRecursive
  <2>3. step[n + 1][g[n]] \in V
    BY <2>2 DEF Closed
  <2>4. \A k \in 0..n : h[k] = g[k]
    OBVIOUS
  <2>5. h \in [0..(n + 1) -> V]
    <3>1. \A k \in 0..(n + 1) : k = n + 1 \/ k \in 0..n
      OBVIOUS
    <3> QED
      BY <2>1, <2>3, <3>1 DEF IsRecursive
  <2>6. h[n + 1] = step[n + 1][h[n]]
    BY <2>2, <2>4
  <2> HIDE DEF h
  <2>7. h[0] = a
    BY <2>1, <2>4 DEF IsRecursive
  <2>8. \A k \in 1..n : h[k] = step[k][h[k - 1]]
    <3>1. \A k \in 1..n : k \in 0..n /\ k - 1 \in 0..n
      OBVIOUS
    <3> QED
      BY <2>1, <2>4, <3>1 DEF IsRecursive
  <2>9. \A k \in 1..(n + 1) : h[k] = step[k][h[k - 1]]
    <3>1. \A k \in 1..(n + 1) : k = n + 1 \/ k \in 1..n
      OBVIOUS
    <3> QED
      BY <2>2, <2>6, <2>8, <3>1
  <2>10. IsRecursive(h, n + 1, V, a, step)
    BY <2>5, <2>7, <2>9 DEF IsRecursive
  <2> QED
    BY <2>2, <2>10, Zenon
<1>3. T = 0..N
  <2>1. T \subseteq 0..N
    OBVIOUS
  <2> HIDE DEF T
  <2> QED
    BY <1>1, <1>2, <2>1, Induction
<1>4. N \in T
  BY <1>3
<1> QED
  BY <1>4

-----------------------------------------------------------------------------
(* Integers and their bytes.                                               *)

\* A product of naturals is one.
LEMMA ProductType == \A a, b \in Nat : a * b \in Nat
OBVIOUS

\* A product of integers is one.
LEMMA IntProductType == \A a, b \in Int : a * b \in Int
OBVIOUS

\* A larger factor makes a product larger by at least the other factor.
LEMMA ProductGrows ==
    ASSUME NEW p \in Nat \ {0}, NEW a \in Int, NEW b \in Int, a < b
    PROVE  p * a + p <= p * b
OBVIOUS

\* Quotient and remainder are the only numbers that can be them.
LEMMA Quotient ==
    ASSUME NEW p \in Nat \ {0}, NEW q \in Int, NEW r \in Nat, r < p, NEW a \in Int, a = r + p * q
    PROVE  a \div p = q /\ a % p = r
<1> DEFINE d == a \div p
           m == a % p
<1>1. d \in Int /\ m \in Nat /\ m < p /\ a = m + p * d
  OBVIOUS
<1> HIDE DEF d, m
<1>2. ~(d < q)
  <2> SUFFICES ASSUME d < q PROVE FALSE
    OBVIOUS
  <2>1. p * d + p <= p * q /\ p * d \in Int /\ p * q \in Int
    BY <1>1, ProductGrows, IntProductType
  <2> QED
    BY <1>1, <2>1
<1>3. ~(q < d)
  <2> SUFFICES ASSUME q < d PROVE FALSE
    OBVIOUS
  <2>1. p * q + p <= p * d /\ p * d \in Int /\ p * q \in Int
    BY <1>1, ProductGrows, IntProductType
  <2> QED
    BY <1>1, <2>1
<1>4. d = q
  BY <1>1, <1>2, <1>3
<1>5. m = r
  <2>1. p * q \in Int
    BY IntProductType
  <2> QED
    BY <1>1, <1>4, <2>1
<1> QED
  BY <1>4, <1>5 DEF d, m

\* Weight is what its definition says.
LEMMA WeightDef ==
    /\ Weight[0] = 1 /\ \A k \in 1..8 : Weight[k] = ByteMod * Weight[k - 1]
    /\ \A k \in 0..8 : Weight[k] \in Nat \ {0}
<1> DEFINE P == Nat \ {0}
           step == [k \in 1..8 |-> [v \in P |-> ByteMod * v]]
<1>0. ByteMod \in Nat /\ ByteMod > 1
  BY BufferAssumption
<1>1. \A v \in P : ByteMod * v \in P
  BY <1>0
<1>2. Closed(step, 8, P) /\ 1 \in P /\ 8 \in Nat
  BY <1>1 DEF Closed
<1>3. \A k \in 1..8, v \in P : step[k][v] = ByteMod * v
  OBVIOUS
<1> HIDE DEF step, P
<1>4. PICK g : IsRecursive(g, 8, P, 1, step)
  BY <1>2, Recursion, Zenon
<1>5. \A k \in 1..8 : k - 1 \in 0..8
  OBVIOUS
<1>6. g = [k \in 0..8 |-> IF k = 0 THEN 1 ELSE ByteMod * g[k - 1]]
  <2>1. \A k \in 0..8 : g[k] = IF k = 0 THEN 1 ELSE ByteMod * g[k - 1]
    <3>1. \A k \in 0..8 : k # 0 => k \in 1..8
      OBVIOUS
    <3> QED
      BY <1>3, <1>4, <1>5, <3>1 DEF IsRecursive
  <2> QED
    BY <1>4, <2>1 DEF IsRecursive
<1>7. Weight = [k \in 0..8 |-> IF k = 0 THEN 1 ELSE ByteMod * Weight[k - 1]]
  BY <1>6, Zenon DEF Weight
<1>8. Weight[0] = 1 /\ \A k \in 1..8 : Weight[k] = ByteMod * Weight[k - 1]
  BY <1>7
<1> DEFINE T == {k \in 0..8 : Weight[k] \in P}
<1>9. T = 0..8
  <2>1. T \subseteq 0..8 /\ 0 \in T
    BY <1>2, <1>8
  <2>2. \A k \in 0..(8 - 1) : k + 1 \in 1..8 /\ k + 1 \in 0..8 /\ (k + 1) - 1 = k
    OBVIOUS
  <2>3. \A k \in 0..(8 - 1) : k \in T => k + 1 \in T
    BY <1>1, <1>8, <2>2
  <2> HIDE DEF T
  <2> QED
    BY <1>2, <2>1, <2>3, Induction
<1> QED
  BY <1>8, <1>9 DEF P

\* A byte counts less than ByteMod.
LEMMA ByteBelow ==
    ASSUME NEW s \in Seq(Byte)
    PROVE  \A k \in 1..Len(s) : s[k] \in Nat /\ s[k] < ByteMod
<1>1. \A k \in 1..Len(s) : s[k] \in Byte
  OBVIOUS
<1>2. \A x \in Byte : x \in Nat /\ x < ByteMod
  BY BufferAssumption DEF Byte
<1> QED
  BY <1>1, <1>2, Zenon

\* Unsigned is what its definition says.
LEMMA UnsignedDef ==
    ASSUME NEW s \in Seq(Byte), Len(s) <= 8
    PROVE  /\ Unsigned(s)[0] = 0
           /\ \A k \in 1..Len(s) : Unsigned(s)[k] = Unsigned(s)[k - 1] + s[k] * Weight[k - 1]
<1> DEFINE w == Len(s)
           step == [k \in 1..w |-> [v \in Nat |-> v + s[k] * Weight[k - 1]]]
<1>1. /\ w \in Nat /\ 0 \in Nat
      /\ \A k \in 1..w : s[k] \in Nat /\ k - 1 \in 0..w /\ Weight[k - 1] \in Nat
  <2>1. \A k \in 1..w : k - 1 \in 0..w /\ k - 1 \in 0..8
    OBVIOUS
  <2>2. \A k \in 1..w : s[k] \in Nat
    BY ByteBelow, Zenon
  <2>3. \A k \in 0..8 : Weight[k] \in Nat
    BY WeightDef
  <2>4. w \in Nat /\ 0 \in Nat
    OBVIOUS
  <2> QED
    BY <2>1, <2>2, <2>3, <2>4, Zenon
<1>2. \A k \in 1..w, v \in Nat : v + s[k] * Weight[k - 1] \in Nat
  <2>1. \A k \in 1..w : s[k] * Weight[k - 1] \in Nat
    BY <1>1, ProductType
  <2> QED
    BY <2>1
<1>3. \A k \in 1..w, v \in Nat : step[k][v] = v + s[k] * Weight[k - 1]
  OBVIOUS
<1> HIDE DEF step
<1>4. Closed(step, w, Nat)
  BY <1>2, <1>3 DEF Closed
<1>5. PICK g : IsRecursive(g, w, Nat, 0, step)
  BY <1>1, <1>4, Recursion, Zenon
<1>6. g = [k \in 0..w |-> IF k = 0 THEN 0 ELSE g[k - 1] + s[k] * Weight[k - 1]]
  <2>1. \A k \in 0..w : k # 0 => k \in 1..w
    OBVIOUS
  <2>2. \A k \in 0..w : g[k] = IF k = 0 THEN 0 ELSE g[k - 1] + s[k] * Weight[k - 1]
    BY <1>1, <1>3, <1>5, <2>1 DEF IsRecursive
  <2> QED
    BY <1>5, <2>2 DEF IsRecursive
<1>7. Unsigned(s) = [k \in 0..w |-> IF k = 0 THEN 0 ELSE Unsigned(s)[k - 1] + s[k] * Weight[k - 1]]
  BY <1>6, Zenon DEF Unsigned
<1> QED
  BY <1>7

\* What k bytes amount to is below the weight of the next one.
LEMMA UnsignedBelow ==
    ASSUME NEW s \in Seq(Byte), Len(s) <= 8
    PROVE  \A k \in 0..Len(s) : Unsigned(s)[k] \in Nat /\ Unsigned(s)[k] < Weight[k]
<1> DEFINE w == Len(s)
           sum == Unsigned(s)
           T == {k \in 0..w : sum[k] \in Nat /\ sum[k] < Weight[k]}
<1>1. w \in Nat /\ ByteMod \in Nat /\ sum[0] = 0 /\ Weight[0] = 1
  BY UnsignedDef, WeightDef, BufferAssumption
<1>2. \A k \in 0..(w - 1) : /\ k + 1 \in 1..w /\ k + 1 \in 0..w /\ k \in 0..w /\ k \in 0..8 /\ k + 1 \in 1..8
                            /\ (k + 1) - 1 = k
  OBVIOUS
<1>3. ASSUME NEW k \in 0..(w - 1), k \in T PROVE k + 1 \in T
  <2> DEFINE x == s[k + 1]
             v == Weight[k]
  <2>1. x \in Nat /\ x < ByteMod
    <3>1. k + 1 \in 1..w
      BY <1>2
    <3> QED
      BY <3>1, ByteBelow, Zenon
  <2>2. v \in Nat \ {0} /\ Weight[k + 1] = ByteMod * v /\ sum[k + 1] = sum[k] + x * v
    <3>1. k + 1 \in 1..w /\ k \in 0..8 /\ k + 1 \in 1..8 /\ (k + 1) - 1 = k
      BY <1>2
    <3>2. v \in Nat \ {0} /\ Weight[k + 1] = ByteMod * Weight[(k + 1) - 1]
      BY <3>1, WeightDef, Zenon
    <3>3. sum[k + 1] = sum[(k + 1) - 1] + s[k + 1] * Weight[(k + 1) - 1]
      BY <3>1, UnsignedDef, Zenon
    <3> QED
      BY <3>1, <3>2, <3>3, Zenon
  <2>3. sum[k] \in Nat /\ sum[k] < v
    BY <1>3
  <2> HIDE DEF x, v, sum
  <2>4. v * x + v <= v * ByteMod
    BY <1>1, <2>1, <2>2, ProductGrows
  <2>5. x * v = v * x /\ ByteMod * v = v * ByteMod /\ v * x \in Nat /\ v * ByteMod \in Nat
    BY <1>1, <2>1, <2>2, ProductType
  <2>6. sum[k + 1] \in Nat /\ sum[k + 1] < Weight[k + 1]
    BY <2>2, <2>3, <2>4, <2>5
  <2> QED
    BY <1>2, <2>6
<1>4. T = 0..w
  <2>1. T \subseteq 0..w /\ 0 \in T
    BY <1>1
  <2> HIDE DEF T, w
  <2> QED
    BY <1>1, <1>3, <2>1, Induction
<1> QED
  BY <1>4

\* Behind the first k bytes, the rest counts in multiples of their weight.
LEMMA Remainder ==
    ASSUME NEW s \in Seq(Byte), Len(s) <= 8
    PROVE  \A k \in 0..Len(s) : \E q \in Nat :
              Unsigned(s)[Len(s)] = Unsigned(s)[k] + Weight[k] * q
<1> DEFINE w == Len(s)
           sum == Unsigned(s)
           Rest(k) == \E q \in Nat : sum[w] = sum[k] + Weight[k] * q
           T == {j \in 0..w : Rest(w - j)}
<1>1. w \in Nat /\ ByteMod \in Nat
  BY BufferAssumption
<1>2. 0 \in T
  <2>1. w \in 0..w /\ w \in 0..8 /\ w - 0 = w /\ 0 \in 0..w /\ 0 \in Nat
    <3>1. w \in Nat /\ w <= 8
      BY <1>1
    <3> HIDE DEF w
    <3> QED
      BY <3>1
  <2>2. sum[w] \in Nat /\ Weight[w] \in Nat
    BY <2>1, UnsignedBelow, WeightDef
  <2> HIDE DEF sum, w
  <2>3. sum[w] = sum[w] + Weight[w] * 0
    BY <2>2
  <2>4. Rest(w)
    BY <2>1, <2>3
  <2> QED
    BY <2>1, <2>4
<1>3. ASSUME NEW j \in 0..(w - 1), j \in T PROVE j + 1 \in T
  <2> DEFINE k == w - j
             l == w - (j + 1)
  <2>1. /\ k \in 1..w /\ l \in 0..w /\ l \in 0..8 /\ k \in 1..8 /\ k - 1 = l /\ j + 1 \in 0..w
    OBVIOUS
  <2>2. PICK q \in Nat : sum[w] = sum[k] + Weight[k] * q
    BY <1>3
  <2> DEFINE x == s[k]
             v == Weight[l]
  <2>3. x \in Nat
    BY <2>1, ByteBelow, Zenon
  <2>4. v \in Nat /\ Weight[k] = ByteMod * v /\ sum[k] = sum[l] + x * v /\ sum[l] \in Nat
    <3>1. v \in Nat \ {0} /\ Weight[k] = ByteMod * Weight[k - 1]
      BY <2>1, WeightDef, Zenon
    <3>2. sum[k] = sum[k - 1] + s[k] * Weight[k - 1] /\ sum[l] \in Nat
      BY <2>1, UnsignedDef, UnsignedBelow, Zenon
    <3>3. v \in Nat
      BY <3>1
    <3> QED
      BY <2>1, <3>1, <3>2, <3>3, Zenon
  <2> HIDE DEF x, v, sum, k, l
  <2>5. x + ByteMod * q \in Nat
    <3>1. ByteMod * q \in Nat
      BY <1>1, ProductType
    <3> QED
      BY <2>3, <3>1
  <2>6. v * (x + ByteMod * q) = x * v + (ByteMod * v) * q
    BY <1>1, <2>3, <2>4
  <2>7. sum[w] = sum[l] + v * (x + ByteMod * q)
    <3>1. x * v \in Nat /\ (ByteMod * v) * q \in Nat
      BY <1>1, <2>3, <2>4, ProductType
    <3> QED
      BY <2>2, <2>4, <2>6, <3>1
  <2>8. Rest(l)
    BY <2>5, <2>7 DEF v
  <2> QED
    BY <2>1, <2>8 DEF l
<1>4. T = 0..w
  <2>1. T \subseteq 0..w
    OBVIOUS
  <2> HIDE DEF T, w
  <2> QED
    BY <1>1, <1>2, <1>3, <2>1, Induction
<1>5. \A k \in 0..w : w - k \in 0..w /\ w - (w - k) = k
  OBVIOUS
<1>6. \A k \in 0..w : Rest(w - (w - k))
  <2> HIDE DEF Rest, w
  <2> QED
    BY <1>4, <1>5
<1>7. \A k \in 0..w : Rest(k)
  <2> HIDE DEF Rest, w
  <2> QED
    BY <1>5, <1>6
<1> QED
  BY <1>7

\* Division gets every byte back from what all of them amount to.
LEMMA Digits ==
    ASSUME NEW s \in Seq(Byte), Len(s) <= 8
    PROVE  \A k \in 1..Len(s) : (Unsigned(s)[Len(s)] \div Weight[k - 1]) % ByteMod = s[k]
<1> DEFINE w == Len(s)
           sum == Unsigned(s)
<1> SUFFICES ASSUME NEW k \in 1..w PROVE (sum[w] \div Weight[k - 1]) % ByteMod = s[k]
  OBVIOUS
<1> DEFINE x == s[k]
           v == Weight[k - 1]
<1>1. k \in 1..8 /\ k \in 0..w /\ k - 1 \in 0..w /\ k - 1 \in 0..8 /\ w \in 0..w
  OBVIOUS
<1>2. x \in Nat /\ x < ByteMod /\ ByteMod \in Nat \ {0}
  <2>1. x \in Nat /\ x < ByteMod
    BY ByteBelow, Zenon
  <2> QED
    BY <2>1, BufferAssumption
<1>3. v \in Nat \ {0} /\ Weight[k] = ByteMod * v
  BY <1>1, WeightDef, Zenon
<1>4. sum[k] = sum[k - 1] + x * v
  BY UnsignedDef, Zenon
<1>5. sum[k - 1] \in Nat /\ sum[k - 1] < v /\ sum[w] \in Nat
  BY <1>1, UnsignedBelow, Zenon
<1>6. PICK q \in Nat : sum[w] = sum[k] + Weight[k] * q
  BY <1>1, Remainder, Zenon
<1> HIDE DEF sum, v, x, w
<1> DEFINE d == x + ByteMod * q
<1>7. d \in Int /\ ByteMod * q \in Nat
  BY <1>2, ProductType
<1>8. sum[w] = sum[k - 1] + v * d
  <2>1. v * d = x * v + (ByteMod * v) * q
    BY <1>2, <1>3
  <2>2. x * v \in Nat /\ (ByteMod * v) * q \in Nat
    BY <1>2, <1>3, ProductType
  <2> HIDE DEF d
  <2> QED
    BY <1>3, <1>4, <1>5, <1>6, <2>1, <2>2
<1>9. sum[w] \div v = d
  <2> DEFINE a == sum[w]
             r == sum[k - 1]
  <2>1. a \in Int /\ r \in Nat /\ r < v /\ a = r + v * d
    BY <1>5, <1>8
  <2> HIDE DEF a, r, d
  <2>2. a \div v = d
    BY <1>3, <1>7, <2>1, Quotient
  <2> QED
    BY <2>2 DEF a
<1>10. d % ByteMod = x
  <2> DEFINE e == d
  <2>1. e \in Int /\ e = x + ByteMod * q
    BY <1>7
  <2> HIDE DEF e
  <2> QED
    BY <1>2, <2>1, Quotient DEF e
<1> QED
  BY <1>9, <1>10 DEF v, x

\* Of the unsigned value of w bytes and the one that is lower by the range, one
\* is an intN_t, and it has the unsigned value as its remainder.
LEMMA TwosComplement ==
    ASSUME NEW w \in 0..8, NEW n \in Nat, n < Weight[w],
           NEW x, x = IF n \in Ints(w) THEN n ELSE n - Weight[w]
    PROVE  x \in Ints(w) /\ x \in Int /\ x % Weight[w] = n
<1> DEFINE m == Weight[w]
           top == (m - 1) \div 2
           low == m \div 2
<1>1. m \in Nat \ {0}
  BY WeightDef
<1>2. Ints(w) = (-low)..top
  BY DEF Ints
<1> HIDE DEF m
<1>3. top \in Nat /\ low \in Nat /\ top + low + 1 >= m
  BY <1>1
<1> HIDE DEF top, low
<1>4. CASE n \in Ints(w)
  <2>1. x = n /\ n = n + m * 0
    BY <1>1, <1>4
  <2>2. n % m = n
    BY <1>1, <2>1, Quotient DEF m
  <2> QED
    BY <1>4, <2>1, <2>2 DEF m
<1>5. CASE n \notin Ints(w)
  <2>1. x = n - m
    BY <1>5 DEF m
  <2>2. n > top
    BY <1>2, <1>3, <1>5
  <2>3. x \in Ints(w) /\ x \in Int
    BY <1>1, <1>2, <1>3, <2>1, <2>2 DEF m
  <2>4. x = n + m * (-1) /\ -1 \in Int
    BY <1>1, <2>1
  <2>5. x % m = n
    BY <1>1, <2>3, <2>4, Quotient DEF m
  <2> QED
    BY <2>3, <2>5 DEF m
<1> QED
  BY <1>4, <1>5

\* An intN_t is stored in w bytes.
LEMMA HostBytesType ==
    ASSUME NEW w \in 0..8, NEW x \in Int
    PROVE  HostBytes(x, w) \in [1..w -> Byte]
<1>1. \A a \in Int, b \in Nat \ {0} : a \div b \in Int /\ a % b \in Int /\ a % b \in 0..(b - 1)
  OBVIOUS
<1>2. \A k \in 1..w : k - 1 \in 0..8
  OBVIOUS
<1>3. \A k \in 0..8 : Weight[k] \in Nat \ {0}
  BY WeightDef
<1>4. ByteMod \in Nat \ {0}
  BY BufferAssumption
<1>5. x % Weight[w] \in Int
  BY <1>1, <1>3, Zenon
<1>6. \A k \in 1..w : ((x % Weight[w]) \div Weight[k - 1]) % ByteMod \in Byte
  <2> DEFINE y == x % Weight[w]
  <2> HIDE DEF y
  <2>1. \A k \in 1..w : y \div Weight[k - 1] \in Int
    BY <1>1, <1>2, <1>3, <1>5, Zenon DEF y
  <2>2. \A k \in 1..w : (y \div Weight[k - 1]) % ByteMod \in 0..(ByteMod - 1)
    BY <1>1, <1>4, <2>1, Zenon
  <2> QED
    BY <2>2 DEF y, Byte
<1> QED
  BY <1>6 DEF HostBytes

\* Turning bytes around twice leaves them.
LEMMA FlippedTwice ==
    ASSUME NEW S, NEW s \in Seq(S)
    PROVE  /\ Flipped(s) \in Seq(S) /\ Len(Flipped(s)) = Len(s)
           /\ Flipped(Flipped(s)) = s
<1> DEFINE w == Len(s)
           f == Flipped(s)
<1>1. w \in Nat /\ \A k \in 1..w : w + 1 - k \in 1..w /\ w + 1 - (w + 1 - k) = k
  OBVIOUS
<1>2. f = [k \in 1..w |-> s[w + 1 - k]]
  BY DEF Flipped
<1>3. f \in [1..w -> S]
  BY <1>1, <1>2
<1>4. f \in Seq(S) /\ Len(f) = w
  BY <1>1, <1>3
<1>5. Flipped(f) = [k \in 1..w |-> f[w + 1 - k]]
  BY <1>4 DEF Flipped
<1> HIDE DEF f
<1>6. \A k \in 1..w : f[w + 1 - k] = s[k]
  BY <1>1, <1>2
<1>7. s = [k \in 1..w |-> s[k]]
  OBVIOUS
<1>8. Flipped(f) = s
  BY <1>5, <1>6, <1>7
<1> QED
  BY <1>4, <1>8 DEF f

\* Bytes of a little-endian integer: what is read is an intN_t, and it is the
\* one that is stored as these bytes.
LEMMA HostRoundTrip ==
    ASSUME NEW s \in Seq(Byte), Len(s) <= 8
    PROVE  /\ HostInt(s) \in Ints(Len(s)) /\ HostInt(s) \in Int
           /\ HostBytes(HostInt(s), Len(s)) = s
<1> DEFINE w == Len(s)
           n == Unsigned(s)[w]
           x == HostInt(s)
<1>1. w \in 0..8 /\ w \in 0..w
  <2>1. w \in Nat /\ w <= 8
    OBVIOUS
  <2> HIDE DEF w
  <2> QED
    BY <2>1
<1>2. n \in Nat /\ n < Weight[w]
  BY <1>1, UnsignedBelow, Zenon
<1>3. x = IF n \in Ints(w) THEN n ELSE n - Weight[w]
  BY DEF HostInt
<1>4. \A k \in 1..w : (n \div Weight[k - 1]) % ByteMod = s[k]
  BY Digits, Zenon
<1>5. s = [k \in 1..w |-> s[k]]
  OBVIOUS
<1> HIDE DEF n, w, x
<1>6. x \in Ints(w) /\ x \in Int /\ x % Weight[w] = n
  BY <1>1, <1>2, <1>3, TwosComplement
<1>7. HostBytes(x, w) = [k \in 1..w |-> s[k]]
  BY <1>4, <1>6 DEF HostBytes
<1> QED
  BY <1>5, <1>6, <1>7 DEF w, x

\* Bytes in network order: an integer is read as the one they encode.
LEMMA NetworkRoundTrip ==
    ASSUME NEW s \in Seq(Byte), Len(s) <= 8
    PROVE  /\ HostInt(Flipped(s)) \in Ints(Len(s))
           /\ Encode(HostInt(Flipped(s)), Len(s)) = s
<1> DEFINE f == Flipped(s)
<1>1. f \in Seq(Byte) /\ Len(f) = Len(s) /\ Flipped(f) = s
  BY FlippedTwice
<1> HIDE DEF f
<1>2. HostInt(f) \in Ints(Len(f)) /\ HostBytes(HostInt(f), Len(f)) = f
  BY <1>1, HostRoundTrip
<1> QED
  BY <1>1, <1>2 DEF Encode, f

\* The bytes of an integer are a chunk.
LEMMA EncodeBytes ==
    ASSUME NEW w \in Widths, NEW x \in Ints(w)
    PROVE  Encode(x, w) \in Seq(Byte)
<1>1. w \in 0..8
  BY BufferAssumption
<1>2. x \in Int
  <2>1. Weight[w] \in Nat
    BY <1>1, WeightDef
  <2> QED
    BY <2>1 DEF Ints
<1>3. HostBytes(x, w) \in [1..w -> Byte]
  BY <1>1, <1>2, HostBytesType
<1>4. HostBytes(x, w) \in Seq(Byte)
  BY <1>1, <1>3
<1> QED
  BY <1>4, FlippedTwice DEF Encode

-----------------------------------------------------------------------------
(* Room behind the writer.                                                 *)

\* What a good buffer is, part by part.
LEMMA GoodParts ==
    ASSUME NEW b, Good(b)
    PROVE  /\ b.buffer \in Seq(Byte) /\ b.r \in Nat /\ b.w \in Nat /\ Len(b.buffer) \in Nat
           /\ b.r <= b.w /\ b.w <= Len(b.buffer)
           /\ Content(b) \in Seq(Byte) /\ Len(Content(b)) = b.w - b.r
           /\ \A k \in 1..(b.w - b.r) : Content(b)[k] = b.buffer[b.r + k]
<1>1. /\ b.buffer \in Seq(Byte) /\ b.r \in Nat /\ b.w \in Nat /\ Len(b.buffer) \in Nat
      /\ b.r <= b.w /\ b.w <= Len(b.buffer)
  BY DEF Good, Buffers
<1> DEFINE s == b.buffer
           a == b.r
           z == b.w
<1>2. s \in Seq(Byte) /\ a \in Nat /\ z \in Nat /\ a <= z /\ z <= Len(s)
  BY <1>1
<1>3. Content(b) = SubSeq(s, a + 1, z)
  BY DEF Content
<1> HIDE DEF s, a, z
<1>4. /\ SubSeq(s, a + 1, z) \in Seq(Byte) /\ Len(SubSeq(s, a + 1, z)) = z - a
      /\ \A k \in 1..(z - a) : SubSeq(s, a + 1, z)[k] = s[a + k]
  BY <1>2, Part
<1>5. /\ Content(b) \in Seq(Byte) /\ Len(Content(b)) = z - a
      /\ \A k \in 1..(z - a) : Content(b)[k] = s[a + k]
  BY <1>3, <1>4, Zenon
<1> QED
  BY <1>1, <1>5, Zenon DEF s, a, z

\* Two good buffers whose readable bytes agree have the same content.
LEMMA SameContent ==
    ASSUME NEW b, Good(b), NEW c, Good(c), c.w - c.r = b.w - b.r,
           \A k \in 1..(b.w - b.r) : c.buffer[c.r + k] = b.buffer[b.r + k]
    PROVE  Content(c) = Content(b)
<1>1. /\ Content(b) \in Seq(Byte) /\ Len(Content(b)) = b.w - b.r
      /\ \A k \in 1..(b.w - b.r) : Content(b)[k] = b.buffer[b.r + k]
  BY GoodParts
<1>2. /\ Content(c) \in Seq(Byte) /\ Len(Content(c)) = c.w - c.r
      /\ \A k \in 1..(c.w - c.r) : Content(c)[k] = c.buffer[c.r + k]
  BY GoodParts
<1> QED
  BY <1>1, <1>2, SameSeq

\* Moving the readable bytes to the front keeps them.
LEMMA Moved ==
    ASSUME NEW b, Good(b), NEW len \in Nat, FitsInFront(b, len)
    PROVE  /\ Good(MovedToFront(b)) /\ Content(MovedToFront(b)) = Content(b)
           /\ Len(MovedToFront(b).buffer) = Len(b.buffer)
           /\ MovedToFront(b).r = CheapPrepend /\ MovedToFront(b).w = CheapPrepend + (b.w - b.r)
<1> DEFINE n == b.w - b.r
           m == MovedToFront(b)
<1>1. /\ b.buffer \in Seq(Byte) /\ b.r \in Nat /\ b.w \in Nat /\ Len(b.buffer) \in Nat
      /\ b.r <= b.w /\ b.w <= Len(b.buffer)
  BY GoodParts
<1>2. CheapPrepend \in Nat /\ n \in Nat /\ CheapPrepend + n <= Len(b.buffer)
  BY <1>1, BufferAssumption DEF FitsInFront
<1>3. \A k \in 1..Len(b.buffer) : b.buffer[k] \in Byte
  BY <1>1
<1>4. /\ \A k \in 1..n : b.r + k \in 1..Len(b.buffer) /\ CheapPrepend + k \in 1..Len(b.buffer)
      /\ \A k \in (CheapPrepend + 1)..(CheapPrepend + n) : b.r + k - CheapPrepend \in 1..Len(b.buffer)
  <2>1. b.r + n <= Len(b.buffer)
    BY <1>1
  <2> HIDE DEF n
  <2> QED
    BY <1>1, <1>2, <2>1, MovedPlaces
<1>6. m.buffer \in [1..Len(b.buffer) -> Byte]
  BY <1>3, <1>4 DEF MovedToFront
<1>7. m.buffer \in Seq(Byte) /\ Len(m.buffer) = Len(b.buffer)
  BY <1>1, <1>6, FunctionIsSeq
<1>8. m.r = CheapPrepend /\ m.w = CheapPrepend + n /\ m = [buffer |-> m.buffer, r |-> m.r, w |-> m.w]
  BY DEF MovedToFront
<1>9. Good(m)
  BY <1>2, <1>7, <1>8 DEF Good, Buffers
<1>10. \A k \in 1..n : m.buffer[m.r + k] = b.buffer[b.r + k]
  <2> SUFFICES ASSUME NEW k \in 1..n PROVE m.buffer[CheapPrepend + k] = b.buffer[b.r + k]
    BY <1>8
  <2>1. CheapPrepend + k \in (CheapPrepend + 1)..(CheapPrepend + n) /\ CheapPrepend + k \in 1..Len(b.buffer)
    BY <1>2, <1>4
  <2>2. b.r + (CheapPrepend + k) - CheapPrepend = b.r + k
    BY <1>1, <1>2
  <2> QED
    BY <2>1, <2>2 DEF MovedToFront
<1>11. m.w - m.r = b.w - b.r
  BY <1>1, <1>2, <1>8
<1> HIDE DEF m
<1>12. Content(m) = Content(b)
  BY <1>9, <1>10, <1>11, SameContent
<1> QED
  BY <1>7, <1>8, <1>9, <1>12 DEF m

\* Resizing the vector keeps them, and adds the bytes that were missing.
LEMMA Grown ==
    ASSUME NEW b, Good(b), NEW len \in Nat, Len(b.buffer) - b.w < len
    PROVE  /\ Good(Resized(b, len)) /\ Content(Resized(b, len)) = Content(b)
           /\ Len(Resized(b, len).buffer) = b.w + len
           /\ Resized(b, len).r = b.r /\ Resized(b, len).w = b.w
<1> DEFINE g == Resized(b, len)
           more == len - (Len(b.buffer) - b.w)
           zeros == [k \in 1..more |-> 0]
<1>1. /\ b.buffer \in Seq(Byte) /\ b.r \in Nat /\ b.w \in Nat /\ Len(b.buffer) \in Nat
      /\ b.r <= b.w /\ b.w <= Len(b.buffer)
  BY GoodParts
<1>2. 0 \in Byte
  BY BufferAssumption DEF Byte
<1>3. more \in Nat
  BY <1>1
<1>4. zeros \in Seq(Byte) /\ Len(zeros) = more
  <2>1. zeros \in [1..more -> Byte]
    BY <1>2
  <2> HIDE DEF zeros, more
  <2> QED
    BY <1>3, <2>1, FunctionIsSeq
<1>5. g = [b EXCEPT !.buffer = b.buffer \o zeros]
  BY DEF Resized
<1> HIDE DEF zeros
<1>6. /\ b.buffer \o zeros \in Seq(Byte) /\ Len(b.buffer \o zeros) = Len(b.buffer) + Len(zeros)
      /\ \A k \in 1..Len(b.buffer) : (b.buffer \o zeros)[k] = b.buffer[k]
  <2> DEFINE s == b.buffer
  <2>1. s \in Seq(Byte) /\ zeros \in Seq(Byte)
    BY <1>1, <1>4
  <2> HIDE DEF s
  <2>2. /\ s \o zeros \in Seq(Byte) /\ Len(s \o zeros) = Len(s) + Len(zeros)
        /\ \A k \in 1..Len(s) : (s \o zeros)[k] = s[k]
    BY <2>1, Joined
  <2> QED
    BY <2>2, Zenon DEF s
<1>7. g.buffer = b.buffer \o zeros /\ g.r = b.r /\ g.w = b.w /\ g \in Buffers
  BY <1>5, <1>6 DEF Good, Buffers
<1>8. Len(g.buffer) = b.w + len
  BY <1>1, <1>4, <1>6, <1>7
<1> HIDE DEF g, more
<1>9. Good(g)
  BY <1>1, <1>7, <1>8 DEF Good
<1>10. \A k \in 1..(b.w - b.r) : b.r + k \in 1..Len(b.buffer)
  BY <1>1
<1>11. \A k \in 1..(b.w - b.r) : g.buffer[g.r + k] = b.buffer[b.r + k]
  BY <1>6, <1>7, <1>10
<1>12. Content(g) = Content(b)
  BY <1>7, <1>9, <1>11, SameContent
<1> QED
  BY <1>7, <1>8, <1>9, <1>12 DEF g

\* ensureWritableBytes: the content stays, there is room for len bytes, every
\* assert on the way holds, and the vector grew only if the bytes in front of
\* the reader would not have done.
LEMMA Ensured ==
    ASSUME NEW b, Good(b), NEW len \in Nat
    PROVE  LET e == ensureWritableBytes(b, len)
           IN  /\ Good(e) /\ Content(e) = Content(b) /\ AppendAsserts(b, len)
               /\ Len(e.buffer) - e.w >= len /\ Len(e.buffer) >= Len(b.buffer)
               /\ e.w - e.r = b.w - b.r
               /\ \/ Len(e.buffer) = Len(b.buffer)
                  \/ Len(e.buffer) = b.w + len /\ b.r < len + CheapPrepend
<1> DEFINE e == ensureWritableBytes(b, len)
<1>1. /\ b.r \in Nat /\ b.w \in Nat /\ Len(b.buffer) \in Nat
      /\ b.r <= b.w /\ b.w <= Len(b.buffer)
  BY GoodParts
<1>2. CheapPrepend \in Nat
  BY BufferAssumption
<1>3. CASE Len(b.buffer) - b.w >= len
  <2>1. e = b
    BY <1>1, <1>3 DEF ensureWritableBytes
  <2> QED
    BY <1>1, <1>3, <2>1 DEF AppendAsserts
<1>4. CASE Len(b.buffer) - b.w < len /\ FitsInFront(b, len)
  <2>1. e = MovedToFront(b)
    BY <1>4 DEF ensureWritableBytes, makeSpace
  <2>2. CheapPrepend < b.r
    BY <1>1, <1>2, <1>4 DEF FitsInFront
  <2>3. /\ Good(e) /\ Content(e) = Content(b) /\ Len(e.buffer) = Len(b.buffer)
        /\ e.r = CheapPrepend /\ e.w = CheapPrepend + (b.w - b.r)
    BY <1>4, <2>1, Moved
  <2>4. Len(e.buffer) - e.w >= len /\ e.w - e.r = b.w - b.r /\ Len(e.buffer) >= Len(b.buffer)
    BY <1>1, <1>2, <1>4, <2>3 DEF FitsInFront
  <2> HIDE DEF e
  <2>5. AppendAsserts(b, len)
    BY <2>2, <2>4 DEF AppendAsserts, e
  <2> QED
    BY <2>3, <2>4, <2>5 DEF e
<1>5. CASE Len(b.buffer) - b.w < len /\ ~FitsInFront(b, len)
  <2>1. e = Resized(b, len)
    BY <1>5 DEF ensureWritableBytes, makeSpace
  <2>2. /\ Good(e) /\ Content(e) = Content(b) /\ Len(e.buffer) = b.w + len
        /\ e.r = b.r /\ e.w = b.w
    BY <1>5, <2>1, Grown
  <2>3. Len(e.buffer) - e.w >= len /\ e.w - e.r = b.w - b.r /\ Len(e.buffer) >= Len(b.buffer)
    BY <1>1, <1>5, <2>2
  <2>4. b.r < len + CheapPrepend
    BY <1>1, <1>2, <1>5 DEF FitsInFront
  <2> HIDE DEF e
  <2>5. AppendAsserts(b, len)
    BY <1>5, <2>3 DEF AppendAsserts, e
  <2> QED
    BY <2>2, <2>3, <2>4, <2>5 DEF e
<1> QED
  BY <1>1, <1>3, <1>4, <1>5

\* Bytes for which there is room are written behind the content.
LEMMA WrittenBehind ==
    ASSUME NEW b, Good(b), NEW s \in Seq(Byte), Len(b.buffer) - b.w >= Len(s)
    PROVE  /\ Good(Written(b, s)) /\ Content(Written(b, s)) = Content(b) \o s
           /\ Len(Written(b, s).buffer) = Len(b.buffer)
           /\ Written(b, s).r = b.r /\ Written(b, s).w = b.w + Len(s)
<1> DEFINE v == Written(b, s)
           n == b.w - b.r
           bytes == [k \in 1..Len(b.buffer) |->
                        IF k \in (b.w + 1)..(b.w + Len(s)) THEN s[k - b.w] ELSE b.buffer[k]]
<1>1. /\ b.buffer \in Seq(Byte) /\ b.r \in Nat /\ b.w \in Nat /\ Len(b.buffer) \in Nat
      /\ b.r <= b.w /\ b.w <= Len(b.buffer) /\ Len(s) \in Nat
      /\ Content(b) \in Seq(Byte) /\ Len(Content(b)) = n
      /\ \A k \in 1..n : Content(b)[k] = b.buffer[b.r + k]
  BY GoodParts
<1>2. v = [b EXCEPT !.buffer = bytes, !.w = b.w + Len(s)]
  BY DEF Written
<1>3. \A k \in (b.w + 1)..(b.w + Len(s)) : k - b.w \in 1..Len(s) /\ s[k - b.w] \in Byte
  <2>1. \A k \in (b.w + 1)..(b.w + Len(s)) : k - b.w \in 1..Len(s)
    BY <1>1, Offsets
  <2>2. \A k \in 1..Len(s) : s[k] \in Byte
    OBVIOUS
  <2> QED
    BY <2>1, <2>2, Zenon
<1>4. bytes \in [1..Len(b.buffer) -> Byte]
  BY <1>1, <1>3
<1>5. \A k \in 1..b.w : bytes[k] = b.buffer[k]
  BY <1>1
<1>6. \A k \in 1..Len(s) : bytes[b.w + k] = s[k]
  <2>1. \A k \in 1..Len(s) : /\ b.w + k \in 1..Len(b.buffer)
                             /\ b.w + k \in (b.w + 1)..(b.w + Len(s)) /\ (b.w + k) - b.w = k
    BY <1>1
  <2> QED
    BY <2>1
<1> HIDE DEF bytes
<1>7. bytes \in Seq(Byte) /\ Len(bytes) = Len(b.buffer)
  BY <1>1, <1>4, FunctionIsSeq
<1>8. v.buffer = bytes /\ v.r = b.r /\ v.w = b.w + Len(s) /\ v \in Buffers
  <2>1. b \in Buffers /\ b.w + Len(s) \in Nat
    BY <1>1 DEF Good
  <2> QED
    BY <1>2, <1>7, <2>1 DEF Buffers
<1> HIDE DEF v
<1>9. Good(v)
  BY <1>1, <1>7, <1>8 DEF Good
<1>10. /\ Content(v) \in Seq(Byte) /\ Len(Content(v)) = v.w - v.r
       /\ \A k \in 1..(v.w - v.r) : Content(v)[k] = v.buffer[v.r + k]
  BY <1>9, GoodParts
<1>11. /\ Content(b) \o s \in Seq(Byte) /\ Len(Content(b) \o s) = n + Len(s)
       /\ \A k \in 1..n : (Content(b) \o s)[k] = Content(b)[k]
       /\ \A k \in 1..Len(s) : (Content(b) \o s)[n + k] = s[k]
  <2> DEFINE c == Content(b)
  <2>1. c \in Seq(Byte) /\ Len(c) = n
    BY <1>1
  <2> HIDE DEF c
  <2>2. /\ c \o s \in Seq(Byte) /\ Len(c \o s) = Len(c) + Len(s)
        /\ \A k \in 1..Len(c) : (c \o s)[k] = c[k]
        /\ \A k \in 1..Len(s) : (c \o s)[Len(c) + k] = s[k]
    <3>1. c \in Seq(Byte) /\ s \in Seq(Byte)
      BY <2>1
    <3> QED
      BY <3>1, Joined
  <2> QED
    BY <2>1, <2>2, Zenon DEF c
<1>12. v.w - v.r = n + Len(s) /\ n \in Nat
  BY <1>1, <1>8
<1>13. \A k \in 1..(n + Len(s)) : Content(v)[k] = (Content(b) \o s)[k]
  <2> SUFFICES ASSUME NEW k \in 1..(n + Len(s)) PROVE Content(v)[k] = (Content(b) \o s)[k]
    OBVIOUS
  <2>1. Content(v)[k] = bytes[b.r + k]
    BY <1>8, <1>10, <1>12
  <2>2. CASE k \in 1..n
    <3>1. b.r + k \in 1..b.w
      BY <1>1, <2>2
    <3> QED
      BY <1>1, <1>5, <1>11, <2>1, <2>2, <3>1
  <2>3. CASE k \notin 1..n
    <3>1. k - n \in 1..Len(s) /\ n + (k - n) = k /\ b.w + (k - n) = b.r + k
      <4>2. n = b.w - b.r
        OBVIOUS
      <4> HIDE DEF n
      <4>1. k \in Nat /\ n < k /\ k <= n + Len(s) /\ n \in Nat /\ Len(s) \in Nat
        BY <1>1, <1>12, <2>3, BehindFirst
      <4>3. k - n \in 1..Len(s) /\ n + (k - n) = k
        BY <4>1
      <4>4. b.w + (k - n) = b.r + k
        BY <1>1, <4>1, <4>2
      <4> QED
        BY <4>3, <4>4
    <3>2. bytes[b.w + (k - n)] = s[k - n] /\ (Content(b) \o s)[n + (k - n)] = s[k - n]
      BY <1>6, <1>11, <3>1
    <3> QED
      BY <2>1, <3>1, <3>2
  <2> QED
    BY <2>2, <2>3
<1>14. Content(v) = Content(b) \o s
  BY <1>10, <1>11, <1>12, <1>13, SameSeq
<1> QED
  BY <1>7, <1>8, <1>9, <1>14 DEF v

\* append: the bytes come behind the content, wherever that is moved.
LEMMA AppendedBehind ==
    ASSUME NEW b, Good(b), NEW s \in Seq(Byte)
    PROVE  /\ Good(Appended(b, s)) /\ Content(Appended(b, s)) = Content(b) \o s
           /\ AppendAsserts(b, Len(s)) /\ Len(Appended(b, s).buffer) >= Len(b.buffer)
           /\ \/ Len(Appended(b, s).buffer) = Len(b.buffer)
              \/ Len(Appended(b, s).buffer) = b.w + Len(s) /\ b.r < Len(s) + CheapPrepend
<1> DEFINE e == ensureWritableBytes(b, Len(s))
<1>1. Len(s) \in Nat
  OBVIOUS
<1>2. /\ Good(e) /\ Content(e) = Content(b) /\ AppendAsserts(b, Len(s))
      /\ Len(e.buffer) - e.w >= Len(s) /\ Len(e.buffer) >= Len(b.buffer)
      /\ \/ Len(e.buffer) = Len(b.buffer)
         \/ Len(e.buffer) = b.w + Len(s) /\ b.r < Len(s) + CheapPrepend
  BY <1>1, Ensured
<1>3. Appended(b, s) = Written(e, s)
  BY DEF Appended
<1> HIDE DEF e
<1>4. /\ Good(Written(e, s)) /\ Content(Written(e, s)) = Content(e) \o s
      /\ Len(Written(e, s).buffer) = Len(e.buffer)
  BY <1>2, WrittenBehind
<1> QED
  BY <1>2, <1>3, <1>4

-----------------------------------------------------------------------------
(* The steps on the content.                                               *)

\* A part of a part.
LEMMA PartOfPart ==
    ASSUME NEW S, NEW s \in Seq(S), NEW a \in Nat, NEW z \in Nat, a <= z, z <= Len(s),
           NEW c \in Nat, NEW e \in Nat, c <= e, e <= z - a
    PROVE  SubSeq(SubSeq(s, a + 1, z), c + 1, e) = SubSeq(s, (a + c) + 1, a + e)
<1> DEFINE p == SubSeq(s, a + 1, z)
           x == SubSeq(p, c + 1, e)
           y == SubSeq(s, (a + c) + 1, a + e)
<1>1. p \in Seq(S) /\ Len(p) = z - a /\ \A k \in 1..(z - a) : p[k] = s[a + k]
  BY Part
<1> HIDE DEF p
<1>2. x \in Seq(S) /\ Len(x) = e - c /\ \A k \in 1..(e - c) : x[k] = p[c + k]
  BY <1>1, Part
<1>3. a + c \in Nat /\ a + e \in Nat /\ a + c <= a + e /\ a + e <= Len(s) /\ (a + e) - (a + c) = e - c
  OBVIOUS
<1>4. y \in Seq(S) /\ Len(y) = (a + e) - (a + c) /\ \A k \in 1..((a + e) - (a + c)) : y[k] = s[(a + c) + k]
  BY <1>3, Part
<1> HIDE DEF x, y
<1>5. \A k \in 1..(e - c) : c + k \in 1..(z - a) /\ a + (c + k) = (a + c) + k
  OBVIOUS
<1>6. \A k \in 1..(e - c) : x[k] = y[k]
  BY <1>1, <1>2, <1>3, <1>4, <1>5
<1>7. x = y
  BY <1>2, <1>3, <1>4, <1>6, SameSeq
<1> QED
  BY <1>7 DEF x, y, p

\* The variables as a good buffer.
Sound == Good(Now) /\ CheapPrepend <= Len(buffer)

\* What the variables are, part by part.
LEMMA SoundParts ==
    ASSUME Sound
    PROVE  /\ buffer \in Seq(Byte) /\ Len(buffer) \in Nat
           /\ readerIndex \in Nat /\ writerIndex \in Nat /\ CheapPrepend \in Nat
           /\ readerIndex <= writerIndex /\ writerIndex <= Len(buffer) /\ CheapPrepend <= Len(buffer)
           /\ Content(Now) = Readable /\ Readable \in Seq(Byte) /\ Len(Readable) = readableBytes
<1>1. Now.buffer = buffer /\ Now.r = readerIndex /\ Now.w = writerIndex
  BY DEF Now
<1>2. /\ Now.buffer \in Seq(Byte) /\ Now.r \in Nat /\ Now.w \in Nat /\ Len(Now.buffer) \in Nat
      /\ Now.r <= Now.w /\ Now.w <= Len(Now.buffer)
      /\ Content(Now) \in Seq(Byte) /\ Len(Content(Now)) = Now.w - Now.r
  BY GoodParts DEF Sound
<1>3. CheapPrepend \in Nat
  BY BufferAssumption
<1>4. Content(Now) = Readable
  BY <1>1 DEF Content, Readable
<1> QED
  BY <1>1, <1>2, <1>3, <1>4 DEF Sound, readableBytes

\* The variables take the values of a good buffer.
LEMMA Becomes ==
    ASSUME NEW b, Good(b), CheapPrepend <= Len(b.buffer),
           buffer' = b.buffer, readerIndex' = b.r, writerIndex' = b.w
    PROVE  Sound' /\ Readable' = Content(b)
<1>1. Now' = [buffer |-> b.buffer, r |-> b.r, w |-> b.w]
  BY DEF Now
<1>2. b = [buffer |-> b.buffer, r |-> b.r, w |-> b.w]
  BY DEF Good, Buffers
<1>3. Good(Now)' <=> Good(Now')
  BY DEF Good
<1> QED
  BY <1>1, <1>2, <1>3 DEF Sound, Readable, Content

\* The asserts have held, and the vector grew no further than the bytes that
\* were to be held at once ask for.
GrowthInv == asserted /\ peak \in Nat /\ GrowthBounded

\* What is inductive.
Inv == Sound /\ GrowthInv

\* A vector that stays as long as it was, or grew to hold n bytes of content
\* and len more because there were not enough in front.
LEMMA Bound ==
    ASSUME GrowthInv, NEW n \in Nat, NEW len \in Nat, NEW total \in Nat, n + len <= total,
           NEW reader \in Nat, Len(buffer) \in Nat, Len(buffer') \in Nat,
           peak' = Larger(peak, total),
           \/ Len(buffer') = Len(buffer)
           \/ Len(buffer') = (reader + n) + len /\ reader < len + CheapPrepend
    PROVE  peak' \in Nat /\ GrowthBounded'
<1>1. CheapPrepend \in Nat /\ InitialSize \in Nat
  BY BufferAssumption
<1>2. peak \in Nat /\ peak' \in Nat /\ peak' >= peak /\ peak' >= total
  BY DEF GrowthInv, Larger
<1>3. Len(buffer) <= CheapPrepend + Larger(InitialSize, 2 * peak)
  BY DEF GrowthInv, GrowthBounded
<1>4. Len(buffer') <= CheapPrepend + Larger(InitialSize, 2 * peak')
  BY <1>1, <1>2, <1>3 DEF Larger
<1> QED
  BY <1>2, <1>4 DEF GrowthBounded

\* append: the bytes are the last of the content.
LEMMA AppendStep ==
    ASSUME Inv, NEW s \in Seq(Byte), AppendBytes(s)
    PROVE  Inv' /\ Q!Append_(s)
<1> DEFINE b == Appended(Now, s)
<1>1. /\ Len(buffer) \in Nat /\ readerIndex \in Nat /\ writerIndex \in Nat
      /\ readerIndex <= writerIndex /\ Content(Now) = Readable
      /\ CheapPrepend \in Nat /\ CheapPrepend <= Len(buffer) /\ Len(s) \in Nat
  BY SoundParts DEF Inv
<1>2. Now.buffer = buffer /\ Now.r = readerIndex /\ Now.w = writerIndex
  BY DEF Now
<1>3. /\ Good(b) /\ Content(b) = Readable \o s /\ AppendAsserts(Now, Len(s)) /\ Len(b.buffer) >= Len(buffer)
      /\ \/ Len(b.buffer) = Len(buffer)
         \/ Len(b.buffer) = writerIndex + Len(s) /\ readerIndex < Len(s) + CheapPrepend
  BY <1>1, <1>2, AppendedBehind DEF Inv, Sound
<1>4. buffer' = b.buffer /\ readerIndex' = b.r /\ writerIndex' = b.w
  BY DEF AppendBytes, Become
<1> HIDE DEF b
<1>5. CheapPrepend <= Len(b.buffer) /\ Len(b.buffer) \in Nat
  <2>1. Len(b.buffer) \in Nat
    BY <1>3, GoodParts
  <2> QED
    BY <1>1, <1>3, <2>1
<1>6. Sound' /\ Readable' = Readable \o s
  BY <1>3, <1>4, <1>5, Becomes
<1>7. asserted'
  BY <1>3 DEF AppendBytes, Inv, GrowthInv
<1>8. peak' \in Nat /\ GrowthBounded'
  <2> DEFINE n == writerIndex - readerIndex
  <2>1. n \in Nat /\ n + Len(s) \in Nat /\ readerIndex + n = writerIndex
    BY <1>1
  <2>2. peak' = Larger(peak, n + Len(s))
    BY DEF AppendBytes, readableBytes
  <2> HIDE DEF n
  <2>3. n + Len(s) <= n + Len(s)
    BY <2>1
  <2> QED
    BY <1>1, <1>3, <1>4, <1>5, <2>1, <2>2, <2>3, Bound DEF Inv
<1> QED
  BY <1>6, <1>7, <1>8 DEF Inv, GrowthInv, Q!Append_, AppendBytes

\* retrieve: bytes are taken off the front of the content.
LEMMA RetrievedStep ==
    ASSUME Sound, NEW len \in Nat, len <= readableBytes, Retrieved(len)
    PROVE  Sound' /\ Readable' = SubSeq(Readable, len + 1, Len(Readable))
<1>1. /\ buffer \in Seq(Byte) /\ Len(buffer) \in Nat
      /\ readerIndex \in Nat /\ writerIndex \in Nat /\ CheapPrepend \in Nat
      /\ readerIndex <= writerIndex /\ writerIndex <= Len(buffer) /\ CheapPrepend <= Len(buffer)
      /\ Readable \in Seq(Byte) /\ Len(Readable) = writerIndex - readerIndex
  BY SoundParts DEF readableBytes
<1> DEFINE b == [buffer |-> buffer, r |-> readerIndex', w |-> writerIndex']
<1>2. CASE len < readableBytes
  <2>1. readerIndex' = readerIndex + len /\ writerIndex' = writerIndex /\ buffer' = buffer
    BY <1>2 DEF Retrieved
  <2>2. Good(b)
    BY <1>1, <1>2, <2>1 DEF Good, Buffers, readableBytes
  <2>3. Sound' /\ Readable' = Content(b)
    BY <1>1, <2>1, <2>2, Becomes
  <2>4. len <= writerIndex - readerIndex /\ writerIndex - readerIndex \in Nat
        /\ readerIndex + (writerIndex - readerIndex) = writerIndex
    BY <1>1, <1>2 DEF readableBytes
  <2>5. SubSeq(SubSeq(buffer, readerIndex + 1, writerIndex), len + 1, writerIndex - readerIndex)
           = SubSeq(buffer, (readerIndex + len) + 1, readerIndex + (writerIndex - readerIndex))
    BY <1>1, <2>4, PartOfPart
  <2>6. Content(b) = SubSeq(buffer, (readerIndex + len) + 1, writerIndex)
    BY <2>1 DEF Content
  <2> QED
    BY <1>1, <2>3, <2>4, <2>5, <2>6 DEF Readable
<1>3. CASE ~(len < readableBytes)
  <2>1. readerIndex' = CheapPrepend /\ writerIndex' = CheapPrepend /\ buffer' = buffer
    BY <1>3 DEF Retrieved
  <2>2. Good(b)
    BY <1>1, <2>1 DEF Good, Buffers
  <2>3. Sound' /\ Readable' = Content(b)
    BY <1>1, <2>1, <2>2, Becomes
  <2>4. Content(b) \in Seq(Byte) /\ Len(Content(b)) = 0
    <3>1. Len(Content(b)) = b.w - b.r /\ Content(b) \in Seq(Byte)
      BY <2>2, GoodParts
    <3>2. b.w - b.r = 0
      BY <1>1, <2>1
    <3> QED
      BY <3>1, <3>2
  <2>5. len = Len(Readable)
    BY <1>1, <1>3 DEF readableBytes
  <2>6. SubSeq(Readable, len + 1, Len(Readable)) \in Seq(Byte) /\ Len(SubSeq(Readable, len + 1, Len(Readable))) = 0
    BY <1>1, <2>5, Part
  <2> HIDE DEF b
  <2>7. Content(b) = SubSeq(Readable, len + 1, Len(Readable))
    BY <2>4, <2>6, SameSeq
  <2> QED
    BY <2>3, <2>7
<1> QED
  BY <1>2, <1>3

\* readFd: what fits is written and the rest appended, as if all were appended.
LEMMA ReadFdStep ==
    ASSUME Inv, NEW s \in Seq(Byte), ReadFd(s)
    PROVE  Inv' /\ Q!Append_(s)
<1> DEFINE fits == IF Len(s) <= writableBytes THEN Len(s) ELSE writableBytes
           front == SubSeq(s, 1, fits)
           rest == SubSeq(s, fits + 1, Len(s))
           v == Written(Now, front)
           b == Appended(v, rest)
<1>1. /\ Len(buffer) \in Nat /\ readerIndex \in Nat /\ writerIndex \in Nat
      /\ readerIndex <= writerIndex /\ writerIndex <= Len(buffer)
      /\ Content(Now) = Readable /\ Readable \in Seq(Byte)
      /\ CheapPrepend \in Nat /\ CheapPrepend <= Len(buffer) /\ Len(s) \in Nat
  BY SoundParts DEF Inv
<1>2. Now.buffer = buffer /\ Now.r = readerIndex /\ Now.w = writerIndex /\ Good(Now)
  BY DEF Now, Inv, Sound
<1>3. fits \in 0..Len(s) /\ fits <= Len(buffer) - writerIndex /\ fits \in Nat
  BY <1>1 DEF writableBytes
<1>4. /\ buffer' = b.buffer /\ readerIndex' = b.r /\ writerIndex' = b.w
      /\ asserted' = (asserted /\ AppendAsserts(v, Len(s) - fits))
      /\ peak' = Larger(peak, readableBytes + Len(s)) /\ value' = value
  BY DEF ReadFd, Become
<1> HIDE DEF fits
<1>5. /\ front \in Seq(Byte) /\ Len(front) = fits
      /\ rest \in Seq(Byte) /\ Len(rest) = Len(s) - fits
  <2>1. SubSeq(s, 0 + 1, fits) \in Seq(Byte) /\ Len(SubSeq(s, 0 + 1, fits)) = fits - 0
    BY <1>1, <1>3, Part
  <2>2. rest \in Seq(Byte) /\ Len(rest) = Len(s) - fits
    BY <1>1, <1>3, Part
  <2> QED
    BY <1>3, <2>1, <2>2
<1>6. front \o rest = s
  <2>1. 1 \in 1..(Len(s) + 1) /\ fits \in (1 - 1)..Len(s) /\ Len(s) \in fits..Len(s)
    BY <1>1, <1>3
  <2>2. front \o rest = SubSeq(s, 1, Len(s))
    BY <2>1, ConcatAdjacentSubSeq
  <2> QED
    BY <2>2, SubSeqFull
<1> HIDE DEF front, rest
<1>7. /\ Good(v) /\ Content(v) = Readable \o front /\ Len(v.buffer) = Len(buffer)
      /\ v.r = readerIndex /\ v.w = writerIndex + fits
  BY <1>1, <1>2, <1>3, <1>5, WrittenBehind
<1> HIDE DEF v
<1>8. /\ Good(b) /\ Content(b) = Content(v) \o rest /\ AppendAsserts(v, Len(rest)) /\ Len(b.buffer) >= Len(v.buffer)
      /\ \/ Len(b.buffer) = Len(v.buffer)
         \/ Len(b.buffer) = v.w + Len(rest) /\ v.r < Len(rest) + CheapPrepend
  BY <1>5, <1>7, AppendedBehind
<1> HIDE DEF b
<1>9. Len(b.buffer) \in Nat /\ CheapPrepend <= Len(b.buffer)
  <2>1. Len(b.buffer) \in Nat
    BY <1>8, GoodParts
  <2> QED
    BY <1>1, <1>7, <1>8, <2>1
<1>10. Content(b) = Readable \o s
  <2>1. (Readable \o front) \o rest = Readable \o (front \o rest)
    <3>1. Readable \in Seq(Byte) /\ front \in Seq(Byte) /\ rest \in Seq(Byte)
      BY <1>1, <1>5
    <3> QED
      BY <3>1, ConcatAssociative
  <2> QED
    BY <1>6, <1>7, <1>8, <2>1
<1>11. Sound' /\ Readable' = Readable \o s
  BY <1>4, <1>8, <1>9, <1>10, Becomes
<1>12. asserted'
  BY <1>4, <1>5, <1>8 DEF Inv, GrowthInv
<1>13. peak' \in Nat /\ GrowthBounded'
  <2> DEFINE n == (writerIndex - readerIndex) + fits
             len == Len(s) - fits
             total == (writerIndex - readerIndex) + Len(s)
  <2>1. /\ n \in Nat /\ len \in Nat /\ total \in Nat /\ n + len <= total
        /\ (readerIndex + n) + len = (writerIndex + fits) + len
    BY <1>1, <1>3
  <2>2. peak' = Larger(peak, total)
    BY <1>4 DEF readableBytes
  <2>3. \/ Len(buffer') = Len(buffer)
        \/ Len(buffer') = (readerIndex + n) + len /\ readerIndex < len + CheapPrepend
    BY <1>4, <1>5, <1>7, <1>8, <2>1
  <2>4. Len(buffer') \in Nat
    BY <1>4, <1>9
  <2> HIDE DEF n, len, total
  <2> QED
    BY <1>1, <2>1, <2>2, <2>3, <2>4, Bound DEF Inv
<1> QED
  BY <1>4, <1>11, <1>12, <1>13 DEF Inv, GrowthInv, Q!Append_

\* prepend: the bytes come in front of the content, over bytes already read.
LEMMA PrependStep ==
    ASSUME Inv, NEW s \in Seq(Byte), Prepend(s)
    PROVE  Inv' /\ Q!Prepend(s)
<1> DEFINE r == readerIndex - Len(s)
           n == writerIndex - readerIndex
           b == [buffer |-> buffer', r |-> r, w |-> writerIndex]
<1>1. /\ buffer \in Seq(Byte) /\ Len(buffer) \in Nat /\ readerIndex \in Nat /\ writerIndex \in Nat
      /\ readerIndex <= writerIndex /\ writerIndex <= Len(buffer)
      /\ Readable \in Seq(Byte) /\ Len(Readable) = n
      /\ CheapPrepend \in Nat /\ CheapPrepend <= Len(buffer) /\ Len(s) \in Nat
  BY SoundParts DEF Inv, readableBytes
<1>2. /\ readerIndex' = r /\ writerIndex' = writerIndex /\ r \in Nat
      /\ buffer' = [k \in 1..Len(buffer) |->
                       IF k \in (r + 1)..readerIndex THEN s[k - r] ELSE buffer[k]]
      /\ peak' = Larger(peak, n + Len(s)) /\ asserted' = asserted /\ value' = value
  BY <1>1 DEF Prepend, prependableBytes, readableBytes
<1>3. \A k \in (r + 1)..readerIndex : k - r \in 1..Len(s) /\ s[k - r] \in Byte
  <2>1. readerIndex = r + Len(s)
    BY <1>1
  <2> HIDE DEF r
  <2>2. \A k \in (r + 1)..(r + Len(s)) : k - r \in 1..Len(s)
    BY <1>1, <1>2, Offsets
  <2>3. \A k \in 1..Len(s) : s[k] \in Byte
    OBVIOUS
  <2> QED
    BY <2>1, <2>2, <2>3, Zenon
<1>4. buffer' \in [1..Len(buffer) -> Byte]
  BY <1>1, <1>2, <1>3
<1>5. buffer' \in Seq(Byte) /\ Len(buffer') = Len(buffer)
  BY <1>1, <1>4, FunctionIsSeq
<1>6. b \in Buffers
  BY <1>1, <1>2, <1>5 DEF Buffers
<1>7. Good(b)
  BY <1>1, <1>2, <1>5, <1>6 DEF Good
<1>8. Sound' /\ Readable' = Content(b)
  BY <1>1, <1>2, <1>5, <1>7, Becomes
<1>9. /\ Content(b) \in Seq(Byte) /\ Len(Content(b)) = writerIndex - r
      /\ \A k \in 1..(writerIndex - r) : Content(b)[k] = buffer'[r + k]
  <2>1. b.buffer = buffer' /\ b.r = r /\ b.w = writerIndex
    OBVIOUS
  <2> HIDE DEF b
  <2> QED
    BY <1>7, <2>1, GoodParts
<1>10. /\ s \o Readable \in Seq(Byte) /\ Len(s \o Readable) = Len(s) + Len(Readable)
       /\ \A k \in 1..Len(s) : (s \o Readable)[k] = s[k]
       /\ \A k \in 1..Len(Readable) : (s \o Readable)[Len(s) + k] = Readable[k]
  <2>1. s \in Seq(Byte) /\ Readable \in Seq(Byte)
    BY <1>1
  <2> QED
    BY <2>1, Joined
<1>11. \A k \in 1..n : Readable[k] = buffer[readerIndex + k]
  BY <1>1, Part DEF Readable
<1>12. writerIndex - r = Len(s) + n /\ n \in Nat
  BY <1>1, <1>2
<1> HIDE DEF b
<1>13. \A k \in 1..(Len(s) + n) : Content(b)[k] = (s \o Readable)[k]
  <2> SUFFICES ASSUME NEW k \in 1..(Len(s) + n) PROVE Content(b)[k] = (s \o Readable)[k]
    OBVIOUS
  <2>1. Content(b)[k] = buffer'[r + k]
    BY <1>9, <1>12
  <2>2. CASE k \in 1..Len(s)
    <3>1. r + k \in 1..Len(buffer) /\ r + k \in (r + 1)..readerIndex /\ (r + k) - r = k
      BY <1>1, <1>2, <2>2
    <3>2. buffer'[r + k] = s[k]
      BY <1>2, <3>1
    <3> QED
      BY <1>10, <2>1, <2>2, <3>2
  <2>3. CASE k \notin 1..Len(s)
    <3>1. k - Len(s) \in 1..n /\ Len(s) + (k - Len(s)) = k
      BY <1>1, <1>12, <2>3
    <3>2. r + k = readerIndex + (k - Len(s)) /\ r + k \in 1..Len(buffer) /\ r + k \notin (r + 1)..readerIndex
      BY <1>1, <1>2, <2>3
    <3>3. buffer'[r + k] = buffer[readerIndex + (k - Len(s))]
      BY <1>2, <3>2
    <3>4. (s \o Readable)[Len(s) + (k - Len(s))] = Readable[k - Len(s)]
      BY <1>1, <1>10, <3>1
    <3> QED
      BY <1>11, <2>1, <3>1, <3>3, <3>4
  <2> QED
    BY <2>2, <2>3
<1>14. Content(b) = s \o Readable
  <2>1. Content(b) \in Seq(Byte) /\ s \o Readable \in Seq(Byte)
    BY <1>9, <1>10
  <2>2. Len(Content(b)) = Len(s) + n /\ Len(s \o Readable) = Len(s) + n
    BY <1>1, <1>9, <1>10, <1>12
  <2> QED
    BY <1>13, <2>1, <2>2, SameSeq, Zenon
<1>15. peak' \in Nat /\ GrowthBounded'
  <2> DEFINE total == n + Len(s)
  <2>1. /\ total \in Nat /\ n + Len(s) <= total
        /\ Len(buffer') \in Nat /\ Len(buffer') = Len(buffer)
    BY <1>1, <1>5, <1>12
  <2>2. peak' = Larger(peak, total) /\ GrowthInv
    BY <1>2 DEF Inv
  <2> HIDE DEF n, total
  <2> QED
    BY <1>1, <1>12, <2>1, <2>2, Bound, Zenon
<1> QED
  BY <1>2, <1>8, <1>14, <1>15 DEF Inv, GrowthInv, Q!Prepend

\* unwrite: bytes are taken off the end of the content.
LEMMA UnwriteStep ==
    ASSUME Inv, NEW len \in Nat, Unwrite(len)
    PROVE  Inv' /\ len <= Len(Readable) /\ Q!Unwrite(len)
<1>1. /\ buffer \in Seq(Byte) /\ Len(buffer) \in Nat /\ readerIndex \in Nat /\ writerIndex \in Nat
      /\ readerIndex <= writerIndex /\ writerIndex <= Len(buffer)
      /\ Len(Readable) = writerIndex - readerIndex
      /\ CheapPrepend \in Nat /\ CheapPrepend <= Len(buffer)
  BY SoundParts DEF Inv, readableBytes
<1> DEFINE w == writerIndex - len
           b == [buffer |-> buffer, r |-> readerIndex, w |-> w]
<1>2. /\ buffer' = buffer /\ readerIndex' = readerIndex /\ writerIndex' = w
      /\ len <= writerIndex - readerIndex /\ w \in Nat /\ readerIndex <= w /\ w <= Len(buffer)
      /\ UNCHANGED <<value, asserted, peak>>
  BY <1>1 DEF Unwrite, readableBytes
<1>3. Good(b)
  BY <1>1, <1>2 DEF Good, Buffers
<1>4. Sound' /\ Readable' = Content(b)
  BY <1>1, <1>2, <1>3, Becomes
<1> DEFINE n == Len(Readable) - len
<1>5. n \in Nat /\ 0 <= n /\ n <= writerIndex - readerIndex /\ readerIndex + n = w /\ readerIndex + 0 = readerIndex
  BY <1>1, <1>2
<1>6. SubSeq(SubSeq(buffer, readerIndex + 1, writerIndex), 0 + 1, n) = SubSeq(buffer, (readerIndex + 0) + 1, readerIndex + n)
  <2> HIDE DEF n
  <2> QED
    BY <1>1, <1>5, PartOfPart
<1>7. Content(b) = SubSeq(Readable, 1, n)
  <2>1. Content(b) = SubSeq(buffer, readerIndex + 1, w) /\ Readable = SubSeq(buffer, readerIndex + 1, writerIndex)
    BY DEF Content, Readable
  <2>2. 0 + 1 = 1
    OBVIOUS
  <2> HIDE DEF b, w, n
  <2> QED
    BY <1>5, <1>6, <2>1, <2>2, Zenon
<1>8. GrowthInv'
  BY <1>2 DEF Inv, GrowthInv, GrowthBounded, Larger
<1> QED
  BY <1>1, <1>2, <1>4, <1>7, <1>8 DEF Inv, Q!Unwrite

\* A new buffer is good and empty.
LEMMA FreshBuffer ==
    /\ Good(Fresh) /\ Content(Fresh) = <<>>
    /\ Len(Fresh.buffer) = CheapPrepend + InitialSize
    /\ Fresh.r = CheapPrepend /\ Fresh.w = CheapPrepend
<1>1. CheapPrepend \in Nat /\ InitialSize \in Nat /\ 0 \in Byte
  BY BufferAssumption DEF Byte
<1> DEFINE n == CheapPrepend + InitialSize
           zeros == [k \in 1..n |-> 0]
<1>2. n \in Nat /\ zeros \in [1..n -> Byte]
  BY <1>1
<1>3. Fresh = [buffer |-> zeros, r |-> CheapPrepend, w |-> CheapPrepend]
  BY DEF Fresh
<1> HIDE DEF zeros, n
<1>4. zeros \in Seq(Byte) /\ Len(zeros) = n
  BY <1>2, FunctionIsSeq
<1>5. Fresh.buffer = zeros /\ Fresh.r = CheapPrepend /\ Fresh.w = CheapPrepend /\ Fresh \in Buffers
  BY <1>1, <1>3, <1>4 DEF Buffers
<1>6. Good(Fresh)
  BY <1>1, <1>4, <1>5 DEF Good, n
<1>7. Content(Fresh) \in Seq(Byte) /\ Len(Content(Fresh)) = 0
  <2>1. Content(Fresh) \in Seq(Byte) /\ Len(Content(Fresh)) = Fresh.w - Fresh.r
    BY <1>6, GoodParts
  <2>2. Fresh.w - Fresh.r = 0
    BY <1>1, <1>5
  <2> QED
    BY <2>1, <2>2
<1>8. Content(Fresh) = <<>>
  BY <1>7, EmptySeq
<1> QED
  BY <1>4, <1>5, <1>6, <1>8 DEF n

\* shrink: the content moves to another vector and stays what it is.
LEMMA ShrinkStep ==
    ASSUME Inv, NEW reserve \in Nat, Shrink(reserve)
    PROVE  Inv' /\ UNCHANGED <<Readable, value>>
<1> DEFINE n == Len(Readable)
           len == n + reserve
           other == ensureWritableBytes(Fresh, len)
           b == Appended(other, Readable)
<1>1. /\ Readable \in Seq(Byte) /\ n \in Nat /\ n = readableBytes /\ len \in Nat
      /\ CheapPrepend \in Nat /\ InitialSize \in Nat
  BY BufferAssumption, SoundParts DEF Inv
<1>2. /\ buffer' = b.buffer /\ readerIndex' = b.r /\ writerIndex' = b.w /\ value' = value
      /\ asserted' = (asserted /\ AppendAsserts(Fresh, len) /\ AppendAsserts(other, n))
      /\ peak' = Larger(peak, len)
  BY <1>1 DEF Shrink, Become
<1>3. /\ Good(Fresh) /\ Content(Fresh) = <<>>
      /\ Len(Fresh.buffer) = CheapPrepend + InitialSize
      /\ Fresh.r = CheapPrepend /\ Fresh.w = CheapPrepend
  BY FreshBuffer
<1> HIDE DEF n, len
<1>4. /\ Good(other) /\ Content(other) = Content(Fresh) /\ AppendAsserts(Fresh, len)
      /\ Len(other.buffer) - other.w >= len /\ Len(other.buffer) >= Len(Fresh.buffer)
      /\ \/ Len(other.buffer) = Len(Fresh.buffer)
         \/ Len(other.buffer) = Fresh.w + len
  BY <1>1, <1>3, Ensured
<1> HIDE DEF other
<1>5. /\ Good(b) /\ Content(b) = Content(other) \o Readable /\ AppendAsserts(other, n)
      /\ Len(b.buffer) >= Len(other.buffer)
      /\ \/ Len(b.buffer) = Len(other.buffer)
         \/ Len(b.buffer) = other.w + n
  BY <1>1, <1>4, AppendedBehind DEF n
<1> HIDE DEF b
<1>6. Len(b.buffer) \in Nat /\ Len(other.buffer) \in Nat /\ other.w \in Nat
  BY <1>4, <1>5, GoodParts
<1>7. len >= n
  BY <1>1 DEF len
<1>8. Len(b.buffer) = Len(other.buffer)
  <2>1. other.w + n <= Len(other.buffer)
    BY <1>1, <1>4, <1>6, <1>7
  <2> QED
    BY <1>5, <1>6, <2>1
<1>9. CheapPrepend <= Len(b.buffer) /\ Len(b.buffer) <= CheapPrepend + Larger(InitialSize, len)
  BY <1>1, <1>3, <1>4, <1>6, <1>8 DEF Larger
<1>10. Content(b) = Readable
  <2>1. <<>> \o Readable = Readable
    BY <1>1, ConcatEmptySeq
  <2> QED
    BY <1>3, <1>4, <1>5, <2>1
<1>11. Sound' /\ Readable' = Readable
  BY <1>2, <1>5, <1>9, <1>10, Becomes
<1>12. peak \in Nat /\ peak' \in Nat /\ peak' >= len
  BY <1>1, <1>2 DEF Inv, GrowthInv, Larger
<1>13. GrowthBounded'
  <2>1. Len(buffer') <= CheapPrepend + Larger(InitialSize, 2 * peak')
    BY <1>1, <1>2, <1>6, <1>9, <1>12 DEF Larger
  <2> QED
    BY <2>1 DEF GrowthBounded
<1>14. asserted'
  BY <1>2, <1>4, <1>5 DEF Inv, GrowthInv
<1> QED
  BY <1>2, <1>11, <1>12, <1>13, <1>14 DEF Inv, GrowthInv

\* retrieveUntil behind the first mark from an offset on.
LEMMA RetrieveUntilStep ==
    ASSUME Inv, NEW mark \in Marks, NEW from \in Nat, RetrieveUntil(mark, from)
    PROVE  Inv' /\ from \in 0..Len(Readable) /\ Q!ReadLine(mark, from)
<1> DEFINE m == Len(mark)
<1>1. /\ buffer \in Seq(Byte) /\ Len(buffer) \in Nat /\ readerIndex \in Nat /\ writerIndex \in Nat
      /\ readerIndex <= writerIndex /\ writerIndex <= Len(buffer)
      /\ Readable \in Seq(Byte) /\ Len(Readable) = writerIndex - readerIndex
  BY SoundParts DEF Inv, readableBytes
<1>2. m \in Nat
  <2>1. mark \in Seq(Byte)
    BY BufferAssumption
  <2> QED
    BY <2>1
<1> HIDE DEF m
<1>3. PICK p \in (readerIndex + from)..(writerIndex - m) :
        /\ SubSeq(buffer, p + 1, p + m) = mark
        /\ \A q \in (readerIndex + from)..(p - 1) : SubSeq(buffer, q + 1, q + m) # mark
        /\ value' = p - readerIndex /\ Retrieved(value' + m)
  BY DEF RetrieveUntil, FindMark, m
<1> DEFINE n == p - readerIndex
<1>4. /\ p \in Nat /\ n \in Nat /\ from <= n /\ n + m <= Len(Readable) /\ readerIndex + n = p
      /\ n \in from..(Len(Readable) - m) /\ n + m \in Nat
  BY <1>1, <1>2, <1>3
<1> HIDE DEF n
<1>5. ASSUME NEW k \in Nat, k + m <= Len(Readable)
      PROVE  SubSeq(Readable, k + 1, k + m) = SubSeq(buffer, (readerIndex + k) + 1, (readerIndex + k) + m)
  <2>1. k + m \in Nat /\ k <= k + m /\ k + m <= writerIndex - readerIndex /\ readerIndex + (k + m) = (readerIndex + k) + m
    BY <1>1, <1>2, <1>5
  <2>2. SubSeq(SubSeq(buffer, readerIndex + 1, writerIndex), k + 1, k + m)
           = SubSeq(buffer, (readerIndex + k) + 1, readerIndex + (k + m))
    <3> DEFINE e == k + m
    <3>1. e \in Nat /\ k <= e /\ e <= writerIndex - readerIndex
      BY <2>1
    <3> HIDE DEF e
    <3>2. SubSeq(SubSeq(buffer, readerIndex + 1, writerIndex), k + 1, e)
             = SubSeq(buffer, (readerIndex + k) + 1, readerIndex + e)
      BY <1>1, <3>1, PartOfPart
    <3> QED
      BY <3>2 DEF e
  <2> QED
    BY <2>1, <2>2 DEF Readable
<1>6. SubSeq(Readable, n + 1, n + m) = mark
  BY <1>3, <1>4, <1>5
<1>7. ASSUME NEW k \in from..(n - 1) PROVE SubSeq(Readable, k + 1, k + m) # mark
  <2>1. k \in Nat /\ k + m <= Len(Readable) /\ readerIndex + k \in (readerIndex + from)..(p - 1)
    BY <1>1, <1>2, <1>4
  <2> QED
    BY <1>3, <1>5, <2>1
<1>8. value' = n
  BY <1>3 DEF n
<1>9. Sound' /\ Readable' = SubSeq(Readable, (n + m) + 1, Len(Readable))
  <2>1. n + m <= readableBytes /\ Retrieved(n + m)
    BY <1>1, <1>3, <1>4, <1>8 DEF readableBytes
  <2> QED
    BY <1>4, <2>1, RetrievedStep DEF Inv
<1>10. GrowthInv'
  BY <1>3 DEF Inv, GrowthInv, GrowthBounded, Larger, RetrieveUntil, Retrieved
<1>11. from \in 0..Len(Readable)
  BY <1>1, <1>2, <1>4
<1> QED
  BY <1>4, <1>6, <1>7, <1>8, <1>9, <1>10, <1>11 DEF Inv, Q!ReadLine, m

\* readInt8 to readInt64: the integer whose encoding is in front.
LEMMA ReadIntStep ==
    ASSUME Sound, NEW w \in Widths, ReadInt(w),
           Readable' = SubSeq(Readable, w + 1, Len(Readable))
    PROVE  Q!ReadInt(w)
<1> DEFINE s == SubSeq(Readable, 1, w)
           x == HostInt(Flipped(s))
<1>1. /\ buffer \in Seq(Byte) /\ Len(buffer) \in Nat /\ readerIndex \in Nat /\ writerIndex \in Nat
      /\ readerIndex <= writerIndex /\ writerIndex <= Len(buffer)
      /\ Readable \in Seq(Byte) /\ Len(Readable) = writerIndex - readerIndex
  BY SoundParts DEF readableBytes
<1>2. w \in Nat /\ w <= 8 /\ w <= Len(Readable) /\ value' = PeekInt(w)
  BY <1>1, BufferAssumption DEF ReadInt, readableBytes
<1>3. s = SubSeq(buffer, readerIndex + 1, readerIndex + w)
  <2>1. /\ SubSeq(SubSeq(buffer, readerIndex + 1, writerIndex), 0 + 1, w)
              = SubSeq(buffer, (readerIndex + 0) + 1, readerIndex + w)
    BY <1>1, <1>2, PartOfPart
  <2>2. 0 + 1 = 1 /\ readerIndex + 0 = readerIndex
    BY <1>1
  <2> QED
    BY <2>1, <2>2, Zenon DEF Readable
<1>4. s \in Seq(Byte) /\ Len(s) = w
  <2>1. SubSeq(Readable, 0 + 1, w) \in Seq(Byte) /\ Len(SubSeq(Readable, 0 + 1, w)) = w - 0
    BY <1>1, <1>2, Part
  <2>2. 0 + 1 = 1 /\ w - 0 = w
    BY <1>2
  <2> QED
    BY <2>1, <2>2, Zenon
<1>5. value' = x
  BY <1>2, <1>3, Zenon DEF PeekInt
<1> HIDE DEF s
<1>6. x \in Ints(w) /\ Encode(x, w) = s
  <2>1. Len(s) <= 8
    BY <1>2, <1>4
  <2> QED
    BY <1>4, <2>1, NetworkRoundTrip
<1> HIDE DEF x
<1> QED
  BY <1>2, <1>5, <1>6, Zenon DEF Q!ReadInt, s

-----------------------------------------------------------------------------
(* All steps.                                                              *)

\* A new connection has an empty buffer.
LEMMA InvInit == Init => Inv /\ Readable = <<>>
<1> SUFFICES ASSUME Init PROVE Inv /\ Readable = <<>>
  OBVIOUS
<1>1. Now = Fresh
  BY DEF Init, Now, Fresh
<1>2. /\ Good(Fresh) /\ Content(Fresh) = <<>>
      /\ Len(Fresh.buffer) = CheapPrepend + InitialSize
  BY FreshBuffer
<1>3. CheapPrepend \in Nat /\ InitialSize \in Nat
  BY BufferAssumption
<1>4. Sound
  BY <1>1, <1>2, <1>3 DEF Sound, Init
<1>5. Readable = <<>>
  BY <1>1, <1>2, <1>4, SoundParts
<1>6. GrowthInv
  BY <1>2, <1>3 DEF Init, GrowthInv, GrowthBounded, Larger
<1> QED
  BY <1>4, <1>5, <1>6 DEF Inv

\* Every call keeps the buffer sound and does to its content what it is for.
LEMMA InvNext == Inv /\ [Next]_vars => Inv' /\ [Q!Next]_<<Readable, value>>
<1> SUFFICES ASSUME Inv, [Next]_vars PROVE Inv' /\ [Q!Next]_<<Readable, value>>
  OBVIOUS
<1>1. ASSUME NEW s \in Chunks PROVE s \in AllChunks /\ s \in Seq(Byte)
  BY BufferAssumption DEF AllChunks
<1>2. ASSUME NEW s \in Chunks, AppendBytes(s) \/ ReadFd(s) PROVE Inv' /\ Q!Next
  BY <1>1, <1>2, AppendStep, ReadFdStep DEF Q!Next
<1>3. ASSUME NEW s \in Chunks, Prepend(s) PROVE Inv' /\ Q!Next
  BY <1>1, <1>3, PrependStep DEF Q!Next
<1>4. ASSUME NEW w \in Widths, NEW x \in Ints(w), AppendInt(x, w) PROVE Inv' /\ Q!Next
  <2>1. Encode(x, w) \in AllChunks /\ Encode(x, w) \in Seq(Byte)
    BY EncodeBytes DEF AllChunks
  <2> QED
    BY <1>4, <2>1, AppendStep DEF AppendInt, Q!Next
<1>5. Len(Readable) = readableBytes /\ readableBytes \in Nat
  BY SoundParts DEF Inv, readableBytes
<1>6. ASSUME UNCHANGED <<buffer, asserted, peak>> PROVE GrowthInv'
  BY <1>6 DEF Inv, GrowthInv, GrowthBounded, Larger
<1>7. ASSUME NEW w \in Widths, ReadInt(w) PROVE Inv' /\ Q!Next
  <2>1. w \in Nat
    BY BufferAssumption
  <2>2. w <= Len(Readable) /\ Sound' /\ Readable' = SubSeq(Readable, w + 1, Len(Readable))
    BY <1>5, <1>7, <2>1, RetrievedStep DEF ReadInt, Inv
  <2>3. GrowthInv'
    BY <1>6, <1>7 DEF ReadInt, Retrieved
  <2>4. Q!ReadInt(w)
    BY <1>7, <2>2, ReadIntStep DEF Inv
  <2> QED
    BY <2>2, <2>3, <2>4 DEF Inv, Q!Next
<1>8. ASSUME NEW n \in 0..MaxContent, Retrieve(n) PROVE Inv' /\ Q!Next
  <2>1. n \in Nat /\ n \in 0..Len(Readable)
    BY <1>5, <1>8, BufferAssumption DEF Retrieve
  <2>2. Sound' /\ Q!Retrieve(n)
    BY <1>8, <2>1, RetrievedStep DEF Retrieve, Inv, Q!Retrieve
  <2>3. GrowthInv'
    BY <1>6, <1>8 DEF Retrieve, Retrieved
  <2> QED
    BY <2>1, <2>2, <2>3 DEF Inv, Q!Next
<1>9. ASSUME NEW n \in 0..MaxContent, Unwrite(n) PROVE Inv' /\ Q!Next
  <2>1. n \in Nat
    BY BufferAssumption
  <2>2. Inv' /\ n \in 0..Len(Readable) /\ Q!Unwrite(n)
    BY <1>5, <1>9, <2>1, UnwriteStep
  <2> QED
    BY <2>2 DEF Q!Next
<1>10. ASSUME NEW n \in 0..MaxContent, Shrink(n) PROVE Inv' /\ UNCHANGED <<Readable, value>>
  BY <1>10, ShrinkStep
<1>11. ASSUME NEW mark \in Marks, NEW from \in 0..MaxContent, RetrieveUntil(mark, from) PROVE Inv' /\ Q!Next
  <2>1. from \in Nat
    BY BufferAssumption
  <2> QED
    BY <1>11, <2>1, RetrieveUntilStep DEF Q!Next
<1>12. CASE UNCHANGED vars
  <2>1. UNCHANGED <<Readable, value>> /\ Sound'
    BY <1>12 DEF vars, Readable, Sound, Now, Inv, Good
  <2>2. GrowthInv'
    BY <1>6, <1>12 DEF vars
  <2> QED
    BY <2>1, <2>2 DEF Inv
<1> QED
  BY <1>2, <1>3, <1>4, <1>7, <1>8, <1>9, <1>10, <1>11, <1>12 DEF Next

\* The invariant holds throughout.
LEMMA InvAlways == Spec => []Inv
BY InvInit, InvNext, PTL DEF Spec

\* Whatever is called in whatever order, none of the asserts on the way of an
\* append fails.
THEOREM NoAssertFails == Spec => []AssertsHold
<1>1. Inv => AssertsHold
  BY DEF Inv, GrowthInv, AssertsHold
<1> QED
  BY <1>1, InvAlways, PTL

\* The vector never grows beyond its headroom and the initial size or, if that
\* is more, twice the bytes that waited at some time (makeSpace).
THEOREM MemoryBounded == Spec => []GrowthBounded
<1>1. Inv => GrowthBounded
  BY DEF Inv, GrowthInv
<1> QED
  BY <1>1, InvAlways, PTL

\* The buffer is a queue of bytes: no step that moves them to the front, grows
\* or shrinks the vector or splits what was received loses, invents or
\* reorders one, and an integer is read as the one whose bytes are in front.
THEOREM BytesInOrder == Spec => IsByteQueue
<1>1. Init => Q!Init
  BY InvInit DEF Init, Q!Init
<1> QED
  BY <1>1, InvInit, InvNext, PTL DEF Spec, IsByteQueue, Q!Spec
=============================================================================
