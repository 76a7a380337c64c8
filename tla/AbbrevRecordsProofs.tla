-------------------------- MODULE AbbrevRecordsProofs --------------------------
(***************************************************************************)
(* Records are read back, for every set of abbreviations of the shapes the *)
(* emitters take, every record that fits them, and numbers of any size.    *)
(*                                                                         *)
(* Each emitter has a lemma: a reader that finds the emitter's bits at its *)
(* position reads the value that was emitted and stops behind them,        *)
(* whatever comes before and after.  The invariant says so of the stream   *)
(* so far: in every sequence of bits that begins with it, the reader's     *)
(* turns come to the end of it with what was meant.                        *)
(***************************************************************************)
EXTENDS AbbrevRecordsReader, RecursionLemmas, SequenceTheorems

Bit == {0, 1}

-----------------------------------------------------------------------------
\* Powers of two

LEMMA PowerOfTwo ==
    /\ Pow2[0] = 1
    /\ \A n \in Nat : Pow2[n] \in Nat /\ Pow2[n] > 0 /\ Pow2[n + 1] = 2 * Pow2[n]
  <1> DEFINE stop == {0}
             prev == [n \in Nat |-> n - 1]
             step == [n \in Nat |-> [x \in Nat |-> 2 * x]]
             base == [n \in Nat |-> 1]
             rank == [n \in Nat |-> n]
             Rec(f) == f = [n \in Nat |-> IF n = 0 THEN 1 ELSE 2 * f[n - 1]]
  <1>1. Descent(stop, prev, step, Nat, base, rank)
    BY DEF Descent
  <1>2. \E f : Rec(f)
    <2>1. PICK f : Descends(f, stop, prev, step, Nat, base)
      BY <1>1, DescentDefines
    <2>2. ASSUME NEW n \in Nat PROVE f[n] = IF n = 0 THEN 1 ELSE 2 * f[n - 1]
      <3>1. CASE n = 0
        BY <2>1, <3>1 DEF Descends
      <3>2. CASE n # 0
        <4>1. f[n] = step[n][f[prev[n]]] /\ prev[n] = n - 1 /\ n - 1 \in Nat
          BY <2>1, <3>2 DEF Descends
        <4>2. f[n - 1] \in Nat
          BY <2>1, <4>1 DEF Descends
        <4> QED
          BY <3>2, <4>1, <4>2
      <3> QED
        BY <3>1, <3>2
    <2>3. Rec(f)
      BY <2>1, <2>2 DEF Descends
    <2> QED
      BY <2>3
  <1>3. Pow2 = CHOOSE f : Rec(f)
    BY DEF Pow2
  <1>4. Rec(Pow2)
    <2> HIDE DEF Rec
    <2> QED
      BY <1>2, <1>3
  <1>5. Pow2[0] = 1 /\ \A n \in Nat : Pow2[n + 1] = 2 * Pow2[n]
    BY <1>4
  <1> DEFINE S == {n \in Nat : Pow2[n] \in Nat /\ Pow2[n] > 0}
  <1>6. 0 \in S
    BY <1>5
  <1>7. ASSUME NEW n \in Nat, n \in S PROVE n + 1 \in S
    BY <1>5, <1>7
  <1> HIDE DEF S
  <1>8. Nat \subseteq S
    BY <1>6, <1>7, NatSetInduction
  <1> QED
    BY <1>5, <1>8 DEF S

LEMMA SmallPowers ==
    /\ Pow2[0] = 1 /\ Pow2[1] = 2 /\ Pow2[2] = 4 /\ Pow2[3] = 8 /\ Pow2[4] = 16
    /\ Pow2[5] = 32 /\ Pow2[6] = 64 /\ Pow2[7] = 128 /\ Pow2[8] = 256
  <1>1. \A n \in Nat : Pow2[n + 1] = 2 * Pow2[n]
    BY PowerOfTwo
  <1>2. Pow2[0] = 1 /\ Pow2[0 + 1] = 2
    BY <1>1, PowerOfTwo
  <1>3. Pow2[1 + 1] = 4
    BY <1>1, <1>2
  <1>4. Pow2[2 + 1] = 8
    BY <1>1, <1>3
  <1>5. Pow2[3 + 1] = 16
    BY <1>1, <1>4
  <1>6. Pow2[4 + 1] = 32
    BY <1>1, <1>5
  <1>7. Pow2[5 + 1] = 64
    BY <1>1, <1>6
  <1>8. Pow2[6 + 1] = 128
    BY <1>1, <1>7
  <1>9. Pow2[7 + 1] = 256
    BY <1>1, <1>8
  <1> QED
    BY <1>2, <1>3, <1>4, <1>5, <1>6, <1>7, <1>8, <1>9

\* Dividing by the power below is dividing once more by two.
LEMMA Halves ==
    ASSUME NEW v \in Nat, NEW n \in Nat
    PROVE  LET w == v \div Pow2[n]
           IN  w \in Nat /\ w = (w % 2) + 2 * (v \div Pow2[n + 1]) /\ v \div Pow2[n + 1] \in Nat /\ w % 2 \in Bit
  <1> DEFINE a == Pow2[n]
             w == v \div a
  <1>1. a \in Nat /\ a > 0 /\ Pow2[n + 1] = 2 * a
    BY PowerOfTwo
  <1> HIDE DEF a
  <1>2. w \in Nat /\ (v \div a) \div 2 = v \div (2 * a)
    BY <1>1
  <1> HIDE DEF w
  <1>3. w = (w % 2) + (2 * (w \div 2)) /\ w % 2 \in Bit /\ w \div 2 \in Nat
    BY <1>2 DEF Bit
  <1>4. w \div 2 = v \div Pow2[n + 1]
    BY <1>1, <1>2 DEF w
  <1> QED
    BY <1>2, <1>3, <1>4 DEF w, a

-----------------------------------------------------------------------------
\* Bits at a place of a sequence

Has(s, p, e) == p + Len(e) <= Len(s) /\ \A k \in 1..Len(e) : s[p + k] = e[k]

LEMMA HasBoth ==
    ASSUME NEW s \in Seq(Bit), NEW p \in Nat, NEW e \in Seq(Bit), NEW f \in Seq(Bit), Has(s, p, e \o f)
    PROVE  Has(s, p, e) /\ Has(s, p + Len(e), f)
  <1>1. Len(e \o f) = Len(e) + Len(f)
    OBVIOUS
  <1>2. \A k \in 1..Len(e) : (e \o f)[k] = e[k]
    OBVIOUS
  <1>3. \A k \in 1..Len(f) : (e \o f)[Len(e) + k] = f[k]
    OBVIOUS
  <1>4. Has(s, p, e)
    BY <1>1, <1>2 DEF Has
  <1>5. \A k \in 1..Len(f) : Len(e) + k \in 1..Len(e \o f) /\ (p + Len(e)) + k = p + (Len(e) + k)
    BY <1>1
  <1>6. Has(s, p + Len(e), f)
    BY <1>1, <1>3, <1>5 DEF Has
  <1> QED
    BY <1>4, <1>6

LEMMA JoinLen ==
    ASSUME NEW e \in Seq(Bit), NEW f \in Seq(Bit)
    PROVE  /\ e \o f \in Seq(Bit) /\ Len(e) \in Nat /\ Len(f) \in Nat
           /\ Len(e \o f) = Len(e) + Len(f)
           /\ \A p \in Nat : p + Len(e) \in Nat /\ (p + Len(e)) + Len(f) = p + Len(e \o f)
  <1>1. e \o f \in Seq(Bit) /\ Len(e) \in Nat /\ Len(f) \in Nat /\ Len(e \o f) = Len(e) + Len(f)
    OBVIOUS
  <1> QED
    BY <1>1

LEMMA BitsOf ==
    ASSUME NEW v \in Nat, NEW n \in Nat
    PROVE  Bits(v, n) \in Seq(Bit) /\ Len(Bits(v, n)) = n
                /\ \A k \in 1..n : Bits(v, n)[k] = (v \div Pow2[k - 1]) % 2
  <1>1. \A k \in 1..n : (v \div Pow2[k - 1]) % 2 \in Bit
    BY Halves
  <1>2. Bits(v, n) \in [1..n -> Bit]
    BY <1>1 DEF Bits
  <1> QED
    BY <1>2 DEF Bits

-----------------------------------------------------------------------------
\* Fields of a fixed number of bits

BitAt(s, p) == IF p < Len(s) THEN s[p + 1] ELSE 0

LEMMA ReadBitsSteps ==
    ASSUME NEW s \in Seq(Bit), NEW p \in Nat, NEW n \in Nat
    PROVE  \E High : /\ High \in [0..n -> Nat] /\ High[0] = 0
                     /\ \A k \in 1..n : High[k] = BitAt(s, p + n - k) + 2 * High[k - 1]
                     /\ ReadBits(s, p, n) = At(p + n, High[n])
  <1> DEFINE base == 0
             step == [k \in 1..n |-> [x \in Nat |-> BitAt(s, p + n - k) + 2 * x]]
             Rec(f) == f = [k \in 0..n |-> IF k = 0 THEN 0 ELSE BitAt(s, p + n - k) + 2 * f[k - 1]]
             Good(f) == /\ f \in [0..n -> Nat] /\ f[0] = 0
                        /\ \A k \in 1..n : f[k] = BitAt(s, p + n - k) + 2 * f[k - 1]
  <1>1. \A k \in 1..n : BitAt(s, p + n - k) \in Bit
    BY DEF BitAt, Bit
  <1>2. step \in [1..n -> [Nat -> Nat]]
    BY <1>1 DEF Bit
  <1>3. \E f : Rec(f)
    <2> HIDE DEF step
    <2>1. PICK f : Iterates(f, step, n, Nat, 0)
      BY <1>2, RecursionDefines DEF Steps
    <2>2. ASSUME NEW k \in 1..n PROVE f[k] = BitAt(s, p + n - k) + 2 * f[k - 1]
      <3>1. f[k] = step[k][f[k - 1]] /\ f[k - 1] \in Nat
        BY <2>1 DEF Iterates
      <3> QED
        BY <3>1 DEF step
    <2>3. Rec(f)
      BY <2>1, <2>2 DEF Iterates
    <2> QED
      BY <2>3
  <1>4. \A f : Rec(f) => Good(f)
    <2> SUFFICES ASSUME NEW f, Rec(f) PROVE Good(f)
      OBVIOUS
    <2>1. f[0] = 0 /\ \A k \in 1..n : f[k] = BitAt(s, p + n - k) + 2 * f[k - 1]
      OBVIOUS
    <2> DEFINE S == {k \in Nat : k <= n => f[k] \in Nat}
    <2>2. 0 \in S
      BY <2>1
    <2>3. ASSUME NEW k \in Nat, k \in S PROVE k + 1 \in S
      <3> SUFFICES ASSUME k + 1 <= n PROVE f[k + 1] \in Nat
        OBVIOUS
      <3>0. k + 1 \in 1..n /\ (k + 1) - 1 = k
        OBVIOUS
      <3>1. f[k + 1] = BitAt(s, p + n - (k + 1)) + 2 * f[k] /\ BitAt(s, p + n - (k + 1)) \in Bit
        BY <1>1, <2>1, <3>0
      <3>2. f[k] \in Nat
        BY <2>3
      <3> QED
        BY <3>1, <3>2 DEF Bit
    <2> HIDE DEF S
    <2>4. Nat \subseteq S
      BY <2>2, <2>3, NatSetInduction
    <2> QED
      BY <2>1, <2>4 DEF S
  <1> DEFINE X == CHOOSE f : Rec(f)
  <1>5. ReadBits(s, p, n) = At(p + n, X[n])
    BY DEF ReadBits, BitAt
  <1>6. Rec(X)
    <2> HIDE DEF Rec
    <2> QED
      BY <1>3
  <1>7. Good(X)
    <2> HIDE DEF X, Rec, Good
    <2> QED
      BY <1>4, <1>6
  <1> HIDE DEF X
  <1> QED
    BY <1>5, <1>7
LEMMA ReadBitsTyped ==
    ASSUME NEW s \in Seq(Bit), NEW p \in Nat, NEW n \in Nat
    PROVE  /\ ReadBits(s, p, n) = At(p + n, ReadBits(s, p, n).got)
           /\ ReadBits(s, p, n).pos = p + n /\ ReadBits(s, p, n).got \in Nat
           /\ p >= Len(s) => ReadBits(s, p, n).got = 0
  <1>1. PICK High : /\ High \in [0..n -> Nat] /\ High[0] = 0
                    /\ \A k \in 1..n : High[k] = BitAt(s, p + n - k) + 2 * High[k - 1]
                    /\ ReadBits(s, p, n) = At(p + n, High[n])
    BY ReadBitsSteps
  <1>2. ReadBits(s, p, n).got = High[n] /\ ReadBits(s, p, n).pos = p + n /\ High[n] \in Nat
    BY <1>1 DEF At
  <1>3. ASSUME p >= Len(s) PROVE High[n] = 0
    <2> DEFINE S == {k \in Nat : k <= n => High[k] = 0}
    <2>1. 0 \in S
      BY <1>1
    <2>2. ASSUME NEW k \in Nat, k \in S PROVE k + 1 \in S
      <3> SUFFICES ASSUME k + 1 <= n PROVE High[k + 1] = 0
        OBVIOUS
      <3>1. k + 1 \in 1..n /\ (k + 1) - 1 = k /\ ~(p + n - (k + 1) < Len(s))
        BY <1>3
      <3>2. High[k + 1] = BitAt(s, p + n - (k + 1)) + 2 * High[k] /\ High[k] = 0
        BY <1>1, <2>2, <3>1
      <3> QED
        BY <3>1, <3>2 DEF BitAt
    <2> HIDE DEF S
    <2>3. Nat \subseteq S
      BY <2>1, <2>2, NatSetInduction
    <2> QED
      BY <2>3 DEF S
  <1> QED
    BY <1>1, <1>2, <1>3

\* Emit and Read are inverse.
LEMMA ReadBitsOf ==
    ASSUME NEW s \in Seq(Bit), NEW p \in Nat, NEW n \in Nat, NEW v \in Nat,
           v < Pow2[n], Has(s, p, Bits(v, n))
    PROVE  ReadBits(s, p, n) = At(p + n, v)
  <1>1. PICK High : /\ High \in [0..n -> Nat] /\ High[0] = 0
                    /\ \A k \in 1..n : High[k] = BitAt(s, p + n - k) + 2 * High[k - 1]
                    /\ ReadBits(s, p, n) = At(p + n, High[n])
    BY ReadBitsSteps
  <1>2. \A k \in 1..n : BitAt(s, p + n - k) = (v \div Pow2[n - k]) % 2
    <2> SUFFICES ASSUME NEW k \in 1..n PROVE BitAt(s, p + n - k) = (v \div Pow2[n - k]) % 2
      OBVIOUS
    <2>1. Len(Bits(v, n)) = n /\ Bits(v, n)[n - k + 1] = (v \div Pow2[n - k]) % 2
      <3>1. n - k + 1 \in 1..n /\ (n - k + 1) - 1 = n - k
        OBVIOUS
      <3> QED
        BY <3>1, BitsOf
    <2>2. p + n <= Len(s) /\ s[p + (n - k + 1)] = Bits(v, n)[n - k + 1]
      BY <2>1 DEF Has
    <2>3. p + n - k < Len(s) /\ p + (n - k + 1) = (p + n - k) + 1
      BY <2>2
    <2> QED
      BY <2>1, <2>2, <2>3 DEF BitAt
  <1> DEFINE S == {k \in Nat : k <= n => High[k] = v \div Pow2[n - k]}
  <1>3. 0 \in S
    <2> DEFINE a == Pow2[n]
    <2>1. a \in Nat /\ v < a
      BY PowerOfTwo
    <2> HIDE DEF a
    <2>2. v \div a = 0
      BY <2>1
    <2> QED
      BY <1>1, <2>2 DEF a
  <1>4. ASSUME NEW k \in Nat, k \in S PROVE k + 1 \in S
    <2> SUFFICES ASSUME k + 1 <= n PROVE High[k + 1] = v \div Pow2[n - (k + 1)]
      OBVIOUS
    <2> DEFINE m == n - (k + 1)
    <2>1. k + 1 \in 1..n /\ (k + 1) - 1 = k /\ m \in Nat /\ n - k = m + 1
      OBVIOUS
    <2>2. High[k + 1] = ((v \div Pow2[m]) % 2) + 2 * High[k]
      BY <1>1, <1>2, <2>1
    <2>3. High[k] = v \div Pow2[m + 1]
      BY <1>4, <2>1
    <2> HIDE DEF m
    <2>4. v \div Pow2[m] = ((v \div Pow2[m]) % 2) + 2 * (v \div Pow2[m + 1])
      BY <2>1, Halves
    <2>5. High[k + 1] = v \div Pow2[m]
      BY <2>2, <2>3, <2>4
    <2> QED
      BY <2>5 DEF m
  <1> HIDE DEF S
  <1>5. n \in S
    BY <1>3, <1>4, NatSetInduction
  <1>6. High[n] = v \div Pow2[0]
    BY <1>5 DEF S
  <1>7. v \div 1 = v
    OBVIOUS
  <1> QED
    BY <1>1, <1>6, <1>7, PowerOfTwo

-----------------------------------------------------------------------------
\* Numbers in chunks

LEMMA Chunk ==
    ASSUME NEW n \in Nat, n >= 2
    PROVE  Pow2[n - 1] \in Nat /\ Pow2[n - 1] >= 2 /\ Pow2[n] = 2 * Pow2[n - 1]
  <1>1. n - 2 \in Nat /\ (n - 2) + 1 = n - 1 /\ n - 1 \in Nat /\ (n - 1) + 1 = n
    OBVIOUS
  <1>2. Pow2[n - 2] \in Nat /\ Pow2[n - 2] > 0 /\ Pow2[(n - 2) + 1] = 2 * Pow2[n - 2]
        /\ Pow2[(n - 1) + 1] = 2 * Pow2[n - 1] /\ Pow2[n - 1] \in Nat
    BY <1>1, PowerOfTwo
  <1> QED
    BY <1>1, <1>2

\* What is left above a chunk, and the chunk itself.
LEMMA Chunked ==
    ASSUME NEW v \in Nat, NEW c \in Nat, c >= 2
    PROVE  /\ v \div c \in Nat /\ v % c \in 0..(c - 1) /\ v = (v % c) + (c * (v \div c))
           /\ v >= c => v \div c < v
  <1>1. v \div c \in Nat /\ v % c \in 0..(c - 1) /\ v = (c * (v \div c)) + (v % c)
    OBVIOUS
  <1> DEFINE q == v \div c
             r == v % c
  <1>2. q \in Nat /\ r \in 0..(c - 1) /\ v = c * q + r
    BY <1>1
  <1> HIDE DEF q, r
  <1>3. ASSUME v >= c PROVE q < v
    <2>1. q # 0
      BY <1>2, <1>3
    <2>2. c * q = 2 * q + (c - 2) * q /\ (c - 2) * q >= 0
      BY <1>2
    <2> QED
      BY <1>2, <2>1, <2>2
  <1> QED
    BY <1>1, <1>3 DEF q, r

LEMMA EmitVBRSteps ==
    ASSUME NEW n \in Nat, n >= 2, NEW v \in Nat
    PROVE  /\ EmitVBR(v, n) \in Seq(Bit)
           /\ v < Pow2[n - 1] => EmitVBR(v, n) = Bits(v, n)
           /\ v >= Pow2[n - 1] =>
                EmitVBR(v, n) = Bits((v % Pow2[n - 1]) + Pow2[n - 1], n) \o EmitVBR(v \div Pow2[n - 1], n)
  <1> DEFINE chunk == Pow2[n - 1]
             A == Seq(Bit)
             Low(x) == Bits((x % chunk) + chunk, n)
             stop == {x \in Nat : ~Continues(x, n)}
             prev == [x \in Nat |-> x \div chunk]
             step == [x \in Nat |-> [e \in A |-> Low(x) \o e]]
             base == [x \in Nat |-> Bits(x, n)]
             rank == [x \in Nat |-> x]
             Rec(f) == f = [x \in Nat |-> IF Continues(x, n) THEN Low(x) \o f[x \div chunk] ELSE Bits(x, n)]
             Good(f) == f \in [Nat -> A]
  <1>1. chunk \in Nat /\ chunk >= 2
    BY Chunk
  <1>2. \A x \in Nat : Continues(x, n) <=> x >= chunk
    BY DEF Continues
  <1> HIDE DEF chunk
  <1>3. \A x \in Nat : (x % chunk) + chunk \in Nat /\ x \div chunk \in Nat
    BY <1>1, Chunked
  <1>4. \A x \in Nat : Low(x) \in A /\ Bits(x, n) \in A
    BY <1>3, BitsOf
  <1>5. Descent(stop, prev, step, A, base, rank)
    <2>1. \A x \in Nat : x \notin stop => prev[x] \in Nat /\ rank[prev[x]] < rank[x]
      BY <1>1, <1>2, <1>3, Chunked
    <2>2. step \in [Nat -> [A -> A]]
      <3> HIDE DEF Low
      <3> QED
        BY <1>4
    <2>3. A # {} /\ rank \in [Nat -> Nat] /\ \A x \in Nat : x \in stop => base[x] \in A
      BY <1>4
    <2> HIDE DEF stop, prev, step, A, base, rank
    <2> QED
      BY <2>1, <2>2, <2>3 DEF Descent
  <1>6. \E f : Rec(f)
    <2>1. PICK f : Descends(f, stop, prev, step, A, base)
      <3> HIDE DEF stop, prev, step, A, base, rank
      <3> QED
        BY <1>5, DescentDefines
    <2> HIDE DEF Low
    <2>2. ASSUME NEW x \in Nat PROVE f[x] = IF Continues(x, n) THEN Low(x) \o f[x \div chunk] ELSE Bits(x, n)
      <3>1. f[x] = IF x \in stop THEN base[x] ELSE step[x][f[prev[x]]]
        BY <2>1 DEF Descends
      <3>2. f[prev[x]] \in A /\ prev[x] = x \div chunk
        BY <1>3, <2>1 DEF Descends
      <3>3. CASE Continues(x, n)
        BY <3>1, <3>2, <3>3
      <3>4. CASE ~Continues(x, n)
        BY <3>1, <3>4
      <3> QED
        BY <3>3, <3>4
    <2>3. Rec(f)
      BY <2>1, <2>2 DEF Descends
    <2> QED
      BY <2>3
  <1> DEFINE X == CHOOSE f : Rec(f)
  <1>7. \A x \in Nat : EmitVBR(x, n) = X[x]
    BY DEF EmitVBR, chunk
  <1>8. Rec(X)
    <2> HIDE DEF Rec
    <2> QED
      BY <1>6
  <1> HIDE DEF X
  <1>9. \A x \in Nat : X[x] = IF Continues(x, n) THEN Low(x) \o X[x \div chunk] ELSE Bits(x, n)
    BY <1>8
  <1> DEFINE S == {m \in Nat : \A x \in Nat : x <= m => X[x] \in A}
  <1>10. ASSUME NEW x \in Nat, Continues(x, n) => X[x \div chunk] \in A PROVE X[x] \in A
    <2> HIDE DEF Low
    <2>1. CASE Continues(x, n)
      <3> DEFINE e == X[x \div chunk]
      <3>1. X[x] = Low(x) \o e /\ Low(x) \in A /\ e \in A
        BY <1>4, <1>9, <1>10, <2>1
      <3> HIDE DEF e
      <3> QED
        BY <3>1
    <2>2. CASE ~Continues(x, n)
      BY <1>4, <1>9, <2>2
    <2> QED
      BY <2>1, <2>2
  <1>11. 0 \in S
    BY <1>1, <1>2, <1>10
  <1>12. ASSUME NEW m \in Nat, m \in S PROVE m + 1 \in S
    <2> HIDE DEF A
    <2> SUFFICES ASSUME NEW x \in Nat, x <= m + 1 PROVE X[x] \in A
      OBVIOUS
    <2>1. ASSUME Continues(x, n) PROVE x \div chunk \in Nat /\ x \div chunk <= m
      <3>1. x \div chunk \in Nat /\ x \div chunk < x
        BY <1>1, <1>2, <2>1, Chunked
      <3> QED
        BY <3>1
    <2> QED
      BY <1>10, <1>12, <2>1
  <1> HIDE DEF S
  <1>13. Nat \subseteq S
    BY <1>11, <1>12, NatSetInduction
  <1>14. X[v] \in A
    <2>1. v \in S /\ v <= v
      BY <1>13
    <2> QED
      BY <2>1 DEF S
  <1>15. v < chunk => X[v] = Bits(v, n)
    BY <1>1, <1>2, <1>9
  <1>16. v >= chunk => X[v] = Low(v) \o X[v \div chunk]
    BY <1>2, <1>9
  <1> QED
    BY <1>3, <1>7, <1>14, <1>15, <1>16 DEF chunk
Cursors == [pos : Nat, got : Nat]

LEMMA ReadVBRSteps ==
    ASSUME NEW s \in Seq(Bit), NEW n \in Nat, n >= 2, NEW p \in Nat
    PROVE  LET c == ReadBits(s, p, n)
               more == ReadVBR(s, p + n, n)
           IN  ReadVBR(s, p, n) =
                 IF c.got < Pow2[n - 1] THEN c
                 ELSE At(more.pos, (c.got - Pow2[n - 1]) + Pow2[n - 1] * more.got)
  <1> DEFINE chunk == Pow2[n - 1]
             c(x) == ReadBits(s, x, n)
             stop == {x \in Nat : c(x).got < chunk}
             prev == [x \in Nat |-> x + n]
             base == [x \in Nat |-> c(x)]
             step == [x \in Nat |-> [m \in Cursors |->
                        IF x \in stop THEN m ELSE At(m.pos, (c(x).got - chunk) + chunk * m.got)]]
             rank == [x \in Nat |-> IF x < Len(s) THEN Len(s) - x ELSE 0]
             Rec(f) == f = [x \in Nat |-> IF c(x).got < chunk THEN c(x)
                                          ELSE At(f[c(x).pos].pos, (c(x).got - chunk) + chunk * f[c(x).pos].got)]
  <1>1. chunk \in Nat /\ chunk >= 2
    BY Chunk
  <1> HIDE DEF chunk
  <1>2. \A x \in Nat : c(x) = At(x + n, c(x).got) /\ c(x).pos = x + n /\ c(x).got \in Nat
                       /\ (x >= Len(s) => c(x).got = 0)
    BY ReadBitsTyped
  <1> HIDE DEF c
  <1>3. Descent(stop, prev, step, Cursors, base, rank)
    <2>1. \A x \in Nat : x \notin stop => prev[x] \in Nat /\ rank[prev[x]] < rank[x]
      <3> SUFFICES ASSUME NEW x \in Nat, x \notin stop PROVE prev[x] \in Nat /\ rank[prev[x]] < rank[x]
        OBVIOUS
      <3>1. x < Len(s)
        <4> SUFFICES ASSUME ~(x < Len(s)) PROVE FALSE
          OBVIOUS
        <4>1. x >= Len(s)
          OBVIOUS
        <4>2. c(x).got = 0
          BY <1>2, <4>1
        <4> QED
          BY <1>1, <4>2
      <3> QED
        BY <3>1
    <2>2. step \in [Nat -> [Cursors -> Cursors]]
      <3> SUFFICES ASSUME NEW x \in Nat, NEW m \in Cursors
                   PROVE  (IF x \in stop THEN m ELSE At(m.pos, (c(x).got - chunk) + chunk * m.got)) \in Cursors
        OBVIOUS
      <3>1. CASE x \in stop
        BY <3>1
      <3>2. CASE x \notin stop
        <4>1. c(x).got \in Nat /\ c(x).got >= chunk
          BY <1>1, <1>2, <3>2
        <4>2. c(x).got - chunk \in Nat /\ m.got \in Nat /\ m.pos \in Nat
          BY <1>1, <4>1 DEF Cursors
        <4>3. chunk * m.got \in Nat
          BY <1>1, <4>2
        <4>4. (c(x).got - chunk) + chunk * m.got \in Nat
          BY <4>2, <4>3
        <4> HIDE DEF stop
        <4> QED
          BY <3>2, <4>2, <4>4 DEF At, Cursors
      <3> QED
        BY <3>1, <3>2
    <2>3. \A x \in Nat : base[x] \in Cursors
      BY <1>2 DEF At, Cursors
    <2>4. Cursors # {} /\ rank \in [Nat -> Nat]
      <3>1. [pos |-> 0, got |-> 0] \in Cursors
        BY DEF Cursors
      <3> QED
        BY <3>1
    <2> HIDE DEF stop, prev, step, base, rank
    <2> QED
      BY <2>1, <2>2, <2>3, <2>4 DEF Descent
  <1>4. \E f : Rec(f)
    <2>1. PICK f : Descends(f, stop, prev, step, Cursors, base)
      <3> HIDE DEF stop, prev, step, base, rank
      <3> QED
        BY <1>3, DescentDefines
    <2>2. ASSUME NEW x \in Nat
          PROVE  f[x] = IF c(x).got < chunk THEN c(x)
                        ELSE At(f[c(x).pos].pos, (c(x).got - chunk) + chunk * f[c(x).pos].got)
      <3>1. f[x] = IF x \in stop THEN base[x] ELSE step[x][f[prev[x]]]
        BY <2>1 DEF Descends
      <3>2. f[prev[x]] \in Cursors /\ prev[x] = c(x).pos
        BY <1>2, <2>1 DEF Descends
      <3>3. CASE x \in stop
        BY <3>1, <3>3
      <3>4. CASE x \notin stop
        BY <3>1, <3>2, <3>4
      <3> QED
        BY <3>3, <3>4
    <2>3. Rec(f)
      BY <2>1, <2>2 DEF Descends
    <2> QED
      BY <2>3
  <1> DEFINE X == CHOOSE f : Rec(f)
  <1>5. \A x \in Nat : ReadVBR(s, x, n) = X[x]
    BY DEF ReadVBR, chunk, c
  <1>6. Rec(X)
    <2> HIDE DEF Rec
    <2> QED
      BY <1>4
  <1> HIDE DEF X
  <1>7. X[p] = IF c(p).got < chunk THEN c(p)
               ELSE At(X[c(p).pos].pos, (c(p).got - chunk) + chunk * X[c(p).pos].got)
    BY <1>6
  <1>8. c(p).pos = p + n /\ ReadVBR(s, p, n) = X[p] /\ ReadVBR(s, p + n, n) = X[p + n]
    BY <1>2, <1>5
  <1> QED
    BY <1>7, <1>8 DEF chunk, c

\* EmitVBR and ReadVBR are inverse.
LEMMA ReadVBROf ==
    ASSUME NEW s \in Seq(Bit), NEW n \in Nat, n >= 2
    PROVE  \A v, p \in Nat :
             Has(s, p, EmitVBR(v, n)) => ReadVBR(s, p, n) = At(p + Len(EmitVBR(v, n)), v)
  <1> DEFINE chunk == Pow2[n - 1]
             P(v) == \A p \in Nat : Has(s, p, EmitVBR(v, n)) => ReadVBR(s, p, n) = At(p + Len(EmitVBR(v, n)), v)
             S == {m \in Nat : \A v \in Nat : v <= m => P(v)}
  <1>1. chunk \in Nat /\ chunk >= 2 /\ Pow2[n] = 2 * chunk
    BY Chunk
  <1> HIDE DEF chunk
  <1>2. ASSUME NEW v \in Nat, v < chunk PROVE P(v)
    <2> SUFFICES ASSUME NEW p \in Nat, Has(s, p, EmitVBR(v, n))
                 PROVE  ReadVBR(s, p, n) = At(p + Len(EmitVBR(v, n)), v)
      OBVIOUS
    <2>1. EmitVBR(v, n) = Bits(v, n) /\ Len(Bits(v, n)) = n
      BY <1>2, BitsOf, EmitVBRSteps DEF chunk
    <2>2. ReadBits(s, p, n) = At(p + n, v)
      BY <1>1, <1>2, <2>1, ReadBitsOf
    <2> QED
      BY <1>2, <2>1, <2>2, ReadVBRSteps DEF At, chunk
  <1>3. ASSUME NEW v \in Nat, v >= chunk, P(v \div chunk) PROVE P(v)
    <2> SUFFICES ASSUME NEW p \in Nat, Has(s, p, EmitVBR(v, n))
                 PROVE  ReadVBR(s, p, n) = At(p + Len(EmitVBR(v, n)), v)
      OBVIOUS
    <2> DEFINE q == v \div chunk
               r == v % chunk
               low == Bits(r + chunk, n)
               high == EmitVBR(q, n)
    <2>1. q \in Nat /\ r \in 0..(chunk - 1) /\ v = r + (chunk * q)
      BY <1>1, Chunked
    <2>2. EmitVBR(v, n) = low \o high
      BY <1>3, EmitVBRSteps DEF chunk
    <2> HIDE DEF q, r
    <2>3. low \in Seq(Bit) /\ Len(low) = n /\ high \in Seq(Bit) /\ r + chunk \in Nat
      <3>1. r + chunk \in Nat
        BY <1>1, <2>1
      <3>2. low \in Seq(Bit) /\ Len(low) = n
        BY <3>1, BitsOf
      <3>3. high \in Seq(Bit)
        BY <2>1, EmitVBRSteps
      <3> QED
        BY <3>1, <3>2, <3>3
    <2>4. Has(s, p, low) /\ Has(s, p + n, high)
      <3> HIDE DEF low, high
      <3> QED
        BY <2>2, <2>3, HasBoth
    <2>5. ReadBits(s, p, n) = At(p + n, r + chunk)
      BY <1>1, <2>1, <2>3, <2>4, ReadBitsOf
    <2>6. ReadVBR(s, p + n, n) = At(p + n + Len(high), q)
      BY <1>3, <2>4 DEF q
    <2>7. ReadVBR(s, p, n) = At(p + n + Len(high), ((r + chunk) - chunk) + chunk * q)
      <3>1. ~(r + chunk < chunk)
        BY <1>1, <2>1
      <3> QED
        BY <2>5, <2>6, <3>1, ReadVBRSteps DEF At, chunk
    <2>8. ((r + chunk) - chunk) + chunk * q = v
      BY <1>1, <2>1
    <2>9. Len(low \o high) = n + Len(high)
      BY <2>3
    <2> HIDE DEF low, high
    <2> QED
      BY <2>2, <2>3, <2>7, <2>8, <2>9
  <1> HIDE DEF P
  <1>4. 0 \in S
    BY <1>1, <1>2
  <1>5. ASSUME NEW m \in Nat, m \in S PROVE m + 1 \in S
    <2> SUFFICES ASSUME NEW v \in Nat, v <= m + 1 PROVE P(v)
      OBVIOUS
    <2>1. CASE v < chunk
      BY <1>2, <2>1
    <2>2. CASE v >= chunk
      <3>1. v \div chunk \in Nat /\ v \div chunk < v
        BY <1>1, <2>2, Chunked
      <3>2. P(v \div chunk)
        BY <1>5, <3>1
      <3> QED
        BY <1>3, <2>2, <3>2
    <2> QED
      BY <1>1, <2>1, <2>2
  <1> HIDE DEF S
  <1>6. Nat \subseteq S
    BY <1>4, <1>5, NatSetInduction
  <1>7. \A v \in Nat : P(v)
    <2> SUFFICES ASSUME NEW v \in Nat PROVE P(v)
      OBVIOUS
    <2>1. v \in S /\ v <= v
      BY <1>6
    <2> QED
      BY <2>1 DEF S
  <1> QED
    BY <1>7 DEF P
-----------------------------------------------------------------------------
\* Operands

LEMMA Char6Of ==
    ASSUME NEW c \in Nat, isChar6(c)
    PROVE  EncodeChar6(c) \in 0..63 /\ DecodeChar6(EncodeChar6(c)) = c
  <1>1. CASE c \in 97..122
    <2>1. EncodeChar6(c) = c - 97 /\ c - 97 \in 0..25
      BY <1>1 DEF EncodeChar6, Lower, Upper, Digit, Dot, Underscore
    <2> QED
      BY <2>1 DEF DecodeChar6
  <1>2. CASE c \in 65..90
    <2>1. EncodeChar6(c) = c - 65 + 26 /\ c - 65 + 26 \in 26..51
      BY <1>2 DEF EncodeChar6, Lower, Upper, Digit, Dot, Underscore
    <2> QED
      BY <2>1 DEF DecodeChar6
  <1>3. CASE c \in 48..57
    <2>1. EncodeChar6(c) = c - 48 + 26 + 26 /\ c - 48 + 26 + 26 \in 52..61
      BY <1>3 DEF EncodeChar6, Lower, Upper, Digit, Dot, Underscore
    <2> QED
      BY <2>1 DEF DecodeChar6
  <1>4. CASE c = 46
    <2>1. EncodeChar6(c) = 62
      BY <1>4 DEF EncodeChar6, Lower, Upper, Digit, Dot, Underscore
    <2> QED
      BY <1>4, <2>1 DEF DecodeChar6, Dot
  <1>5. CASE c = 95
    <2>1. EncodeChar6(c) = 63
      BY <1>5 DEF EncodeChar6, Lower, Upper, Digit, Dot, Underscore
    <2> QED
      BY <1>5, <2>1 DEF DecodeChar6, Underscore
  <1> QED
    BY <1>1, <1>2, <1>3, <1>4, <1>5 DEF isChar6, Lower, Upper, Digit, Dot, Underscore

LEMMA ScalarKinds ==
    ASSUME NEW op, IsScalar(op)
    PROVE  /\ op.kind \in {"Literal", "Fixed", "VBR", "Char6"} /\ op.data \in Nat
           /\ op = [kind |-> op.kind, data |-> op.data]
           /\ op.kind = "VBR" => op.data # 1
           /\ op.kind = "Char6" => op.data = 0
  BY DEF IsScalar, Literal, Fixed, VBR, Char6

\* A scalar operand, its value and the bits of it.
LEMMA FieldOf ==
    ASSUME NEW s \in Seq(Bit), NEW op, IsScalar(op), NEW v \in Nat, Fits(op, v)
    PROVE  /\ EmitField(op, v) \in Seq(Bit)
           /\ \A p \in Nat : Has(s, p, EmitField(op, v)) =>
                               ReadField(s, p, op) = At(p + Len(EmitField(op, v)), v)
  <1>1. CASE op.kind = "Literal"
    <2>1. EmitField(op, v) = <<>> /\ v = op.data
      BY <1>1 DEF EmitField, Fits
    <2>2. \A p \in Nat : ReadField(s, p, op) = At(p, op.data)
      BY <1>1 DEF ReadField
    <2> QED
      BY <2>1, <2>2
  <1>2. CASE op.kind = "Fixed"
    <2>1. op.data \in Nat /\ EmitField(op, v) = Bits(v, op.data) /\ v < Pow2[op.data]
      BY <1>2, ScalarKinds DEF EmitField, Fits
    <2>2. \A p \in Nat : ReadField(s, p, op) = ReadBits(s, p, op.data)
      BY <1>2 DEF ReadField
    <2> DEFINE n == op.data
    <2> HIDE DEF n
    <2>3. Bits(v, n) \in Seq(Bit) /\ Len(Bits(v, n)) = n
      BY <2>1, BitsOf DEF n
    <2>4. \A p \in Nat : Has(s, p, Bits(v, n)) => ReadBits(s, p, n) = At(p + n, v)
      BY <2>1, ReadBitsOf DEF n
    <2> QED
      BY <2>1, <2>2, <2>3, <2>4 DEF n
  <1>3. CASE op.kind = "VBR" /\ op.data = 0
    <2>1. EmitField(op, v) = <<>> /\ v = 0
      BY <1>3 DEF EmitField, Fits
    <2>2. \A p \in Nat : ReadField(s, p, op) = At(p, 0)
      BY <1>3 DEF ReadField
    <2> QED
      BY <2>1, <2>2
  <1>4. CASE op.kind = "VBR" /\ op.data # 0
    <2>1. op.data \in Nat /\ op.data >= 2 /\ EmitField(op, v) = EmitVBR(v, op.data)
      BY <1>4, ScalarKinds DEF EmitField
    <2>2. \A p \in Nat : ReadField(s, p, op) = ReadVBR(s, p, op.data)
      BY <1>4 DEF ReadField
    <2> DEFINE n == op.data
    <2> HIDE DEF n
    <2>3. EmitVBR(v, n) \in Seq(Bit)
      BY <2>1, EmitVBRSteps DEF n
    <2>4. \A p \in Nat : Has(s, p, EmitVBR(v, n)) => ReadVBR(s, p, n) = At(p + Len(EmitVBR(v, n)), v)
      BY <2>1, ReadVBROf DEF n
    <2> QED
      BY <2>1, <2>2, <2>3, <2>4 DEF n
  <1>5. CASE op.kind = "Char6"
    <2> DEFINE w == EncodeChar6(v)
    <2>1. EmitField(op, v) = Bits(w, 6) /\ w \in Nat /\ w < Pow2[6] /\ DecodeChar6(w) = v
      <3>1. isChar6(v)
        BY <1>5 DEF Fits
      <3>2. w \in 0..63 /\ DecodeChar6(w) = v
        BY <3>1, Char6Of
      <3>3. EmitField(op, v) = Bits(w, 6)
        BY <1>5 DEF EmitField
      <3> HIDE DEF w
      <3> QED
        BY <3>2, <3>3, SmallPowers
    <2> HIDE DEF w
    <2>2. \A p \in Nat : ReadField(s, p, op) = At(ReadBits(s, p, 6).pos, DecodeChar6(ReadBits(s, p, 6).got))
      BY <1>5 DEF ReadField
    <2>3. \A p \in Nat : Has(s, p, Bits(w, 6)) => ReadBits(s, p, 6) = At(p + 6, w)
      BY <2>1, ReadBitsOf
    <2>4. Bits(w, 6) \in Seq(Bit) /\ Len(Bits(w, 6)) = 6
      BY <2>1, BitsOf
    <2>5. \A p \in Nat : Has(s, p, Bits(w, 6)) => ReadField(s, p, op) = At(p + 6, v)
      BY <2>1, <2>2, <2>3 DEF At
    <2> QED
      BY <2>1, <2>4, <2>5
  <1> QED
    BY <1>1, <1>2, <1>3, <1>4, <1>5, ScalarKinds

-----------------------------------------------------------------------------
\* One after the other

Joins(F, ss, n) ==
  /\ F \in [0..n -> Seq(Bit)] /\ F[0] = <<>>
  /\ \A k \in 1..n : F[k] = F[k - 1] \o ss[k]

LEMMA FlattenSteps ==
    ASSUME NEW n \in Nat, NEW ss \in [1..n -> Seq(Bit)]
    PROVE  \E F : Joins(F, ss, n) /\ FlattenSeq(ss) = F[n]
  <1> DEFINE A == Seq(Bit)
             step == [k \in 1..n |-> [e \in A |-> e \o ss[k]]]
             Rec(f) == f = [i \in 1..n |-> IF i = 1 THEN ss[i] ELSE f[i - 1] \o ss[i]]
  <1>1. Len(ss) = n /\ <<>> \in A /\ \A k \in 1..n : ss[k] \in A
    OBVIOUS
  <1>2. step \in [1..n -> [A -> A]]
    OBVIOUS
  <1>3. PICK F : Iterates(F, step, n, A, <<>>)
    <2> HIDE DEF step, A
    <2> QED
      BY <1>1, <1>2, RecursionDefines DEF Steps
  <1>4. F \in [0..n -> A] /\ F[0] = <<>>
    BY <1>3 DEF Iterates
  <1>5. ASSUME NEW k \in 1..n PROVE F[k] = F[k - 1] \o ss[k] /\ F[k - 1] \in A
    <2>1. F[k] = step[k][F[k - 1]] /\ F[k - 1] \in A
      <3> HIDE DEF step, A
      <3> QED
        BY <1>3 DEF Iterates
    <2> QED
      BY <2>1
  <1>6. CASE n = 0
    <2>1. FlattenSeq(ss) = ss /\ ss = <<>>
      BY <1>1, <1>6 DEF FlattenSeq
    <2> QED
      BY <1>4, <1>5, <1>6, <2>1 DEF Joins
  <1>7. CASE n # 0
    <2> DEFINE g == [i \in 1..n |-> F[i]]
               X == CHOOSE f : Rec(f)
    <2>1. Rec(g)
      <3>1. ASSUME NEW i \in 1..n PROVE g[i] = IF i = 1 THEN ss[i] ELSE g[i - 1] \o ss[i]
        <4>1. CASE i = 1
          <5>1. F[1] = <<>> \o ss[1]
            <6>1. 1 \in 1..n /\ 1 - 1 = 0
              BY <1>7
            <6> QED
              BY <1>4, <1>5, <6>1
          <5>2. <<>> \o ss[1] = ss[1]
            BY <1>1, <4>1
          <5> QED
            BY <4>1, <5>1, <5>2
        <4>2. CASE i # 1
          <5>1. i - 1 \in 1..n
            BY <4>2
          <5> QED
            BY <1>5, <4>2, <5>1
        <4> QED
          BY <4>1, <4>2
      <3> QED
        BY <3>1
    <2>2. FlattenSeq(ss) = X[n]
      BY <1>1, <1>7 DEF FlattenSeq
    <2>3. Rec(X)
      <3> HIDE DEF Rec, g
      <3> QED
        BY <2>1
    <2> HIDE DEF X
    <2>4. \A i \in 1..n : X[i] = IF i = 1 THEN ss[i] ELSE X[i - 1] \o ss[i]
      BY <2>3
    <2>5. \A i \in 1..n : g[i] = IF i = 1 THEN ss[i] ELSE g[i - 1] \o ss[i]
      BY <2>1
    <2> DEFINE S == {k \in Nat : k \in 1..n => X[k] = g[k]}
    <2> HIDE DEF g
    <2>6. 0 \in S
      OBVIOUS
    <2>7. ASSUME NEW k \in Nat, k \in S PROVE k + 1 \in S
      <3> SUFFICES ASSUME k + 1 \in 1..n PROVE X[k + 1] = g[k + 1]
        OBVIOUS
      <3>1. CASE k = 0
        BY <2>4, <2>5, <3>1
      <3>2. CASE k # 0
        <4>1. k \in 1..n /\ (k + 1) - 1 = k /\ k + 1 # 1
          BY <3>2
        <4>2. X[k] = g[k]
          BY <2>7, <4>1
        <4> QED
          BY <2>4, <2>5, <4>1, <4>2
      <3> QED
        BY <3>1, <3>2
    <2> HIDE DEF S
    <2>8. n \in S
      BY <2>6, <2>7, NatSetInduction
    <2>9. X[n] = F[n]
      BY <1>7, <2>8 DEF S, g
    <2> QED
      BY <1>4, <1>5, <2>2, <2>9 DEF Joins
  <1> QED
    BY <1>6, <1>7

\* What comes one after the other is where its own turn puts it.
Placed(s, p, F, ss, n) ==
  \A k \in 1..n : Has(s, p + Len(F[k - 1]), ss[k]) /\ Len(F[k]) = Len(F[k - 1]) + Len(ss[k])

LEMMA HasEach ==
    ASSUME NEW s \in Seq(Bit), NEW p \in Nat, NEW n \in Nat, NEW ss \in [1..n -> Seq(Bit)],
           NEW F, Joins(F, ss, n), Has(s, p, F[n])
    PROVE  Placed(s, p, F, ss, n)
  <1>0. F \in [0..n -> Seq(Bit)] /\ F[0] = <<>> /\ \A k \in 1..n : F[k] = F[k - 1] \o ss[k]
    BY DEF Joins
  <1> DEFINE S == {j \in Nat : j <= n => Has(s, p, F[n - j])}
  <1>1. 0 \in S
    OBVIOUS
  <1>2. ASSUME NEW k \in 1..n, Has(s, p, F[k])
        PROVE  Has(s, p, F[k - 1]) /\ Has(s, p + Len(F[k - 1]), ss[k])
    <2>0. k - 1 \in 0..n
      OBVIOUS
    <2>1. F[k] = F[k - 1] \o ss[k] /\ F[k - 1] \in Seq(Bit) /\ ss[k] \in Seq(Bit)
      BY <1>0, <2>0
    <2> QED
      BY <1>2, <2>1, HasBoth
  <1>3. ASSUME NEW j \in Nat, j \in S PROVE j + 1 \in S
    <2> SUFFICES ASSUME j + 1 <= n PROVE Has(s, p, F[n - (j + 1)])
      OBVIOUS
    <2>1. n - j \in 1..n /\ (n - j) - 1 = n - (j + 1)
      OBVIOUS
    <2>2. Has(s, p, F[n - j])
      BY <1>3
    <2>3. Has(s, p, F[(n - j) - 1])
      BY <1>2, <2>1, <2>2
    <2> QED
      BY <2>1, <2>3
  <1> HIDE DEF S
  <1>4. Nat \subseteq S
    BY <1>1, <1>3, NatSetInduction
  <1>5. \A k \in 1..n : Has(s, p, F[k])
    <2> SUFFICES ASSUME NEW k \in 1..n PROVE Has(s, p, F[k])
      OBVIOUS
    <2>1. n - k \in Nat /\ n - k <= n /\ n - (n - k) = k
      OBVIOUS
    <2> QED
      BY <1>4, <2>1 DEF S
  <1>6. \A k \in 1..n : Len(F[k]) = Len(F[k - 1]) + Len(ss[k])
    <2> SUFFICES ASSUME NEW k \in 1..n PROVE Len(F[k]) = Len(F[k - 1]) + Len(ss[k])
      OBVIOUS
    <2>0. k - 1 \in 0..n
      OBVIOUS
    <2>1. F[k] = F[k - 1] \o ss[k] /\ F[k - 1] \in Seq(Bit) /\ ss[k] \in Seq(Bit)
      BY <1>0, <2>0
    <2> QED
      BY <2>1
  <1> QED
    BY <1>2, <1>5, <1>6 DEF Placed

LEMMA FlattenPlaced ==
    ASSUME NEW s \in Seq(Bit), NEW n \in Nat, NEW ss \in [1..n -> Seq(Bit)]
    PROVE  \E F : /\ Joins(F, ss, n) /\ FlattenSeq(ss) = F[n]
                  /\ \A p \in Nat : Has(s, p, F[n]) => Placed(s, p, F, ss, n)
  <1>1. PICK F : Joins(F, ss, n) /\ FlattenSeq(ss) = F[n]
    BY FlattenSteps
  <1>2. ASSUME NEW p \in Nat, Has(s, p, F[n]) PROVE Placed(s, p, F, ss, n)
    BY <1>1, <1>2, HasEach
  <1> QED
    BY <1>1, <1>2

First(vals, n) == [k \in 1..n |-> vals[k]]

LEMMA SumsJoin ==
    ASSUME NEW a \in Nat, NEW b \in Nat, NEW c \in Nat
    PROVE  a + b \in Nat /\ (a + b) + c = a + (b + c)
  OBVIOUS

LEMMA FirstNext ==
    ASSUME NEW A, NEW vals, NEW n \in Nat, \A k \in 1..(n + 1) : vals[k] \in A
    PROVE  First(vals, n) \in Seq(A) /\ Len(First(vals, n)) = n
           /\ First(vals, n + 1) = Append(First(vals, n), vals[n + 1])
  <1> DEFINE a == First(vals, n)
             b == Append(a, vals[n + 1])
  <1>1. a \in [1..n -> A] /\ \A k \in 1..n : a[k] = vals[k]
    BY DEF First
  <1> HIDE DEF a
  <1>2. a \in Seq(A) /\ Len(a) = n
    BY <1>1
  <1>3. b = [k \in 1..(n + 1) |-> IF k = n + 1 THEN vals[n + 1] ELSE a[k]]
    BY <1>1, <1>2
  <1>4. \A k \in 1..(n + 1) : b[k] = vals[k]
    BY <1>1, <1>3
  <1> QED
    BY <1>2, <1>3, <1>4 DEF a, First

\* Fields one after the other are read back one after the other.
AllFields(ops, vals, n) == [k \in 1..n |-> EmitField(ops[k], vals[k])]

ReadsFields(s, e, ops, vals) ==
  /\ e \in Seq(Bit)
  /\ \A p \in Nat : Has(s, p, e) => ReadFields(s, p, ops) = At(p + Len(e), vals)

LEMMA FieldsOf ==
    ASSUME NEW s \in Seq(Bit), NEW n \in Nat, NEW ops, DOMAIN ops = 1..n, Len(ops) = n, NEW vals,
           \A k \in 1..n : IsScalar(ops[k]) /\ vals[k] \in Nat /\ Fits(ops[k], vals[k])
    PROVE  ReadsFields(s, FlattenSeq(AllFields(ops, vals, n)), ops, First(vals, n))
  <1> DEFINE ss == [k \in 1..n |-> EmitField(ops[k], vals[k])]
  <1>1. ss \in [1..n -> Seq(Bit)]
    BY FieldOf
  <1>2. \A k \in 1..n, p \in Nat : Has(s, p, ss[k]) => ReadField(s, p, ops[k]) = At(p + Len(ss[k]), vals[k])
    BY FieldOf
  <1> HIDE DEF ss
  <1>0. PICK F : /\ Joins(F, ss, n) /\ FlattenSeq(ss) = F[n]
                 /\ \A p \in Nat : Has(s, p, F[n]) => Placed(s, p, F, ss, n)
    BY <1>1, FlattenPlaced
  <1>3. F \in [0..n -> Seq(Bit)] /\ F[0] = <<>> /\ FlattenSeq(ss) = F[n]
    BY <1>0 DEF Joins
  <1> DEFINE e == FlattenSeq(ss)
  <1>30. e = F[n] /\ e \in Seq(Bit) /\ e = FlattenSeq(AllFields(ops, vals, n))
    BY <1>3 DEF ss, AllFields
  <1> HIDE DEF e
  <1> SUFFICES ASSUME NEW p \in Nat, Has(s, p, e)
               PROVE  ReadFields(s, p, ops) = At(p + Len(e), First(vals, n))
    BY <1>30 DEF ReadsFields
  <1>31. Has(s, p, F[n])
    BY <1>30
  <1>4. \A k \in 1..n : Has(s, p + Len(F[k - 1]), ss[k]) /\ Len(F[k]) = Len(F[k - 1]) + Len(ss[k])
    BY <1>0, <1>31 DEF Placed
  <1> DEFINE Rec(f) == f = [i \in 0..n |-> IF i = 0 THEN At(p, <<>>) ELSE AddField(s, f[i - 1], ops[i])]
             g == [i \in 0..n |-> At(p + Len(F[i]), First(vals, i))]
             X == CHOOSE f : Rec(f)
  <1>5. g[0] = At(p, <<>>)
    <2>1. First(vals, 0) = <<>> /\ Len(F[0]) = 0
      BY <1>3 DEF First
    <2> QED
      BY <2>1
  <1>6. ASSUME NEW i \in 1..n PROVE g[i] = AddField(s, g[i - 1], ops[i])
    <2> DEFINE q == p + Len(F[i - 1])
    <2>1. i - 1 \in 0..n /\ i - 1 \in Nat /\ (i - 1) + 1 = i /\ i \in 0..n
      OBVIOUS
    <2>2. F[i - 1] \in Seq(Bit) /\ F[i] \in Seq(Bit) /\ ss[i] \in Seq(Bit)
      BY <1>1, <1>3, <2>1
    <2>3. q \in Nat /\ q + Len(ss[i]) = p + Len(F[i])
      <3>1. Len(F[i]) = Len(F[i - 1]) + Len(ss[i])
        BY <1>4
      <3>2. Len(F[i - 1]) \in Nat /\ Len(ss[i]) \in Nat
        BY <2>2
      <3>3. q = p + Len(F[i - 1]) /\ q \in Nat
        BY <3>2
      <3>4. (p + Len(F[i - 1])) + Len(ss[i]) = p + (Len(F[i - 1]) + Len(ss[i]))
        BY <3>2, SumsJoin, Zenon
      <3>5. q + Len(ss[i]) = p + Len(F[i])
        BY <3>1, <3>3, <3>4
      <3> QED
        BY <3>3, <3>5
    <2>4. g[i - 1] = At(q, First(vals, i - 1)) /\ g[i] = At(q + Len(ss[i]), First(vals, i))
      BY <2>1, <2>3
    <2> HIDE DEF q, g
    <2>5. ReadField(s, q, ops[i]) = At(q + Len(ss[i]), vals[i])
      BY <1>2, <1>4, <2>3 DEF q
    <2>6. First(vals, i) = Append(First(vals, i - 1), vals[i])
      <3> DEFINE j == i - 1
      <3>1. j \in Nat /\ j + 1 = i /\ \A k \in 1..(j + 1) : vals[k] \in Nat
        OBVIOUS
      <3> HIDE DEF j
      <3>2. First(vals, j + 1) = Append(First(vals, j), vals[j + 1])
        BY <3>1, FirstNext
      <3> QED
        BY <3>1, <3>2 DEF j
    <2>7. AddField(s, At(q, First(vals, i - 1)), ops[i]) = At(q + Len(ss[i]), Append(First(vals, i - 1), vals[i]))
      <3> DEFINE x == First(vals, i - 1)
                 c == At(q, x)
      <3>1. c.pos = q /\ c.got = x
        BY DEF At
      <3>2. ReadField(s, c.pos, ops[i]).pos = q + Len(ss[i]) /\ ReadField(s, c.pos, ops[i]).got = vals[i]
        BY <2>5, <3>1 DEF At
      <3> HIDE DEF c, x
      <3>3. AddField(s, c, ops[i]) = At(q + Len(ss[i]), Append(x, vals[i]))
        BY <3>1, <3>2 DEF AddField
      <3> QED
        BY <3>3 DEF c, x
    <2> QED
      BY <2>4, <2>6, <2>7
  <1> HIDE DEF g
  <1>7. \A f : (f = g) => Rec(f)
    <2>1. g = [i \in 0..n |-> g[i]]
      BY DEF g
    <2>2. \A i \in 0..n : g[i] = IF i = 0 THEN At(p, <<>>) ELSE AddField(s, g[i - 1], ops[i])
      BY <1>5, <1>6
    <2> QED
      BY <2>1, <2>2
  <1>8. ReadFields(s, p, ops) = X[n]
    BY DEF ReadFields
  <1>9. Rec(X)
    <2> HIDE DEF Rec
    <2> QED
      BY <1>7
  <1> HIDE DEF X
  <1>10. X[0] = At(p, <<>>) /\ \A i \in 1..n : X[i] = AddField(s, X[i - 1], ops[i])
    BY <1>9
  <1> DEFINE S == {k \in Nat : k <= n => X[k] = g[k]}
  <1>11. 0 \in S
    BY <1>5, <1>10
  <1>12. ASSUME NEW k \in Nat, k \in S PROVE k + 1 \in S
    <2> SUFFICES ASSUME k + 1 <= n PROVE X[k + 1] = g[k + 1]
      OBVIOUS
    <2>1. k + 1 \in 1..n /\ (k + 1) - 1 = k
      OBVIOUS
    <2>2. X[k + 1] = AddField(s, X[k], ops[k + 1]) /\ g[k + 1] = AddField(s, g[k], ops[k + 1]) /\ X[k] = g[k]
      BY <1>6, <1>10, <1>12, <2>1
    <2> QED
      BY <2>2
  <1> HIDE DEF S
  <1>13. n \in S
    BY <1>11, <1>12, NatSetInduction
  <1>14. X[n] = g[n]
    BY <1>13 DEF S
  <1>15. g[n] = At(p + Len(F[n]), First(vals, n))
    BY DEF g
  <1> QED
    BY <1>8, <1>14, <1>15, <1>30
-----------------------------------------------------------------------------
\* Definitions of abbreviations

LEMMA KindOf ==
    ASSUME NEW k \in {"Fixed", "VBR", "Array", "Char6", "Blob"}, NEW v, v = Encoding[k]
    PROVE  /\ v \in Nat /\ v < Pow2[3]
           /\ (CHOOSE j \in DOMAIN Encoding : Encoding[j] = v) = k
  <1> DEFINE P(j) == Encoding[j] = v
             x == CHOOSE j \in DOMAIN Encoding : P(j)
  <1>1. DOMAIN Encoding = {"Fixed", "VBR", "Array", "Char6", "Blob"}
    BY DEF Encoding
  <1>2. /\ Encoding["Fixed"] = 1 /\ Encoding["VBR"] = 2 /\ Encoding["Array"] = 3
        /\ Encoding["Char6"] = 4 /\ Encoding["Blob"] = 5
    BY DEF Encoding
  <1>3. k \in DOMAIN Encoding /\ P(k)
    BY <1>1
  <1>4. \A j \in DOMAIN Encoding : P(j) => j = k
    BY <1>1, <1>2
  <1>5. x = k
    <2> HIDE DEF P
    <2>1. x \in DOMAIN Encoding /\ P(x)
      BY <1>3
    <2> HIDE DEF x
    <2> QED
      BY <1>4, <2>1
  <1> QED
    BY <1>2, <1>5, SmallPowers

IsOperand(op) == IsScalar(op) \/ op = Array \/ op = Blob

LEMMA OpOf ==
    ASSUME NEW s \in Seq(Bit), NEW op, IsOperand(op)
    PROVE  /\ EmitOp(op) \in Seq(Bit)
           /\ \A p \in Nat : Has(s, p, EmitOp(op)) => ReadOp(s, p) = At(p + Len(EmitOp(op)), op)
  <1> DEFINE d == op.data
             k == op.kind
  <1>1. /\ d \in Nat /\ k \in {"Literal", "Fixed", "VBR", "Array", "Char6", "Blob"}
        /\ op = [kind |-> k, data |-> d]
        /\ (k # "Literal" /\ ~hasEncodingData(k)) => d = 0
    <2>1. CASE IsScalar(op)
      BY <2>1, ScalarKinds DEF IsScalar, Fixed, VBR, Char6, Literal, hasEncodingData
    <2>2. CASE op = Array \/ op = Blob
      BY <2>2 DEF Array, Blob
    <2> QED
      BY <2>1, <2>2 DEF IsOperand
  <1> HIDE DEF d, k
  <1>2. CASE k = "Literal"
    <2> DEFINE a == Bits(1, 1)
               b == EmitVBR(d, 8)
    <2>1. EmitOp(op) = a \o b
      BY <1>2 DEF EmitOp, k, d
    <2>2. a \in Seq(Bit) /\ Len(a) = 1
      BY BitsOf
    <2>3. b \in Seq(Bit)
      BY <1>1, EmitVBRSteps
    <2>4. Len(a \o b) = 1 + Len(b) /\ Len(b) \in Nat
      <3> HIDE DEF a, b
      <3>1. Len(a \o b) = Len(a) + Len(b) /\ Len(b) \in Nat
        BY <2>2, <2>3, JoinLen
      <3> QED
        BY <2>2, <3>1
    <2>5. ASSUME NEW p \in Nat, Has(s, p, a \o b) PROVE ReadOp(s, p) = At(p + Len(a \o b), op)
      <3>1. Has(s, p, a) /\ Has(s, p + 1, b)
        BY <2>2, <2>3, <2>5, HasBoth
      <3>2. ReadBits(s, p, 1) = At(p + 1, 1)
        BY <3>1, ReadBitsOf, SmallPowers
      <3>3. ReadVBR(s, p + 1, 8) = At((p + 1) + Len(b), d)
        BY <1>1, <3>1, ReadVBROf
      <3> HIDE DEF a, b
      <3>4. (p + 1) + Len(b) = p + Len(a \o b)
        BY <2>4
      <3>5. ReadBits(s, p, 1).got = 1 /\ ReadBits(s, p, 1).pos = p + 1
        BY <3>2 DEF At
      <3>6. ReadVBR(s, p + 1, 8).got = d /\ ReadVBR(s, p + 1, 8).pos = p + Len(a \o b)
        BY <3>3, <3>4 DEF At
      <3>7. ReadOp(s, p) = At(ReadVBR(s, p + 1, 8).pos, [kind |-> "Literal", data |-> ReadVBR(s, p + 1, 8).got])
        BY <3>5 DEF ReadOp
      <3> QED
        BY <1>1, <1>2, <3>6, <3>7
    <2> QED
      BY <2>1, <2>2, <2>3, <2>5
  <1>3. CASE k # "Literal"
    <2> DEFINE a == Bits(0, 1)
               b == Bits(Encoding[k], 3)
               c == IF hasEncodingData(k) THEN EmitVBR(d, 5) ELSE <<>>
    <2>0. k \in {"Fixed", "VBR", "Array", "Char6", "Blob"} /\ Encoding[k] \in Nat
      BY <1>1, <1>3, KindOf
    <2>1. EmitOp(op) = (a \o b) \o c
      BY <1>3 DEF EmitOp, k, d
    <2>2. a \in Seq(Bit) /\ Len(a) = 1 /\ b \in Seq(Bit) /\ Len(b) = 3
      BY <2>0, BitsOf
    <2>3. c \in Seq(Bit)
      BY <1>1, EmitVBRSteps
    <2>4. a \o b \in Seq(Bit) /\ Len(a \o b) = 4 /\ (a \o b) \o c \in Seq(Bit)
          /\ Len((a \o b) \o c) = 4 + Len(c) /\ Len(c) \in Nat
      <3> HIDE DEF a, b, c
      <3>1. a \o b \in Seq(Bit) /\ Len(a \o b) = Len(a) + Len(b)
        BY <2>2, JoinLen
      <3>2. Len((a \o b) \o c) = Len(a \o b) + Len(c) /\ (a \o b) \o c \in Seq(Bit) /\ Len(c) \in Nat
        BY <2>3, <3>1, JoinLen
      <3> QED
        BY <2>2, <3>1, <3>2
    <2>5. ASSUME NEW p \in Nat, Has(s, p, (a \o b) \o c) PROVE ReadOp(s, p) = At(p + Len((a \o b) \o c), op)
      <3>1. Has(s, p, a \o b) /\ Has(s, p + 4, c)
        <4> HIDE DEF a, b, c
        <4> QED
          BY <2>2, <2>3, <2>4, <2>5, HasBoth
      <3>2. Has(s, p, a) /\ Has(s, p + 1, b)
        <4> HIDE DEF a, b, c
        <4> QED
          BY <2>2, <3>1, HasBoth
      <3>3. ReadBits(s, p, 1) = At(p + 1, 0)
        BY <3>2, ReadBitsOf, SmallPowers
      <3>4. ReadBits(s, p + 1, 3) = At((p + 1) + 3, Encoding[k])
        BY <2>0, <3>2, KindOf, ReadBitsOf
      <3> DEFINE data == IF hasEncodingData(k) THEN ReadVBR(s, p + 4, 5) ELSE At(p + 4, 0)
      <3>5. data = At((p + 4) + Len(c), d)
        <4>1. CASE hasEncodingData(k)
          <5>1. c = EmitVBR(d, 5)
            BY <4>1
          <5>2. Has(s, p + 4, EmitVBR(d, 5))
            BY <3>1, <5>1
          <5>3. ReadVBR(s, p + 4, 5) = At((p + 4) + Len(EmitVBR(d, 5)), d)
            BY <1>1, <5>2, ReadVBROf
          <5> QED
            BY <4>1, <5>1, <5>3
        <4>2. CASE ~hasEncodingData(k)
          <5>1. c = <<>> /\ d = 0
            BY <1>1, <1>3, <4>2
          <5> QED
            BY <4>2, <5>1
        <4> QED
          BY <4>1, <4>2
      <3> HIDE DEF a, b, c
      <3>6. (p + 4) + Len(c) = p + Len((a \o b) \o c)
        BY <2>3, <2>4, JoinLen
      <3> DEFINE lit == ReadBits(s, p, 1)
                 enc == ReadBits(s, lit.pos, 3)
                 kd == CHOOSE j \in DOMAIN Encoding : Encoding[j] = enc.got
      <3>7. lit.got = 0 /\ lit.pos = p + 1
        BY <3>3 DEF At
      <3>8. enc = At(p + 4, Encoding[k])
        BY <3>4, <3>7
      <3>9. enc.pos = p + 4 /\ enc.got = Encoding[k]
        BY <3>8 DEF At
      <3>10. kd = k
        <4> HIDE DEF enc
        <4> QED
          BY <2>0, <3>9, KindOf
      <3>11. ReadOp(s, p) = LET da == IF lit.got = 1 THEN ReadVBR(s, lit.pos, 8)
                                      ELSE IF hasEncodingData(kd) THEN ReadVBR(s, enc.pos, 5)
                                      ELSE At(enc.pos, 0)
                            IN  At(da.pos, [kind |-> IF lit.got = 1 THEN "Literal" ELSE kd, data |-> da.got])
        BY DEF ReadOp
      <3> HIDE DEF lit, enc, kd
      <3>12. ReadOp(s, p) = At(data.pos, [kind |-> k, data |-> data.got])
        BY <3>7, <3>9, <3>10, <3>11
      <3> HIDE DEF data
      <3>13. data.pos = p + Len((a \o b) \o c) /\ data.got = d
        BY <3>5, <3>6 DEF At
      <3> QED
        BY <1>1, <3>12, <3>13
    <2> QED
      BY <2>1, <2>4, <2>5
  <1> QED
    BY <1>2, <1>3
LEMMA OpsOf ==
    ASSUME NEW s \in Seq(Bit), NEW n \in Nat, NEW ops, \A k \in 1..n : IsOperand(ops[k])
    PROVE  LET e == FlattenSeq([k \in 1..n |-> EmitOp(ops[k])])
           IN  /\ e \in Seq(Bit)
               /\ \A p \in Nat : Has(s, p, e) => ReadOps(s, p, n) = At(p + Len(e), First(ops, n))
  <1> DEFINE ss == [k \in 1..n |-> EmitOp(ops[k])]
  <1>1. ss \in [1..n -> Seq(Bit)]
    BY OpOf
  <1>2. \A k \in 1..n, p \in Nat : Has(s, p, ss[k]) => ReadOp(s, p) = At(p + Len(ss[k]), ops[k])
    BY OpOf
  <1> HIDE DEF ss
  <1>0. PICK F : /\ Joins(F, ss, n) /\ FlattenSeq(ss) = F[n]
                 /\ \A p \in Nat : Has(s, p, F[n]) => Placed(s, p, F, ss, n)
    BY <1>1, FlattenPlaced
  <1>3. F \in [0..n -> Seq(Bit)] /\ F[0] = <<>> /\ FlattenSeq(ss) = F[n]
    BY <1>0 DEF Joins
  <1> DEFINE e == FlattenSeq(ss)
  <1>30. e = F[n] /\ e \in Seq(Bit) /\ e = FlattenSeq([k \in 1..n |-> EmitOp(ops[k])])
    BY <1>3 DEF ss
  <1> HIDE DEF e
  <1> SUFFICES ASSUME NEW p \in Nat, Has(s, p, e)
               PROVE  ReadOps(s, p, n) = At(p + Len(e), First(ops, n))
    BY <1>30
  <1>31. Has(s, p, F[n])
    BY <1>30
  <1>4. \A k \in 1..n : Has(s, p + Len(F[k - 1]), ss[k]) /\ Len(F[k]) = Len(F[k - 1]) + Len(ss[k])
    BY <1>0, <1>31 DEF Placed
  <1> DEFINE Rec(f) == f = [i \in 0..n |-> IF i = 0 THEN At(p, <<>>) ELSE AddOp(s, f[i - 1])]
             g == [i \in 0..n |-> At(p + Len(F[i]), First(ops, i))]
             X == CHOOSE f : Rec(f)
  <1>5. g[0] = At(p, <<>>)
    <2>1. First(ops, 0) = <<>> /\ Len(F[0]) = 0
      BY <1>3 DEF First
    <2> QED
      BY <2>1
  <1>6. ASSUME NEW i \in 1..n PROVE g[i] = AddOp(s, g[i - 1])
    <2> DEFINE q == p + Len(F[i - 1])
    <2>1. i - 1 \in 0..n /\ i - 1 \in Nat /\ (i - 1) + 1 = i /\ i \in 0..n
      OBVIOUS
    <2>2. F[i - 1] \in Seq(Bit) /\ F[i] \in Seq(Bit) /\ ss[i] \in Seq(Bit)
      BY <1>1, <1>3, <2>1
    <2>3. q \in Nat /\ q + Len(ss[i]) = p + Len(F[i])
      <3>1. Len(F[i]) = Len(F[i - 1]) + Len(ss[i])
        BY <1>4
      <3>2. Len(F[i - 1]) \in Nat /\ Len(ss[i]) \in Nat
        BY <2>2
      <3>3. q = p + Len(F[i - 1]) /\ q \in Nat
        BY <3>2
      <3>4. (p + Len(F[i - 1])) + Len(ss[i]) = p + (Len(F[i - 1]) + Len(ss[i]))
        BY <3>2, SumsJoin, Zenon
      <3>5. q + Len(ss[i]) = p + Len(F[i])
        BY <3>1, <3>3, <3>4
      <3> QED
        BY <3>3, <3>5
    <2>4. g[i - 1] = At(q, First(ops, i - 1)) /\ g[i] = At(q + Len(ss[i]), First(ops, i))
      BY <2>1, <2>3
    <2> HIDE DEF q, g
    <2>5. ReadOp(s, q) = At(q + Len(ss[i]), ops[i])
      BY <1>2, <1>4, <2>3 DEF q
    <2>6. First(ops, i) = Append(First(ops, i - 1), ops[i])
      <3> DEFINE j == i - 1
                 A == {ops[k] : k \in 1..n}
      <3>1. j \in Nat /\ j + 1 = i /\ \A k \in 1..(j + 1) : ops[k] \in A
        OBVIOUS
      <3> HIDE DEF j, A
      <3>2. First(ops, j + 1) = Append(First(ops, j), ops[j + 1])
        BY <3>1, FirstNext
      <3> QED
        BY <3>1, <3>2 DEF j
    <2>7. AddOp(s, At(q, First(ops, i - 1))) = At(q + Len(ss[i]), Append(First(ops, i - 1), ops[i]))
      <3> DEFINE x == First(ops, i - 1)
                 c == At(q, x)
      <3>1. c.pos = q /\ c.got = x
        BY DEF At
      <3>2. ReadOp(s, c.pos).pos = q + Len(ss[i]) /\ ReadOp(s, c.pos).got = ops[i]
        BY <2>5, <3>1 DEF At
      <3> HIDE DEF c, x
      <3>3. AddOp(s, c) = At(q + Len(ss[i]), Append(x, ops[i]))
        BY <3>1, <3>2 DEF AddOp
      <3> QED
        BY <3>3 DEF c, x
    <2> QED
      BY <2>4, <2>6, <2>7
  <1> HIDE DEF g
  <1>7. \A f : (f = g) => Rec(f)
    <2>1. g = [i \in 0..n |-> g[i]]
      BY DEF g
    <2>2. \A i \in 0..n : g[i] = IF i = 0 THEN At(p, <<>>) ELSE AddOp(s, g[i - 1])
      BY <1>5, <1>6
    <2> QED
      BY <2>1, <2>2
  <1>8. ReadOps(s, p, n) = X[n]
    BY DEF ReadOps
  <1>9. Rec(X)
    <2> HIDE DEF Rec
    <2> QED
      BY <1>7
  <1> HIDE DEF X
  <1>10. X[0] = At(p, <<>>) /\ \A i \in 1..n : X[i] = AddOp(s, X[i - 1])
    BY <1>9
  <1> DEFINE S == {k \in Nat : k <= n => X[k] = g[k]}
  <1>11. 0 \in S
    BY <1>5, <1>10
  <1>12. ASSUME NEW k \in Nat, k \in S PROVE k + 1 \in S
    <2> SUFFICES ASSUME k + 1 <= n PROVE X[k + 1] = g[k + 1]
      OBVIOUS
    <2>1. k + 1 \in 1..n /\ (k + 1) - 1 = k
      OBVIOUS
    <2>2. X[k + 1] = AddOp(s, X[k]) /\ g[k + 1] = AddOp(s, g[k]) /\ X[k] = g[k]
      BY <1>6, <1>10, <1>12, <2>1
    <2> QED
      BY <2>2
  <1> HIDE DEF S
  <1>13. n \in S
    BY <1>11, <1>12, NatSetInduction
  <1>14. X[n] = g[n]
    BY <1>13 DEF S
  <1>15. g[n] = At(p + Len(F[n]), First(ops, n))
    BY DEF g
  <1> QED
    BY <1>8, <1>14, <1>15, <1>30

\* The shapes of abbreviations.
LEMMA ShapeOf ==
    ASSUME NEW ops, IsAbbreviation(ops)
    PROVE  /\ ops \in Seq(Operand) /\ Len(ops) \in Nat /\ ops = First(ops, Len(ops))
           /\ Scalars(ops) \in 0..Len(ops) /\ \A k \in 1..Scalars(ops) : IsScalar(ops[k])
           /\ \/ ~HasTail(ops) /\ Scalars(ops) = Len(ops)
              \/ HasTail(ops) /\ Tail1(ops) = "Array" /\ IsScalar(ops[Len(ops)])
              \/ HasTail(ops) /\ Tail1(ops) = "Blob"
           /\ \A k \in 1..Len(ops) : IsOperand(ops[k])
  <1>1. ops \in Seq(Operand) /\ Len(ops) \in Nat /\ DOMAIN ops = 1..Len(ops)
    BY DEF IsAbbreviation
  <1>2. ops = First(ops, Len(ops))
    BY <1>1 DEF First
  <1>3. PICK n \in 0..Len(ops) :
          /\ \A i \in 1..n : IsScalar(ops[i])
          /\ \/ n = Len(ops)
             \/ n = Len(ops) - 1 /\ ops[n + 1] = Blob
             \/ n = Len(ops) - 2 /\ ops[n + 1] = Array /\ IsScalar(ops[n + 2])
    BY DEF IsAbbreviation
  <1>31. n # Len(ops) => n + 1 \in 1..Len(ops) /\ n < Len(ops)
    <2>1. \A m \in Nat : \A j \in 0..m : j # m => j + 1 \in 1..m /\ j < m
      OBVIOUS
    <2>2. n \in 0..Len(ops)
      BY <1>3
    <2> QED
      BY <1>1, <2>1, <2>2, Zenon
  <1>4. \A op : IsScalar(op) => op.kind \notin {"Array", "Blob"}
    BY ScalarKinds
  <1> DEFINE T(i) == ops[i].kind \in {"Array", "Blob"}
             tail == {i \in DOMAIN ops : T(i)}
             x == CHOOSE i \in tail : TRUE
  <1>5. Scalars(ops) = IF tail = {} THEN Len(ops) ELSE x - 1
    BY DEF Scalars
  <1>6. CASE n = Len(ops)
    <2>1. tail = {}
      BY <1>1, <1>3, <1>4, <1>6
    <2>2. Scalars(ops) = Len(ops)
      BY <1>5, <2>1
    <2>3. ~HasTail(ops)
      BY <1>1, <2>2 DEF HasTail
    <2> QED
      BY <1>1, <1>2, <1>3, <1>6, <2>2, <2>3 DEF IsOperand
  <1>7. CASE n # Len(ops)
    <2>0. n + 1 \in 1..Len(ops) /\ n < Len(ops)
      BY <1>7, <1>31
    <2>1. T(n + 1)
      <3>1. ops[n + 1] = Array \/ ops[n + 1] = Blob
        BY <1>3, <1>7
      <3> QED
        BY <3>1 DEF Array, Blob
    <2>2. \A i \in DOMAIN ops : i # n + 1 => ~T(i)
      <3> SUFFICES ASSUME NEW i \in 1..Len(ops), i # n + 1 PROVE ~T(i)
        BY <1>1
      <3>1. IsScalar(ops[i])
        <4>1. CASE i <= n
          BY <1>3, <4>1
        <4>2. CASE i > n
          BY <1>3, <1>7, <4>2
        <4> QED
          BY <4>1, <4>2
      <3> QED
        BY <1>4, <3>1
    <2>3. tail = {n + 1}
      <3> HIDE DEF T
      <3> QED
        BY <1>1, <2>0, <2>1, <2>2
    <2>4. x = n + 1
      <3> HIDE DEF tail
      <3>1. x \in tail
        BY <2>3
      <3> QED
        BY <2>3, <3>1
    <2> HIDE DEF x, tail
    <2>5. Scalars(ops) = n
      BY <1>5, <2>3, <2>4
    <2>6. HasTail(ops) /\ Tail1(ops) = ops[n + 1].kind
      BY <2>0, <2>5 DEF HasTail, Tail1
    <2>7. ASSUME NEW k \in 1..Len(ops) PROVE IsOperand(ops[k])
      <3>1. CASE k <= n
        BY <1>3, <3>1 DEF IsOperand
      <3>2. CASE k > n
        BY <1>3, <1>7, <3>2 DEF IsOperand
      <3> QED
        BY <3>1, <3>2
    <2>8. \/ Tail1(ops) = "Array" /\ IsScalar(ops[Len(ops)])
          \/ Tail1(ops) = "Blob"
      <3>1. CASE n = Len(ops) - 2 /\ ops[n + 1] = Array /\ IsScalar(ops[n + 2])
        BY <1>1, <2>6, <3>1 DEF Array
      <3>2. CASE ops[n + 1] = Blob
        BY <2>6, <3>2 DEF Blob
      <3> QED
        BY <1>3, <1>7, <3>1, <3>2
    <2> QED
      BY <1>1, <1>2, <1>3, <2>5, <2>6, <2>7, <2>8
  <1> QED
    BY <1>6, <1>7

LEMMA AbbrevOf ==
    ASSUME NEW s \in Seq(Bit), NEW ops, IsAbbreviation(ops)
    PROVE  /\ EncodeAbbrev(ops) \in Seq(Bit)
           /\ \A p \in Nat : Has(s, p, EncodeAbbrev(ops)) =>
                LET n == ReadVBR(s, p, 5)
                IN  ReadOps(s, n.pos, n.got) = At(p + Len(EncodeAbbrev(ops)), ops)
  <1> DEFINE a == EmitVBR(Len(ops), 5)
             b == FlattenSeq([i \in 1..Len(ops) |-> EmitOp(ops[i])])
  <1>1. Len(ops) \in Nat /\ \A k \in 1..Len(ops) : IsOperand(ops[k])
    BY ShapeOf
  <1>2. ops = First(ops, Len(ops))
    BY ShapeOf
  <1>3. a \in Seq(Bit) /\ \A p \in Nat : Has(s, p, a) => ReadVBR(s, p, 5) = At(p + Len(a), Len(ops))
    BY <1>1, EmitVBRSteps, ReadVBROf
  <1>4. b \in Seq(Bit) /\ \A p \in Nat : Has(s, p, b) => ReadOps(s, p, Len(ops)) = At(p + Len(b), ops)
    BY <1>1, <1>2, OpsOf
  <1>5. EncodeAbbrev(ops) = a \o b
    BY DEF EncodeAbbrev
  <1> HIDE DEF a, b
  <1>6. ASSUME NEW p \in Nat, Has(s, p, a \o b)
        PROVE  LET n == ReadVBR(s, p, 5) IN ReadOps(s, n.pos, n.got) = At(p + Len(a \o b), ops)
    <2>1. Has(s, p, a) /\ Has(s, p + Len(a), b) /\ p + Len(a) \in Nat
      BY <1>3, <1>4, <1>6, HasBoth, JoinLen
    <2>2. ReadVBR(s, p, 5).pos = p + Len(a) /\ ReadVBR(s, p, 5).got = Len(ops)
      BY <1>3, <2>1 DEF At
    <2>3. ReadOps(s, p + Len(a), Len(ops)) = At((p + Len(a)) + Len(b), ops)
      BY <1>4, <2>1
    <2>4. (p + Len(a)) + Len(b) = p + Len(a \o b)
      BY <1>3, <1>4, JoinLen
    <2> QED
      BY <2>2, <2>3, <2>4
  <1>7. a \o b \in Seq(Bit)
    BY <1>3, <1>4, JoinLen
  <1> QED
    BY <1>5, <1>6, <1>7
-----------------------------------------------------------------------------
\* Records

LEMMA Parts ==
    ASSUME NEW A, NEW vals \in Seq(A), NEW n \in 0..Len(vals)
    PROVE  /\ First(vals, Len(vals)) = vals /\ First(vals, n) = SubSeq(vals, 1, n)
           /\ SubSeq(vals, n + 1, Len(vals)) \in Seq(A)
           /\ First(vals, n) \o SubSeq(vals, n + 1, Len(vals)) = vals
  <1> DEFINE m == Len(vals)
  <1>1. m \in Nat /\ vals \in [1..m -> A]
    OBVIOUS
  <1>2. First(vals, m) = vals
    BY <1>1 DEF First
  <1>3. First(vals, n) = SubSeq(vals, 1, n)
    BY <1>1 DEF First
  <1> HIDE DEF m
  <1>4. SubSeq(vals, n + 1, m) \in Seq(A)
    <2>1. \A i \in (n + 1)..m : vals[i] \in A
      BY <1>1 DEF m
    <2>2. n + 1 \in Int /\ m \in Int
      BY <1>1 DEF m
    <2> QED
      BY <2>1, <2>2, SubSeqProperties
  <1>5. SubSeq(vals, 1, n) \o SubSeq(vals, n + 1, m) = vals
    <2>1. 1 \in 1..(Len(vals) + 1) /\ n \in (1 - 1)..Len(vals) /\ m \in n..Len(vals)
      BY <1>1 DEF m
    <2>2. SubSeq(vals, 1, n) \o SubSeq(vals, n + 1, m) = SubSeq(vals, 1, m)
      BY <2>1, ConcatAdjacentSubSeq
    <2> QED
      BY <2>2, SubSeqFull DEF m
  <1> QED
    BY <1>2, <1>3, <1>4, <1>5 DEF m

LEMMA SameFieldsOf ==
    ASSUME NEW s \in Seq(Bit), NEW op, IsScalar(op), NEW vs \in Seq(Nat),
           \A k \in 1..Len(vs) : Fits(op, vs[k])
    PROVE  ReadsFields(s, FlattenSeq([i \in 1..Len(vs) |-> EmitField(op, vs[i])]), Same(op, Len(vs)), vs)
  <1> DEFINE n == Len(vs)
             ops == Same(op, n)
  <1>1. n \in Nat /\ DOMAIN ops = 1..n /\ Len(ops) = n /\ \A k \in 1..n : ops[k] = op
    BY DEF Same
  <1>2. First(vs, n) = vs /\ \A k \in 1..n : vs[k] \in Nat
    BY DEF First
  <1>3. AllFields(ops, vs, n) = [i \in 1..n |-> EmitField(op, vs[i])]
    BY <1>1 DEF AllFields
  <1>4. \A k \in 1..n : IsScalar(ops[k]) /\ vs[k] \in Nat /\ Fits(ops[k], vs[k])
    BY <1>1, <1>2
  <1> HIDE DEF ops, n
  <1>5. ReadsFields(s, FlattenSeq(AllFields(ops, vs, n)), ops, First(vs, n))
    BY <1>1, <1>4, FieldsOf
  <1> QED
    BY <1>2, <1>3, <1>5 DEF ops, n

LEMMA ArrayOf ==
    ASSUME NEW s \in Seq(Bit), NEW elt, IsScalar(elt), NEW vs \in Seq(Nat),
           \A k \in 1..Len(vs) : Fits(elt, vs[k])
    PROVE  /\ EmitArray(elt, vs) \in Seq(Bit)
           /\ \A p \in Nat : Has(s, p, EmitArray(elt, vs)) =>
                LET c == ReadVBR(s, p, 6)
                IN  ReadFields(s, c.pos, Same(elt, c.got)) = At(p + Len(EmitArray(elt, vs)), vs)
  <1> DEFINE a == EmitVBR(Len(vs), 6)
             b == FlattenSeq([i \in 1..Len(vs) |-> EmitField(elt, vs[i])])
  <1>1. a \in Seq(Bit) /\ \A p \in Nat : Has(s, p, a) => ReadVBR(s, p, 6) = At(p + Len(a), Len(vs))
    BY EmitVBRSteps, ReadVBROf
  <1>2. b \in Seq(Bit) /\ \A p \in Nat : Has(s, p, b) => ReadFields(s, p, Same(elt, Len(vs))) = At(p + Len(b), vs)
    <2>1. ReadsFields(s, b, Same(elt, Len(vs)), vs)
      BY SameFieldsOf
    <2> HIDE DEF b
    <2> QED
      BY <2>1 DEF ReadsFields
  <1>3. EmitArray(elt, vs) = a \o b
    BY DEF EmitArray
  <1> HIDE DEF a, b
  <1>4. ASSUME NEW p \in Nat, Has(s, p, a \o b)
        PROVE  LET c == ReadVBR(s, p, 6)
               IN  ReadFields(s, c.pos, Same(elt, c.got)) = At(p + Len(a \o b), vs)
    <2>1. Has(s, p, a) /\ Has(s, p + Len(a), b) /\ p + Len(a) \in Nat
      BY <1>1, <1>2, <1>4, HasBoth, JoinLen
    <2>2. ReadVBR(s, p, 6).pos = p + Len(a) /\ ReadVBR(s, p, 6).got = Len(vs)
      BY <1>1, <2>1 DEF At
    <2>3. ReadFields(s, p + Len(a), Same(elt, Len(vs))) = At((p + Len(a)) + Len(b), vs)
      BY <1>2, <2>1
    <2>4. (p + Len(a)) + Len(b) = p + Len(a \o b)
      BY <1>1, <1>2, JoinLen
    <2> QED
      BY <2>2, <2>3, <2>4
  <1>5. a \o b \in Seq(Bit)
    BY <1>1, <1>2, JoinLen
  <1> QED
    BY <1>3, <1>4, <1>5

\* Alignment fills up the word with zeros.
LEMMA FlushOf ==
    ASSUME NEW e \in Seq(Bit)
    PROVE  \E z \in Seq(Bit) : /\ FlushToWord(e) = e \o z /\ e \o z \in Seq(Bit)
                              /\ Len(e \o z) = NextWord(Len(e))
  <1> DEFINE n == Len(e)
             k == (WordBits - (n % WordBits)) % WordBits
             z == Zeros(k)
  <1>1. n \in Nat
    OBVIOUS
  <1>2. k \in Nat /\ n + k = NextWord(n)
    <2> HIDE DEF n
    <2>1. k = (32 - (n % 32)) % 32 /\ NextWord(n) = ((n + 31) \div 32) * 32
      BY <1>1 DEF WordBits, NextWord
    <2> QED
      BY <1>1, <2>1
  <1>3. FlushToWord(e) = e \o z
    BY DEF FlushToWord
  <1> HIDE DEF k, n
  <1>4. z \in Seq(Bit) /\ Len(z) = k
    <2>1. z \in [1..k -> Bit]
      BY DEF Zeros, Bit
    <2> QED
      BY <1>2, <2>1 DEF Zeros
  <1> HIDE DEF z
  <1>5. e \o z \in Seq(Bit) /\ Len(e \o z) = n + k
    <2>1. e \o z \in Seq(Bit) /\ Len(e \o z) = Len(e) + Len(z)
      BY <1>4, JoinLen
    <2> QED
      BY <1>4, <2>1 DEF n
  <1> QED
    BY <1>2, <1>3, <1>4, <1>5 DEF n

LEMMA BlobOf ==
    ASSUME NEW s \in Seq(Bit), NEW s0 \in Seq(Bit), NEW vs \in Seq(Nat), \A k \in 1..Len(vs) : vs[k] < 256
    PROVE  /\ EmitBlob(s0, vs) \in Seq(Bit)
           /\ Has(s, 0, EmitBlob(s0, vs)) =>
                LET count == ReadVBR(s, Len(s0), 6)
                    bytes == ReadFields(s, NextWord(count.pos), Same(Byte, count.got))
                IN  /\ Has(s, 0, s0)
                    /\ At(NextWord(bytes.pos), bytes.got) = At(Len(EmitBlob(s0, vs)), vs)
  <1> DEFINE a == EmitVBR(Len(vs), 6)
             b == FlattenSeq([i \in 1..Len(vs) |-> Bits(vs[i], 8)])
             w == EmitBlob(s0, vs)
  <1>1. a \in Seq(Bit) /\ \A p \in Nat : Has(s, p, a) => ReadVBR(s, p, 6) = At(p + Len(a), Len(vs))
    BY EmitVBRSteps, ReadVBROf
  <1>2. b \in Seq(Bit) /\ \A p \in Nat : Has(s, p, b) => ReadFields(s, p, Same(Byte, Len(vs))) = At(p + Len(b), vs)
    <2>1. IsScalar(Byte)
      BY DEF IsScalar, Byte, Fixed
    <2>2. \A k \in 1..Len(vs) : Fits(Byte, vs[k])
      BY SmallPowers DEF Fits, Byte
    <2>3. \A v : EmitField(Byte, v) = Bits(v, 8)
      BY DEF EmitField, Byte
    <2>4. FlattenSeq([i \in 1..Len(vs) |-> EmitField(Byte, vs[i])]) = b
      BY <2>3
    <2>5. ReadsFields(s, b, Same(Byte, Len(vs)), vs)
      BY <2>1, <2>2, <2>4, SameFieldsOf
    <2> HIDE DEF b
    <2> QED
      BY <2>5 DEF ReadsFields
  <1>3. EmitBlob(s0, vs) = FlushToWord(FlushToWord(s0 \o a) \o b)
    BY DEF EmitBlob
  <1> HIDE DEF a, b
  <1>4. s0 \o a \in Seq(Bit)
    BY <1>1, JoinLen
  <1>5. PICK y \in Seq(Bit) : /\ FlushToWord(s0 \o a) = (s0 \o a) \o y /\ (s0 \o a) \o y \in Seq(Bit)
                              /\ Len((s0 \o a) \o y) = NextWord(Len(s0 \o a))
    BY <1>4, FlushOf
  <1> DEFINE h == (s0 \o a) \o y
  <1>6. h \in Seq(Bit) /\ Len(h) = NextWord(Len(s0 \o a)) /\ w = FlushToWord(h \o b)
    BY <1>3, <1>5
  <1> HIDE DEF w
  <1>7. h \o b \in Seq(Bit)
    <2> HIDE DEF h
    <2> QED
      BY <1>2, <1>6, JoinLen
  <1>8. PICK z \in Seq(Bit) : /\ FlushToWord(h \o b) = (h \o b) \o z /\ (h \o b) \o z \in Seq(Bit)
                              /\ Len((h \o b) \o z) = NextWord(Len(h \o b))
    <2> HIDE DEF h
    <2> QED
      BY <1>7, FlushOf
  <1>9. w = (h \o b) \o z /\ w \in Seq(Bit) /\ Len(w) = NextWord(Len(h \o b))
    BY <1>6, <1>8
  <1>10. ASSUME Has(s, 0, w)
         PROVE  LET count == ReadVBR(s, Len(s0), 6)
                    bytes == ReadFields(s, NextWord(count.pos), Same(Byte, count.got))
                IN  Has(s, 0, s0) /\ At(NextWord(bytes.pos), bytes.got) = At(Len(w), vs)
    <2>1. Has(s, 0, h \o b)
      <3> HIDE DEF h
      <3> QED
        BY <1>7, <1>9, <1>10, HasBoth
    <2>2. Has(s, 0, h) /\ Has(s, 0 + Len(h), b)
      <3> HIDE DEF h
      <3> QED
        BY <1>2, <1>6, <2>1, HasBoth
    <2>3. Has(s, 0, s0 \o a)
      BY <1>4, <2>2, HasBoth
    <2>4. Has(s, 0, s0) /\ Has(s, 0 + Len(s0), a)
      BY <1>1, <2>3, HasBoth
    <2>5. Len(s0) \in Nat /\ Len(h) \in Nat /\ 0 + Len(s0) = Len(s0) /\ 0 + Len(h) = Len(h)
      <3> HIDE DEF h
      <3> QED
        BY <1>6
    <2>6. Len(s0) + Len(a) = Len(s0 \o a) /\ Len(h) + Len(b) = Len(h \o b)
      <3> HIDE DEF h
      <3> QED
        BY <1>1, <1>2, <1>6, JoinLen
    <2>7. ReadVBR(s, Len(s0), 6) = At(Len(s0 \o a), Len(vs))
      BY <1>1, <2>4, <2>5, <2>6
    <2>8. ReadFields(s, Len(h), Same(Byte, Len(vs))) = At(Len(h \o b), vs)
      BY <1>2, <2>2, <2>5, <2>6
    <2> HIDE DEF h
    <2>9. ReadVBR(s, Len(s0), 6).pos = Len(s0 \o a) /\ ReadVBR(s, Len(s0), 6).got = Len(vs)
      BY <2>7 DEF At
    <2>10. ReadFields(s, Len(h), Same(Byte, Len(vs))).pos = Len(h \o b)
           /\ ReadFields(s, Len(h), Same(Byte, Len(vs))).got = vs
      BY <2>8 DEF At
    <2> QED
      BY <1>6, <1>9, <2>4, <2>9, <2>10
  <1> QED
    BY <1>9, <1>10 DEF w

LEMMA UnabbreviatedOf ==
    ASSUME NEW s \in Seq(Bit), NEW code \in Nat, NEW vals \in Seq(Nat)
    PROVE  /\ Unabbreviated(code, vals) \in Seq(Bit)
           /\ \A p \in Nat : Has(s, p, Unabbreviated(code, vals)) =>
                /\ Has(s, p, Bits(3, CurCodeSize))
                /\ ReadUnabbreviated(s, p + CurCodeSize) =
                     At(p + Len(Unabbreviated(code, vals)), <<code>> \o vals)
  <1> DEFINE op == [kind |-> "VBR", data |-> 6]
             a == Bits(3, CurCodeSize)
             b == EmitVBR(code, 6)
             c == EmitVBR(Len(vals), 6)
             d == FlattenSeq([i \in 1..Len(vals) |-> EmitVBR(vals[i], 6)])
             w == Unabbreviated(code, vals)
  <1>1. a \in Seq(Bit) /\ Len(a) = CurCodeSize
    BY CodeSizeAssumption, BitsOf
  <1>2. b \in Seq(Bit) /\ \A p \in Nat : Has(s, p, b) => ReadVBR(s, p, 6) = At(p + Len(b), code)
    BY EmitVBRSteps, ReadVBROf
  <1>3. c \in Seq(Bit) /\ \A p \in Nat : Has(s, p, c) => ReadVBR(s, p, 6) = At(p + Len(c), Len(vals))
    BY EmitVBRSteps, ReadVBROf
  <1>4. d \in Seq(Bit) /\ \A p \in Nat : Has(s, p, d) => ReadFields(s, p, Same(op, Len(vals))) = At(p + Len(d), vals)
    <2>1. IsScalar(op)
      BY DEF IsScalar, VBR
    <2>2. \A k \in 1..Len(vals) : Fits(op, vals[k])
      BY DEF Fits
    <2>3. \A v : EmitField(op, v) = EmitVBR(v, 6)
      BY DEF EmitField
    <2>4. FlattenSeq([i \in 1..Len(vals) |-> EmitField(op, vals[i])]) = d
      BY <2>3
    <2> HIDE DEF op
    <2>5. ReadsFields(s, d, Same(op, Len(vals)), vals)
      BY <2>1, <2>2, <2>4, SameFieldsOf
    <2> HIDE DEF d
    <2> QED
      BY <2>5 DEF ReadsFields
  <1>5. w = ((a \o b) \o c) \o d
    BY DEF Unabbreviated
  <1> HIDE DEF a, b, c, d, w
  <1>6. a \o b \in Seq(Bit) /\ (a \o b) \o c \in Seq(Bit) /\ w \in Seq(Bit)
    <2>1. a \o b \in Seq(Bit)
      BY <1>1, <1>2, JoinLen
    <2>2. (a \o b) \o c \in Seq(Bit)
      BY <1>3, <2>1, JoinLen
    <2> QED
      BY <1>4, <1>5, <2>1, <2>2, JoinLen
  <1>7. ASSUME NEW p \in Nat, Has(s, p, w)
        PROVE  Has(s, p, a) /\ ReadUnabbreviated(s, p + CurCodeSize) = At(p + Len(w), <<code>> \o vals)
    <2>1. Has(s, p, (a \o b) \o c) /\ Has(s, p + Len((a \o b) \o c), d)
      BY <1>4, <1>5, <1>6, <1>7, HasBoth
    <2>2. Has(s, p, a \o b) /\ Has(s, p + Len(a \o b), c)
      BY <1>3, <1>6, <2>1, HasBoth
    <2>3. Has(s, p, a) /\ Has(s, p + Len(a), b)
      BY <1>1, <1>2, <2>2, HasBoth
    <2>4. /\ p + Len(a) \in Nat /\ p + Len(a \o b) \in Nat /\ p + Len((a \o b) \o c) \in Nat
          /\ (p + Len(a)) + Len(b) = p + Len(a \o b)
          /\ (p + Len(a \o b)) + Len(c) = p + Len((a \o b) \o c)
          /\ (p + Len((a \o b) \o c)) + Len(d) = p + Len(w)
      <3>1. p + Len(a) \in Nat /\ (p + Len(a)) + Len(b) = p + Len(a \o b)
        BY <1>1, <1>2, JoinLen
      <3>2. p + Len(a \o b) \in Nat /\ (p + Len(a \o b)) + Len(c) = p + Len((a \o b) \o c)
        BY <1>3, <1>6, JoinLen
      <3>3. p + Len((a \o b) \o c) \in Nat /\ (p + Len((a \o b) \o c)) + Len(d) = p + Len(w)
        BY <1>4, <1>5, <1>6, JoinLen
      <3> QED
        BY <3>1, <3>2, <3>3
    <2>5. ReadVBR(s, p + Len(a), 6) = At(p + Len(a \o b), code)
      BY <1>2, <2>3, <2>4
    <2>6. ReadVBR(s, p + Len(a \o b), 6) = At(p + Len((a \o b) \o c), Len(vals))
      BY <1>3, <2>2, <2>4
    <2>7. ReadFields(s, p + Len((a \o b) \o c), Same(op, Len(vals))) = At(p + Len(w), vals)
      BY <1>4, <2>1, <2>4
    <2>8. ReadUnabbreviated(s, p + Len(a)) = At(p + Len(w), <<code>> \o vals)
      <3> DEFINE pa == p + Len(a)
                 pb == p + Len(a \o b)
                 pc == p + Len((a \o b) \o c)
                 pw == p + Len(w)
      <3>1. ReadVBR(s, pa, 6).pos = pb /\ ReadVBR(s, pa, 6).got = code
        BY <2>5 DEF At
      <3>2. ReadVBR(s, pb, 6).pos = pc /\ ReadVBR(s, pb, 6).got = Len(vals)
        BY <2>6 DEF At
      <3>3. ReadFields(s, pc, Same(op, Len(vals))).pos = pw /\ ReadFields(s, pc, Same(op, Len(vals))).got = vals
        BY <2>7 DEF At
      <3> HIDE DEF pa, pb, pc, pw
      <3>4. ReadUnabbreviated(s, pa) = At(pw, <<code>> \o vals)
        BY <3>1, <3>2, <3>3 DEF ReadUnabbreviated
      <3> QED
        BY <3>4 DEF pa, pw
    <2> QED
      BY <1>1, <2>3, <2>8
  <1> QED
    BY <1>6, <1>7 DEF a, w
MaybeBlob(blob) == blob = NoBlob \/ blob \in Seq(Nat)

\* What EmitRecordWithAbbrevImpl asserts splits a record between the scalars and the tail.
LEMMA EncodableParts ==
    ASSUME NEW ops, IsAbbreviation(ops), NEW vals \in Seq(Nat), NEW blob, MaybeBlob(blob),
           Encodable(ops, vals, blob)
    PROVE  LET n == Scalars(ops)
               rest == Rest(ops, vals, blob)
               all == IF blob = NoBlob THEN vals ELSE vals \o blob
           IN  /\ n \in 0..Len(vals)
               /\ \A k \in 1..n : IsScalar(ops[k]) /\ vals[k] \in Nat /\ Fits(ops[k], vals[k])
               /\ ~HasTail(ops) => all = First(vals, n)
               /\ HasTail(ops) =>
                    /\ rest \in Seq(Nat) /\ all = First(vals, n) \o rest
                    /\ Tail1(ops) = "Array" =>
                         IsScalar(ops[Len(ops)]) /\ \A k \in 1..Len(rest) : Fits(ops[Len(ops)], rest[k])
                    /\ Tail1(ops) # "Array" => \A k \in 1..Len(rest) : rest[k] < 256
  <1> DEFINE n == Scalars(ops)
             rest == Rest(ops, vals, blob)
             all == IF blob = NoBlob THEN vals ELSE vals \o blob
  <1>1. n \in 0..Len(ops) /\ Len(ops) \in Nat /\ \A k \in 1..n : IsScalar(ops[k])
    BY ShapeOf
  <1>2. /\ Len(vals) >= n /\ \A i \in 1..n : Fits(ops[i], vals[i])
        /\ IF HasTail(ops) THEN blob # NoBlob => Len(vals) = n ELSE blob = NoBlob /\ Len(vals) = n
        /\ HasTail(ops) =>
             \A i \in DOMAIN rest :
               IF Tail1(ops) = "Array" THEN Fits(ops[Len(ops)], rest[i]) ELSE rest[i] < 256
    BY DEF Encodable
  <1>3. rest = IF blob # NoBlob THEN blob ELSE SubSeq(vals, n + 1, Len(vals))
    BY DEF Rest
  <1>4. HasTail(ops) /\ Tail1(ops) = "Array" => IsScalar(ops[Len(ops)])
    BY ShapeOf
  <1> HIDE DEF n, rest
  <1>5. n \in 0..Len(vals) /\ n \in Nat
    BY <1>1, <1>2
  <1>6. \A k \in 1..n : IsScalar(ops[k]) /\ vals[k] \in Nat /\ Fits(ops[k], vals[k])
    BY <1>1, <1>2, <1>5
  <1>7. First(vals, Len(vals)) = vals
    <2>1. Len(vals) \in 0..Len(vals)
      OBVIOUS
    <2> QED
      BY <2>1, Parts
  <1>8. ASSUME ~HasTail(ops) PROVE all = First(vals, n)
    BY <1>2, <1>7, <1>8
  <1>9. ASSUME HasTail(ops) PROVE rest \in Seq(Nat) /\ all = First(vals, n) \o rest
    <2>1. CASE blob = NoBlob
      <3>1. rest = SubSeq(vals, n + 1, Len(vals)) /\ all = vals
        BY <1>3, <2>1
      <3>2. First(vals, n) = SubSeq(vals, 1, n) /\ rest \in Seq(Nat) /\ First(vals, n) \o rest = vals
        BY <1>5, <3>1, Parts
      <3> QED
        BY <3>1, <3>2
    <2>2. CASE blob # NoBlob
      <3>1. rest = blob /\ blob \in Seq(Nat) /\ all = vals \o blob /\ Len(vals) = n
        BY <1>2, <1>3, <1>9, <2>2 DEF MaybeBlob
      <3> QED
        BY <1>7, <3>1
    <2> QED
      BY <2>1, <2>2
  <1> HIDE DEF all
  <1>10. ASSUME HasTail(ops)
         PROVE  /\ Tail1(ops) = "Array" =>
                     IsScalar(ops[Len(ops)]) /\ \A k \in 1..Len(rest) : Fits(ops[Len(ops)], rest[k])
                /\ Tail1(ops) # "Array" => \A k \in 1..Len(rest) : rest[k] < 256
    <2>1. DOMAIN rest = 1..Len(rest)
      BY <1>9, <1>10
    <2> QED
      BY <1>2, <1>4, <1>10, <2>1
  <1> QED
    BY <1>5, <1>6, <1>8, <1>9, <1>10 DEF n, rest, all

ReadsRecord(s, s0, id, ops, w, all) ==
  /\ w \in Seq(Bit)
  /\ Has(s, 0, w) =>
       /\ Has(s, 0, s0) /\ Has(s, Len(s0), Bits(id, CurCodeSize))
       /\ ReadAbbreviated(s, Len(s0) + CurCodeSize, ops) = At(Len(w), all)

LEMMA WithAbbrevOf ==
    ASSUME NEW s \in Seq(Bit), NEW s0 \in Seq(Bit), NEW id \in Nat,
           NEW ops, IsAbbreviation(ops), NEW vals \in Seq(Nat), NEW blob, MaybeBlob(blob),
           Encodable(ops, vals, blob)
    PROVE  ReadsRecord(s, s0, id, ops, WithAbbrev(s0, id, ops, vals, blob),
                       IF blob = NoBlob THEN vals ELSE vals \o blob)
  <1> DEFINE n == Scalars(ops)
             rest == Rest(ops, vals, blob)
             all == IF blob = NoBlob THEN vals ELSE vals \o blob
             a == Bits(id, CurCodeSize)
             b == FlattenSeq([i \in 1..n |-> EmitField(ops[i], vals[i])])
             h == (s0 \o a) \o b
             w == WithAbbrev(s0, id, ops, vals, blob)
             scalars == SubSeq(ops, 1, n)
             p == Len(s0) + CurCodeSize
  <1>1. /\ n \in 0..Len(vals)
        /\ \A k \in 1..n : IsScalar(ops[k]) /\ vals[k] \in Nat /\ Fits(ops[k], vals[k])
        /\ ~HasTail(ops) => all = First(vals, n)
        /\ HasTail(ops) =>
             /\ rest \in Seq(Nat) /\ all = First(vals, n) \o rest
             /\ Tail1(ops) = "Array" =>
                  IsScalar(ops[Len(ops)]) /\ \A k \in 1..Len(rest) : Fits(ops[Len(ops)], rest[k])
             /\ Tail1(ops) # "Array" => \A k \in 1..Len(rest) : rest[k] < 256
    BY EncodableParts
  <1>2. w = IF ~HasTail(ops) THEN h
            ELSE IF Tail1(ops) = "Array" THEN h \o EmitArray(ops[Len(ops)], rest)
            ELSE EmitBlob(h, rest)
    BY DEF WithAbbrev
  <1>3. ReadAbbreviated(s, p, ops) =
          LET head == ReadFields(s, p, scalars)
          IN  IF ~HasTail(ops) THEN head
              ELSE LET tail == ReadTail(s, head.pos, ops) IN At(tail.pos, head.got \o tail.got)
    BY DEF ReadAbbreviated
  <1>4. n \in 0..Len(ops) /\ n \in Nat /\ ops \in Seq(Operand)
    BY ShapeOf
  <1>5. DOMAIN scalars = 1..n /\ Len(scalars) = n /\ \A k \in 1..n : scalars[k] = ops[k]
    <2> HIDE DEF n
    <2> QED
      BY <1>4
  <1>6. a \in Seq(Bit) /\ Len(a) = CurCodeSize
    BY CodeSizeAssumption, BitsOf
  <1>7. AllFields(scalars, vals, n) = [i \in 1..n |-> EmitField(ops[i], vals[i])]
    <2> HIDE DEF scalars, n
    <2> QED
      BY <1>5 DEF AllFields
  <1>8. ReadsFields(s, b, scalars, First(vals, n))
    <2>1. ReadsFields(s, FlattenSeq(AllFields(scalars, vals, n)), scalars, First(vals, n))
      <3> HIDE DEF scalars, n
      <3> QED
        BY <1>1, <1>4, <1>5, FieldsOf
    <2> HIDE DEF scalars, n
    <2> QED
      BY <1>7, <2>1
  <1> HIDE DEF n, rest, all, a, b, w, scalars
  <1>9. b \in Seq(Bit) /\ \A q \in Nat : Has(s, q, b) => ReadFields(s, q, scalars) = At(q + Len(b), First(vals, n))
    BY <1>8 DEF ReadsFields
  <1>10. s0 \o a \in Seq(Bit) /\ Len(s0 \o a) = p /\ p \in Nat
    <2>1. s0 \o a \in Seq(Bit) /\ Len(s0 \o a) = Len(s0) + Len(a) /\ Len(s0) \in Nat
      BY <1>6, JoinLen
    <2> QED
      BY <1>6, <2>1, CodeSizeAssumption
  <1>11. h \in Seq(Bit) /\ p + Len(b) = Len(h) /\ Len(h) \in Nat
    <2>1. h \in Seq(Bit) /\ Len(h) = Len(s0 \o a) + Len(b)
      BY <1>9, <1>10, JoinLen
    <2> HIDE DEF h, p
    <2> QED
      BY <1>10, <2>1
  <1>12. ASSUME Has(s, 0, h)
         PROVE  /\ Has(s, 0, s0) /\ Has(s, Len(s0), a)
                /\ ReadFields(s, p, scalars) = At(Len(h), First(vals, n))
    <2>1. Has(s, 0, s0 \o a) /\ Has(s, 0 + Len(s0 \o a), b)
      BY <1>9, <1>10, <1>12, HasBoth
    <2>2. Has(s, 0, s0) /\ Has(s, 0 + Len(s0), a)
      BY <1>6, <2>1, HasBoth
    <2>3. 0 + Len(s0) = Len(s0) /\ 0 + Len(s0 \o a) = p
      BY <1>10
    <2> HIDE DEF h, p
    <2>4. ReadFields(s, p, scalars) = At(p + Len(b), First(vals, n))
      BY <1>9, <1>10, <2>1, <2>3
    <2> QED
      BY <1>11, <2>2, <2>3, <2>4
  <1> HIDE DEF h, p
  <1>13. CASE ~HasTail(ops)
    <2>1. w = h
      BY <1>2, <1>13
    <2>2. ASSUME Has(s, 0, w)
          PROVE  Has(s, 0, s0) /\ Has(s, Len(s0), a) /\ ReadAbbreviated(s, p, ops) = At(Len(w), all)
      BY <1>1, <1>3, <1>12, <1>13, <2>1, <2>2
    <2> QED
      BY <1>11, <2>1, <2>2 DEF a, all, w, p, ReadsRecord
  <1>14. CASE HasTail(ops) /\ Tail1(ops) = "Array"
    <2> DEFINE elt == ops[Len(ops)]
               c == EmitArray(elt, rest)
    <2>1. w = h \o c
      BY <1>2, <1>14
    <2>2. /\ c \in Seq(Bit)
          /\ \A q \in Nat : Has(s, q, c) =>
               LET count == ReadVBR(s, q, 6)
               IN  ReadFields(s, count.pos, Same(elt, count.got)) = At(q + Len(c), rest)
      <3> HIDE DEF elt
      <3>1. IsScalar(elt) /\ rest \in Seq(Nat) /\ \A k \in 1..Len(rest) : Fits(elt, rest[k])
        BY <1>1, <1>14 DEF elt
      <3> QED
        BY <3>1, ArrayOf
    <2> HIDE DEF c
    <2>3. w \in Seq(Bit)
      BY <1>11, <2>1, <2>2, JoinLen
    <2>4. ASSUME Has(s, 0, w)
          PROVE  Has(s, 0, s0) /\ Has(s, Len(s0), a) /\ ReadAbbreviated(s, p, ops) = At(Len(w), all)
      <3>1. Has(s, 0, h) /\ Has(s, 0 + Len(h), c)
        BY <1>11, <2>1, <2>2, <2>4, HasBoth
      <3>2. 0 + Len(h) = Len(h) /\ Len(h) + Len(c) = Len(w)
        <4>1. Len(h \o c) = Len(h) + Len(c)
          BY <1>11, <2>2, JoinLen
        <4> QED
          BY <1>11, <2>1, <4>1
      <3>3. ReadTail(s, Len(h), ops) = At(Len(w), rest)
        <4>1. ReadTail(s, Len(h), ops) = LET count == ReadVBR(s, Len(h), 6)
                                         IN  ReadFields(s, count.pos, Same(elt, count.got))
          BY <1>14 DEF ReadTail
        <4> HIDE DEF elt
        <4> QED
          BY <1>11, <2>2, <3>1, <3>2, <4>1
      <3>4. ReadFields(s, p, scalars).pos = Len(h) /\ ReadFields(s, p, scalars).got = First(vals, n)
        BY <1>12, <3>1 DEF At
      <3>5. ReadTail(s, Len(h), ops).pos = Len(w) /\ ReadTail(s, Len(h), ops).got = rest
        BY <3>3 DEF At
      <3>6. ReadAbbreviated(s, p, ops) = At(Len(w), First(vals, n) \o rest)
        BY <1>3, <1>14, <3>4, <3>5
      <3> QED
        BY <1>1, <1>12, <1>14, <3>1, <3>6
    <2> QED
      BY <2>3, <2>4 DEF a, all, w, p, ReadsRecord
  <1>15. CASE HasTail(ops) /\ Tail1(ops) # "Array"
    <2>1. w = EmitBlob(h, rest)
      BY <1>2, <1>15
    <2>2. /\ w \in Seq(Bit)
          /\ Has(s, 0, w) =>
               LET count == ReadVBR(s, Len(h), 6)
                   bytes == ReadFields(s, NextWord(count.pos), Same(Byte, count.got))
               IN  Has(s, 0, h) /\ At(NextWord(bytes.pos), bytes.got) = At(Len(w), rest)
      <3>1. rest \in Seq(Nat) /\ \A k \in 1..Len(rest) : rest[k] < 256
        BY <1>1, <1>15
      <3> QED
        BY <1>11, <2>1, <3>1, BlobOf
    <2>3. ASSUME Has(s, 0, w)
          PROVE  Has(s, 0, s0) /\ Has(s, Len(s0), a) /\ ReadAbbreviated(s, p, ops) = At(Len(w), all)
      <3>1. Has(s, 0, h)
        BY <2>2, <2>3
      <3>2. ReadTail(s, Len(h), ops) = At(Len(w), rest)
        BY <1>15, <2>2, <2>3 DEF ReadTail
      <3>3. ReadFields(s, p, scalars).pos = Len(h) /\ ReadFields(s, p, scalars).got = First(vals, n)
        BY <1>12, <3>1 DEF At
      <3>4. ReadTail(s, Len(h), ops).pos = Len(w) /\ ReadTail(s, Len(h), ops).got = rest
        BY <3>2 DEF At
      <3>5. ReadAbbreviated(s, p, ops) = At(Len(w), First(vals, n) \o rest)
        BY <1>3, <1>15, <3>3, <3>4
      <3> QED
        BY <1>1, <1>12, <1>15, <3>1, <3>5
    <2> QED
      BY <2>2, <2>3 DEF a, all, w, p, ReadsRecord
  <1> QED
    BY <1>13, <1>14, <1>15
-----------------------------------------------------------------------------
\* The reader's loop

Start == [pos |-> 0, known |-> <<>>, got |-> <<>>]
Turns(f, s, n) == f = [k \in 0..n |-> IF k = 0 THEN Start ELSE ReadTurn(s, f[k - 1])]

LEMMA TurnsSteps ==
    ASSUME NEW s, NEW n \in Nat, NEW f, Turns(f, s, n)
    PROVE  f[0] = Start /\ \A k \in Nat : k + 1 <= n => f[k + 1] = ReadTurn(s, f[k])
  <1>1. \A k \in 0..n : f[k] = IF k = 0 THEN Start ELSE ReadTurn(s, f[k - 1])
    BY DEF Turns
  <1>2. ASSUME NEW k \in Nat, k + 1 <= n PROVE f[k + 1] = ReadTurn(s, f[k])
    <2>1. k + 1 \in 0..n /\ k + 1 # 0 /\ (k + 1) - 1 = k
      BY <1>2
    <2> QED
      BY <1>1, <2>1
  <1> QED
    BY <1>1, <1>2

LEMMA TurnsExist ==
    ASSUME NEW s, NEW n \in Nat
    PROVE  \E f : Turns(f, s, n)
  <1> DEFINE S == {m \in Nat : \E f : Turns(f, s, m)}
  <1>1. 0 \in S
    <2> DEFINE f == [k \in 0..0 |-> Start]
    <2>1. \A k \in 0..0 : f[k] = IF k = 0 THEN Start ELSE ReadTurn(s, f[k - 1])
      OBVIOUS
    <2>2. f = [k \in 0..0 |-> IF k = 0 THEN Start ELSE ReadTurn(s, f[k - 1])]
      BY <2>1
    <2> HIDE DEF f
    <2>3. Turns(f, s, 0)
      BY <2>2 DEF Turns
    <2> QED
      BY <2>3
  <1>2. ASSUME NEW m \in Nat, m \in S PROVE m + 1 \in S
    <2>1. PICK f : Turns(f, s, m)
      BY <1>2
    <2>2. f[0] = Start /\ \A k \in Nat : k + 1 <= m => f[k + 1] = ReadTurn(s, f[k])
      BY <2>1, TurnsSteps
    <2> DEFINE g == [k \in 0..(m + 1) |-> IF k = m + 1 THEN ReadTurn(s, f[m]) ELSE f[k]]
    <2>3. ASSUME NEW k \in 0..(m + 1) PROVE g[k] = IF k = 0 THEN Start ELSE ReadTurn(s, g[k - 1])
      <3>1. CASE k = 0
        BY <2>2, <3>1
      <3>2. CASE k = m + 1
        <4>1. k # 0 /\ k - 1 = m /\ m \in 0..(m + 1) /\ m # m + 1
          BY <3>2
        <4>2. g[k] = ReadTurn(s, f[m]) /\ g[m] = f[m]
          BY <3>2, <4>1
        <4> QED
          BY <4>1, <4>2
      <3>3. CASE k # 0 /\ k # m + 1
        <4>1. k - 1 \in Nat /\ k - 1 \in 0..(m + 1) /\ k - 1 # m + 1 /\ (k - 1) + 1 = k /\ (k - 1) + 1 <= m
          BY <3>3
        <4>2. g[k] = f[k] /\ g[k - 1] = f[k - 1]
          BY <3>3, <4>1
        <4>3. f[k] = ReadTurn(s, f[k - 1])
          BY <2>2, <4>1
        <4> QED
          BY <3>3, <4>2, <4>3
      <3> QED
        BY <3>1, <3>2, <3>3
    <2>4. g = [k \in 0..(m + 1) |-> g[k]]
      OBVIOUS
    <2> HIDE DEF g
    <2>5. Turns(g, s, m + 1)
      BY <2>3, <2>4 DEF Turns
    <2> QED
      BY <2>5
  <1> HIDE DEF S
  <1>3. n \in S
    BY <1>1, <1>2, NatSetInduction
  <1> QED
    BY <1>3 DEF S

LEMMA ReadTurnsSteps ==
    ASSUME NEW s, NEW n \in Nat
    PROVE  ReadTurns(s, 0) = Start /\ ReadTurns(s, n + 1) = ReadTurn(s, ReadTurns(s, n))
  <1> DEFINE X(m) == CHOOSE f : Turns(f, s, m)
  <1>1. \A m \in Nat : ReadTurns(s, m) = X(m)[m]
    BY DEF ReadTurns, Turns, Start
  <1>2. \A m \in Nat : Turns(X(m), s, m)
    BY TurnsExist
  <1> HIDE DEF X
  <1>3. \A m \in Nat : X(m)[0] = Start /\ \A k \in Nat : k + 1 <= m => X(m)[k + 1] = ReadTurn(s, X(m)[k])
    <2> SUFFICES ASSUME NEW m \in Nat
                 PROVE  X(m)[0] = Start /\ \A k \in Nat : k + 1 <= m => X(m)[k + 1] = ReadTurn(s, X(m)[k])
      OBVIOUS
    <2> DEFINE f == X(m)
    <2>1. Turns(f, s, m)
      BY <1>2
    <2> HIDE DEF f
    <2>2. f[0] = Start /\ \A k \in Nat : k + 1 <= m => f[k + 1] = ReadTurn(s, f[k])
      BY <2>1, TurnsSteps
    <2> QED
      BY <2>2 DEF f
  <1> DEFINE a == X(n)
             b == X(n + 1)
             S == {k \in Nat : k <= n => a[k] = b[k]}
  <1>4. a[0] = Start /\ \A k \in Nat : k + 1 <= n => a[k + 1] = ReadTurn(s, a[k])
    BY <1>3
  <1>5. b[0] = Start /\ \A k \in Nat : k + 1 <= n + 1 => b[k + 1] = ReadTurn(s, b[k])
    BY <1>3
  <1> HIDE DEF a, b
  <1>6. 0 \in S
    BY <1>4, <1>5
  <1>7. ASSUME NEW k \in Nat, k \in S PROVE k + 1 \in S
    BY <1>4, <1>5, <1>7
  <1> HIDE DEF S
  <1>8. n \in S
    BY <1>6, <1>7, NatSetInduction
  <1>9. a[n] = b[n]
    BY <1>8 DEF S
  <1>10. b[n + 1] = ReadTurn(s, b[n])
    BY <1>5
  <1>11. ReadTurns(s, n) = a[n] /\ ReadTurns(s, n + 1) = b[n + 1] /\ ReadTurns(s, 0) = X(0)[0]
    BY <1>1 DEF a, b
  <1> QED
    BY <1>3, <1>9, <1>10, <1>11

-----------------------------------------------------------------------------
\* Types

Meaning == [define : Abbreviations] \cup [record : Seq(Nat)]

LEMMA CodesFit ==
    \A v \in 0..3 : v < Pow2[CurCodeSize]
  <1>1. CurCodeSize \in Nat /\ CurCodeSize >= 2
    BY CodeSizeAssumption
  <1> QED
    BY <1>1, Chunk

\* The items of the stream, each with the bits it adds: for every sequence s of bits that begins
\* with the stream after the step, what one turn of the reader does where the stream ended.
Adds(next, item, ops) ==
  /\ next \in Seq(Bit)
  /\ \A s \in Seq(Bit) : Has(s, 0, next) =>
       /\ Has(s, 0, stream) /\ Len(stream) < Len(s)
       /\ \A c : (c.pos = Len(stream) /\ c.known = CurAbbrevs) =>
            ReadItem(s, c) = [pos |-> Len(next), known |-> ops, got |-> Append(c.got, item)]

\* A code is there, and the reader reads it.
LEMMA CodeOf ==
    ASSUME NEW s \in Seq(Bit), NEW p \in Nat, NEW v \in Nat, v < Pow2[CurCodeSize],
           Has(s, p, Bits(v, CurCodeSize))
    PROVE  /\ p < Len(s) /\ ReadBits(s, p, CurCodeSize).got = v
           /\ ReadBits(s, p, CurCodeSize).pos = p + CurCodeSize
  <1>1. CurCodeSize \in Nat /\ CurCodeSize >= 2
    BY CodeSizeAssumption
  <1>2. Len(Bits(v, CurCodeSize)) = CurCodeSize
    BY <1>1, BitsOf
  <1>3. ReadBits(s, p, CurCodeSize) = At(p + CurCodeSize, v)
    BY <1>1, ReadBitsOf
  <1> QED
    BY <1>1, <1>2, <1>3 DEF Has, At

LEMMA AbbrevAdds ==
    ASSUME stream \in Seq(Bit), NEW ops \in Abbreviations
    PROVE  Adds(stream \o Bits(DEFINE_ABBREV, CurCodeSize) \o EncodeAbbrev(ops),
                [define |-> ops], Append(CurAbbrevs, ops))
  <1> DEFINE a == Bits(DEFINE_ABBREV, CurCodeSize)
             b == EncodeAbbrev(ops)
             w == (stream \o a) \o b
  <1>0. IsAbbreviation(ops)
    BY AbbreviationsAssumption
  <1>1. a \in Seq(Bit) /\ Len(a) = CurCodeSize /\ CurCodeSize \in Nat
    BY CodeSizeAssumption, BitsOf DEF DEFINE_ABBREV
  <1>2. b \in Seq(Bit)
    <2>1. <<>> \in Seq(Bit)
      OBVIOUS
    <2> QED
      BY <1>0, <2>1, AbbrevOf
  <1>3. \A s \in Seq(Bit), p \in Nat : Has(s, p, b) =>
          LET n == ReadVBR(s, p, 5) IN ReadOps(s, n.pos, n.got) = At(p + Len(b), ops)
    BY <1>0, AbbrevOf
  <1>4. stream \o a \in Seq(Bit) /\ w \in Seq(Bit)
    <2> HIDE DEF a, b
    <2>1. stream \o a \in Seq(Bit)
      BY <1>1, JoinLen
    <2> QED
      BY <1>2, <2>1, JoinLen
  <1> DEFINE P == Len(stream) + CurCodeSize
  <1>5. P \in Nat /\ Len(stream \o a) = P /\ P + Len(b) = Len(w) /\ Len(stream) \in Nat
    <2> HIDE DEF a, b
    <2>1. Len(stream \o a) = Len(stream) + Len(a) /\ Len(stream) \in Nat
      BY <1>1, JoinLen
    <2>2. Len(w) = Len(stream \o a) + Len(b)
      BY <1>2, <1>4, JoinLen
    <2> HIDE DEF w
    <2> QED
      BY <1>1, <2>1, <2>2
  <1> HIDE DEF b, P
  <1>6. ASSUME NEW s \in Seq(Bit), Has(s, 0, w)
        PROVE  /\ Has(s, 0, stream) /\ Len(stream) < Len(s)
               /\ \A c : (c.pos = Len(stream) /\ c.known = CurAbbrevs) =>
                    ReadItem(s, c) = [pos |-> Len(w), known |-> Append(CurAbbrevs, ops),
                                      got |-> Append(c.got, [define |-> ops])]
    <2>1. Has(s, 0, stream \o a) /\ Has(s, 0 + Len(stream \o a), b)
      BY <1>2, <1>4, <1>6, HasBoth
    <2>2. Has(s, 0, stream) /\ Has(s, 0 + Len(stream), a)
      BY <1>1, <2>1, HasBoth
    <2>3. Has(s, Len(stream), a) /\ Has(s, P, b)
      <3>1. 0 + Len(stream) = Len(stream) /\ 0 + Len(stream \o a) = P
        BY <1>5
      <3> QED
        BY <2>1, <2>2, <3>1
    <2>4. /\ Len(stream) < Len(s) /\ ReadBits(s, Len(stream), CurCodeSize).got = DEFINE_ABBREV
          /\ ReadBits(s, Len(stream), CurCodeSize).pos = P
      <3>1. DEFINE_ABBREV \in Nat /\ DEFINE_ABBREV < Pow2[CurCodeSize]
        BY CodesFit DEF DEFINE_ABBREV
      <3> QED
        BY <1>5, <2>3, <3>1, CodeOf DEF P
    <2> HIDE DEF a, w
    <2> DEFINE n == ReadVBR(s, P, 5)
               r == ReadOps(s, n.pos, n.got)
    <2>5. r.pos = Len(w) /\ r.got = ops
      <3>1. r = At(P + Len(b), ops)
        BY <1>3, <1>5, <2>3
      <3> HIDE DEF r
      <3>2. r = At(Len(w), ops)
        BY <1>5, <3>1
      <3> QED
        BY <3>2 DEF At
    <2>6. ASSUME NEW c, c.pos = Len(stream) /\ c.known = CurAbbrevs
          PROVE  ReadItem(s, c) = [pos |-> Len(w), known |-> Append(CurAbbrevs, ops),
                                   got |-> Append(c.got, [define |-> ops])]
      <3>1. ReadItem(s, c) = [pos |-> r.pos, known |-> Append(c.known, r.got),
                              got |-> Append(c.got, [define |-> r.got])]
        BY <2>4, <2>6 DEF ReadItem
      <3> HIDE DEF r
      <3> QED
        BY <2>5, <2>6, <3>1
    <2> QED
      BY <2>2, <2>4, <2>6
  <1> QED
    BY <1>4, <1>6 DEF Adds, b

LEMMA PlainAdds ==
    ASSUME stream \in Seq(Bit), NEW code \in Nat, NEW vals \in Seq(Nat)
    PROVE  Adds(stream \o Unabbreviated(code, vals), [record |-> <<code>> \o vals], CurAbbrevs)
  <1> DEFINE u == Unabbreviated(code, vals)
             a == Bits(3, CurCodeSize)
             w == stream \o u
             all == <<code>> \o vals
  <1>1. u \in Seq(Bit)
    <2>1. <<>> \in Seq(Bit)
      OBVIOUS
    <2> QED
      BY <2>1, UnabbreviatedOf
  <1>2. \A s \in Seq(Bit), p \in Nat : Has(s, p, u) =>
          Has(s, p, a) /\ ReadUnabbreviated(s, p + CurCodeSize) = At(p + Len(u), all)
    BY UnabbreviatedOf
  <1> HIDE DEF u, a
  <1>3. w \in Seq(Bit) /\ Len(w) = Len(stream) + Len(u) /\ Len(stream) \in Nat
    BY <1>1, JoinLen
  <1> HIDE DEF all
  <1>4. ASSUME NEW s \in Seq(Bit), Has(s, 0, w)
        PROVE  /\ Has(s, 0, stream) /\ Len(stream) < Len(s)
               /\ \A c : (c.pos = Len(stream) /\ c.known = CurAbbrevs) =>
                    ReadItem(s, c) = [pos |-> Len(w), known |-> CurAbbrevs,
                                      got |-> Append(c.got, [record |-> all])]
    <2>1. Has(s, 0, stream) /\ Has(s, 0 + Len(stream), u)
      BY <1>1, <1>4, HasBoth
    <2>2. Has(s, Len(stream), u)
      <3>1. 0 + Len(stream) = Len(stream)
        BY <1>3
      <3> QED
        BY <2>1, <3>1
    <2> HIDE DEF w
    <2>3. Has(s, Len(stream), a) /\ ReadUnabbreviated(s, Len(stream) + CurCodeSize) = At(Len(w), all)
      BY <1>2, <1>3, <2>2
    <2>4. /\ Len(stream) < Len(s) /\ ReadBits(s, Len(stream), CurCodeSize).got = 3
          /\ ReadBits(s, Len(stream), CurCodeSize).pos = Len(stream) + CurCodeSize
      BY <1>3, <2>3, CodesFit, CodeOf DEF a
    <2> DEFINE r == ReadUnabbreviated(s, Len(stream) + CurCodeSize)
    <2>5. r.pos = Len(w) /\ r.got = all
      BY <2>3 DEF At
    <2>6. ASSUME NEW c, c.pos = Len(stream) /\ c.known = CurAbbrevs
          PROVE  ReadItem(s, c) = [pos |-> Len(w), known |-> CurAbbrevs, got |-> Append(c.got, [record |-> all])]
      <3>1. 3 # DEFINE_ABBREV /\ 3 < FIRST_APPLICATION_ABBREV
        BY DEF DEFINE_ABBREV, FIRST_APPLICATION_ABBREV
      <3>2. ReadItem(s, c) = [pos |-> r.pos, known |-> c.known, got |-> Append(c.got, [record |-> r.got])]
        BY <2>4, <2>6, <3>1 DEF ReadItem
      <3> HIDE DEF r
      <3> QED
        BY <2>5, <2>6, <3>2
    <2> QED
      BY <2>1, <2>4, <2>6
  <1> QED
    BY <1>3, <1>4 DEF Adds, u, all

LEMMA RecordAdds ==
    ASSUME stream \in Seq(Bit), CurAbbrevs \in Seq(Abbreviations), NEW i \in DOMAIN CurAbbrevs,
           i - 1 + FIRST_APPLICATION_ABBREV < Pow2[CurCodeSize],
           NEW vals \in Seq(Nat), NEW blob, MaybeBlob(blob), Encodable(CurAbbrevs[i], vals, blob)
    PROVE  Adds(WithAbbrev(stream, i - 1 + FIRST_APPLICATION_ABBREV, CurAbbrevs[i], vals, blob),
                [record |-> IF blob = NoBlob THEN vals ELSE vals \o blob], CurAbbrevs)
  <1> DEFINE id == i - 1 + FIRST_APPLICATION_ABBREV
             ops == CurAbbrevs[i]
             w == WithAbbrev(stream, id, ops, vals, blob)
             all == IF blob = NoBlob THEN vals ELSE vals \o blob
             a == Bits(id, CurCodeSize)
  <1>1. ops \in Abbreviations /\ IsAbbreviation(ops) /\ i \in Nat /\ i > 0
    BY AbbreviationsAssumption
  <1>2. id \in Nat /\ id >= 4 /\ id - 4 + 1 = i /\ id < Pow2[CurCodeSize]
    BY <1>1 DEF FIRST_APPLICATION_ABBREV
  <1> HIDE DEF id, ops
  <1>3. Encodable(ops, vals, blob)
    BY DEF ops
  <1>4. \A s \in Seq(Bit) : ReadsRecord(s, stream, id, ops, w, all)
    <2> SUFFICES ASSUME NEW s \in Seq(Bit)
                 PROVE  ReadsRecord(s, stream, id, ops, w, all)
      OBVIOUS
    <2> QED
      BY <1>1, <1>2, <1>3, WithAbbrevOf
  <1>5. w \in Seq(Bit)
    <2>1. <<>> \in Seq(Bit)
      OBVIOUS
    <2> QED
      BY <1>4, <2>1 DEF ReadsRecord
  <1> HIDE DEF w, all
  <1>6. ASSUME NEW s \in Seq(Bit), Has(s, 0, w)
        PROVE  /\ Has(s, 0, stream) /\ Len(stream) < Len(s)
               /\ \A c : (c.pos = Len(stream) /\ c.known = CurAbbrevs) =>
                    ReadItem(s, c) = [pos |-> Len(w), known |-> CurAbbrevs,
                                      got |-> Append(c.got, [record |-> all])]
    <2>1. /\ Has(s, 0, stream) /\ Has(s, Len(stream), a)
          /\ ReadAbbreviated(s, Len(stream) + CurCodeSize, ops) = At(Len(w), all)
      BY <1>4, <1>6 DEF ReadsRecord
    <2>2. /\ Len(stream) < Len(s) /\ ReadBits(s, Len(stream), CurCodeSize).got = id
          /\ ReadBits(s, Len(stream), CurCodeSize).pos = Len(stream) + CurCodeSize
      <3>1. Len(stream) \in Nat
        OBVIOUS
      <3> QED
        BY <1>2, <2>1, <3>1, CodeOf DEF a
    <2> DEFINE r == ReadAbbreviated(s, Len(stream) + CurCodeSize, ops)
    <2>3. r.pos = Len(w) /\ r.got = all
      BY <2>1 DEF At
    <2>4. ASSUME NEW c, c.pos = Len(stream) /\ c.known = CurAbbrevs
          PROVE  ReadItem(s, c) = [pos |-> Len(w), known |-> CurAbbrevs, got |-> Append(c.got, [record |-> all])]
      <3>1. id # DEFINE_ABBREV /\ ~(id < FIRST_APPLICATION_ABBREV)
            /\ c.known[id - FIRST_APPLICATION_ABBREV + 1] = ops
        BY <1>2, <2>4 DEF DEFINE_ABBREV, FIRST_APPLICATION_ABBREV, ops
      <3>2. ReadItem(s, c) = [pos |-> r.pos, known |-> c.known, got |-> Append(c.got, [record |-> r.got])]
        BY <2>2, <2>4, <3>1 DEF ReadItem
      <3> HIDE DEF r
      <3> QED
        BY <2>3, <2>4, <3>2
    <2> QED
      BY <2>1, <2>2, <2>4
  <1> QED
    BY <1>5, <1>6 DEF Adds, w, all, id, ops

-----------------------------------------------------------------------------
\* The invariant

Read == \A s \in Seq(Bit) :
          Has(s, 0, stream) =>
            ReadTurns(s, Len(meant)) = [pos |-> Len(stream), known |-> CurAbbrevs, got |-> meant]

\* What every step does: it adds an item's bits, and the item to what is meant.
Item(item) ==
  /\ Adds(stream', item, CurAbbrevs') /\ item \in Meaning
  /\ Len(meant) < MaxItems /\ meant' = Append(meant, item)
  /\ CurAbbrevs' = CurAbbrevs \/ \E ops \in Abbreviations : CurAbbrevs' = Append(CurAbbrevs, ops)

LEMMA StepsAreItems ==
    ASSUME TypeOK, Next
    PROVE  \E item : Item(item)
  <1>1. stream \in Seq(Bit) /\ CurAbbrevs \in Seq(Abbreviations)
    BY DEF TypeOK, Bit
  <1>2. CASE \E ops \in Abbreviations : EmitAbbrev(ops)
    <2>1. PICK ops \in Abbreviations : EmitAbbrev(ops)
      BY <1>2
    <2>2. [define |-> ops] \in Meaning
      BY DEF Meaning
    <2>3. Adds(stream', [define |-> ops], CurAbbrevs')
      BY <1>1, <2>1, AbbrevAdds DEF EmitAbbrev
    <2>4. Item([define |-> ops])
      BY <2>1, <2>2, <2>3 DEF EmitAbbrev, Item
    <2> QED
      BY <2>4
  <1>3. CASE \E r \in Plain : EmitRecord(r.code, r.vals)
    <2>1. PICK r \in Plain : EmitRecord(r.code, r.vals)
      BY <1>3
    <2>2. r.code \in Nat /\ r.vals \in Seq(Nat)
      BY RecordsAssumption
    <2>3. <<r.code>> \o r.vals \in Seq(Nat)
      BY <2>2
    <2>4. [record |-> <<r.code>> \o r.vals] \in Meaning
      BY <2>3 DEF Meaning
    <2>5. Adds(stream', [record |-> <<r.code>> \o r.vals], CurAbbrevs')
      BY <1>1, <2>1, <2>2, PlainAdds DEF EmitRecord
    <2>6. Item([record |-> <<r.code>> \o r.vals])
      BY <2>1, <2>4, <2>5 DEF EmitRecord, Item
    <2> QED
      BY <2>6
  <1>4. CASE \E i \in DOMAIN CurAbbrevs, r \in Records : EmitRecordWithAbbrev(i, r.vals, r.blob)
    <2>1. PICK i \in DOMAIN CurAbbrevs, r \in Records : EmitRecordWithAbbrev(i, r.vals, r.blob)
      BY <1>4
    <2> DEFINE vals == r.vals
               blob == r.blob
               all == IF blob = NoBlob THEN vals ELSE vals \o blob
    <2>2. vals \in Seq(Nat) /\ MaybeBlob(blob)
      BY RecordsAssumption DEF MaybeBlob
    <2>20. EmitRecordWithAbbrev(i, vals, blob)
      BY <2>1
    <2> HIDE DEF vals, blob
    <2>3. all \in Seq(Nat)
      BY <2>2 DEF MaybeBlob
    <2>4. [record |-> all] \in Meaning
      BY <2>3 DEF Meaning
    <2>5. /\ Len(meant) < MaxItems /\ meant' = Append(meant, [record |-> all]) /\ CurAbbrevs' = CurAbbrevs
          /\ i - 1 + FIRST_APPLICATION_ABBREV < Pow2[CurCodeSize] /\ Encodable(CurAbbrevs[i], vals, blob)
          /\ stream' = WithAbbrev(stream, i - 1 + FIRST_APPLICATION_ABBREV, CurAbbrevs[i], vals, blob)
      BY <2>20 DEF EmitRecordWithAbbrev
    <2>6. Adds(stream', [record |-> all], CurAbbrevs')
      BY <1>1, <2>2, <2>5, RecordAdds
    <2> HIDE DEF all
    <2>7. Item([record |-> all])
      BY <2>4, <2>5, <2>6 DEF Item
    <2> QED
      BY <2>7
  <1> QED
    BY <1>2, <1>3, <1>4 DEF Next

LEMMA TypeKept ==
    ASSUME TypeOK, NEW item, Item(item)
    PROVE  TypeOK' /\ Len(meant') = Len(meant) + 1
  <1>1. /\ stream \in Seq(Bit) /\ CurAbbrevs \in Seq(Abbreviations) /\ Len(CurAbbrevs) =< Len(meant)
        /\ meant \in Seq(Meaning) /\ Len(meant) =< MaxItems
    BY DEF TypeOK, Bit, Meaning
  <1>2. stream' \in Seq(Bit) /\ item \in Meaning /\ Len(meant) < MaxItems /\ meant' = Append(meant, item)
    BY DEF Item, Adds
  <1>3. meant' \in Seq(Meaning) /\ Len(meant') = Len(meant) + 1 /\ Len(meant) \in Nat
    BY <1>1, <1>2
  <1>4. CurAbbrevs' \in Seq(Abbreviations) /\ Len(CurAbbrevs') \in {Len(CurAbbrevs), Len(CurAbbrevs) + 1}
    <2>1. CASE CurAbbrevs' = CurAbbrevs
      BY <1>1, <2>1
    <2>2. CASE \E ops \in Abbreviations : CurAbbrevs' = Append(CurAbbrevs, ops)
      BY <1>1, <2>2
    <2> QED
      BY <2>1, <2>2 DEF Item
  <1>5. Len(meant') =< MaxItems /\ Len(CurAbbrevs') =< Len(meant')
    <2>1. Len(CurAbbrevs) \in Nat
      BY <1>1
    <2> QED
      BY <1>1, <1>2, <1>3, <1>4, <2>1, MaxAssumption
  <1> QED
    BY <1>2, <1>3, <1>4, <1>5 DEF TypeOK, Bit, Meaning

LEMMA ReadKept ==
    ASSUME TypeOK, Read, NEW item, Item(item)
    PROVE  Read'
  <1>1. Len(meant') = Len(meant) + 1 /\ Len(meant) \in Nat
    BY TypeKept DEF TypeOK
  <1>2. Adds(stream', item, CurAbbrevs') /\ meant' = Append(meant, item)
    BY DEF Item
  <1> SUFFICES ASSUME NEW s \in Seq(Bit), Has(s, 0, stream')
               PROVE  ReadTurns(s, Len(meant')) = [pos |-> Len(stream'), known |-> CurAbbrevs', got |-> meant']
    BY DEF Read
  <1> DEFINE c == [pos |-> Len(stream), known |-> CurAbbrevs, got |-> meant]
  <1>3. Has(s, 0, stream) /\ Len(stream) < Len(s)
    BY <1>2 DEF Adds
  <1>4. ReadTurns(s, Len(meant)) = c
    BY <1>3 DEF Read
  <1>5. ReadItem(s, c) = [pos |-> Len(stream'), known |-> CurAbbrevs', got |-> Append(meant, item)]
    <2>1. c.pos = Len(stream) /\ c.known = CurAbbrevs /\ c.got = meant
      OBVIOUS
    <2> HIDE DEF c
    <2> QED
      BY <1>2, <2>1 DEF Adds
  <1>6. ReadTurn(s, c) = ReadItem(s, c)
    <2>1. ~(c.pos >= Len(s))
      <3>1. Len(stream) \in Nat /\ Len(s) \in Nat
        BY DEF TypeOK
      <3> QED
        BY <1>3, <3>1
    <2> HIDE DEF c
    <2> QED
      BY <2>1 DEF ReadTurn
  <1> HIDE DEF c
  <1>7. ReadTurns(s, Len(meant) + 1) = ReadTurn(s, ReadTurns(s, Len(meant)))
    BY <1>1, ReadTurnsSteps
  <1> QED
    BY <1>1, <1>2, <1>4, <1>5, <1>6, <1>7

LEMMA InitRead == Init => TypeOK /\ Read
  <1> SUFFICES ASSUME Init PROVE TypeOK /\ Read
    OBVIOUS
  <1>1. stream = <<>> /\ CurAbbrevs = <<>> /\ meant = <<>>
    BY DEF Init
  <1>2. TypeOK
    <2>1. Len(meant) = 0 /\ Len(CurAbbrevs) = 0 /\ \A A : <<>> \in Seq(A)
      BY <1>1
    <2> QED
      BY <1>1, <2>1, MaxAssumption DEF TypeOK
  <1>3. Read
    <2> SUFFICES ASSUME NEW s \in Seq(Bit)
                 PROVE  ReadTurns(s, Len(meant)) = [pos |-> Len(stream), known |-> CurAbbrevs, got |-> meant]
      BY DEF Read
    <2>1. Len(meant) = 0 /\ Len(stream) = 0
      BY <1>1
    <2>2. ReadTurns(s, 0) = Start
      BY ReadTurnsSteps
    <2> QED
      BY <1>1, <2>1, <2>2 DEF Start
  <1> QED
    BY <1>2, <1>3

LEMMA ReadInv == Spec => [](TypeOK /\ Read)
  <1>1. TypeOK /\ Read /\ [Next]_vars => (TypeOK /\ Read)'
    <2> SUFFICES ASSUME TypeOK, Read, [Next]_vars PROVE (TypeOK /\ Read)'
      OBVIOUS
    <2>1. CASE Next
      BY <2>1, StepsAreItems, TypeKept, ReadKept
    <2>2. CASE UNCHANGED vars
      BY <2>2 DEF vars, TypeOK, Read
    <2> QED
      BY <2>1, <2>2
  <1> QED
    BY <1>1, InitRead, PTL DEF Spec

-----------------------------------------------------------------------------
\* The stream is bits, and the block knows no other abbreviations than a caller may define, nor
\* more of them than were meant: EmitAbbrev and the record emitters of
\* encoder/BitstreamWriter.h.
THEOREM AbbrevRecordsTypes == Spec => []TypeOK
  BY ReadInv, PTL

\* Every abbreviation and every record is read back as it was meant, and after as many turns the
\* reader is where the writer ended: EncodeAbbrev, EmitRecord and EmitRecordWithAbbrevImpl of
\* encoder/BitstreamWriter.h, for all abbreviations, records and widths of the block's codes.
THEOREM RecordsReadBack == Spec => []RoundTrip
  <1>1. TypeOK /\ Read => RoundTrip
    <2> SUFFICES ASSUME TypeOK, Read PROVE RoundTrip
      OBVIOUS
    <2>1. stream \in Seq(Bit)
      BY DEF TypeOK, Bit
    <2>2. Has(stream, 0, stream)
      <3>1. Len(stream) \in Nat
        BY <2>1
      <3> QED
        BY <3>1 DEF Has
    <2> QED
      BY <2>1, <2>2 DEF Read, RoundTrip
  <1> QED
    BY <1>1, ReadInv, PTL
=============================================================================
