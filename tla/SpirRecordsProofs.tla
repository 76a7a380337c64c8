-------------------------- MODULE SpirRecordsProofs --------------------------
(***************************************************************************)
(* What the reader makes of the records of a module, block by block: given *)
(* what LLVM's verifier lets through, reading the items of each block      *)
(* leaves the part of the module they were written from.  A reader is a    *)
(* record and what it does is to set fields of it, so what is proved of    *)
(* each block is which fields reading it sets, and to what.                *)
(***************************************************************************)
EXTENDS VerifiedModules, RecursionLemmas, FiniteSetTheorems, SequenceTheorems

Elements(s) == {s[k] : k \in 1..Len(s)}

LEMMA SeqShape ==
    ASSUME NEW s, IsSeq(s)
    PROVE  s \in Seq(Elements(s)) /\ DOMAIN s = 1..Len(s) /\ Len(s) \in Nat
  <1> DEFINE n == Len(s)
             A == Elements(s)
  <1>1. n \in Nat /\ s = [k \in 1..n |-> s[k]]
    BY DEF IsSeq
  <1>2. \A k \in 1..n : s[k] \in A
    BY DEF Elements
  <1> HIDE DEF n, A
  <1>3. s \in [1..n -> A]
    BY <1>1, <1>2
  <1> QED
    BY <1>1, <1>3 DEF n, A

LEMMA SeqIs ==
    ASSUME NEW A, NEW s \in Seq(A)
    PROVE  IsSeq(s) /\ DOMAIN s = 1..Len(s) /\ Len(s) \in Nat
  BY DEF IsSeq

LEMMA TabulatedSeq ==
    ASSUME NEW n \in Nat, NEW s, DOMAIN s = 1..n, s = [k \in 1..n |-> s[k]]
    PROVE  IsSeq(s) /\ Len(s) = n
  <1> DEFINE A == {s[k] : k \in 1..n}
  <1>1. \A k \in 1..n : s[k] \in A
    OBVIOUS
  <1> HIDE DEF A
  <1>2. s \in [1..n -> A]
    BY <1>1
  <1>3. s \in Seq(A) /\ Len(s) = n
    BY <1>2
  <1> QED
    BY <1>3 DEF IsSeq

LEMMA JoinShape ==
    ASSUME NEW s, NEW t, IsSeq(s), IsSeq(t)
    PROVE  /\ IsSeq(s \o t) /\ Len(s \o t) = Len(s) + Len(t)
           /\ \A k \in 1..Len(s) : (s \o t)[k] = s[k]
           /\ \A k \in 1..Len(t) : (s \o t)[Len(s) + k] = t[k]
  <1> DEFINE A == Elements(s) \cup Elements(t)
  <1>1. s \in Seq(Elements(s)) /\ t \in Seq(Elements(t))
    BY SeqShape
  <1>2. s \in Seq(A) /\ t \in Seq(A)
    <2>1. Elements(s) \subseteq A /\ Elements(t) \subseteq A
      OBVIOUS
    <2> HIDE DEF A
    <2> QED
      BY <1>1, <2>1
  <1> HIDE DEF A
  <1>3. s \o t \in Seq(A) /\ Len(s) \in Nat /\ Len(t) \in Nat /\ Len(s \o t) = Len(s) + Len(t)
    BY <1>2
  <1>4. ASSUME NEW k \in 1..Len(s) PROVE (s \o t)[k] = s[k]
    BY <1>2, <1>3
  <1>5. ASSUME NEW k \in 1..Len(t) PROVE (s \o t)[Len(s) + k] = t[k]
    BY <1>2, <1>3
  <1>6. IsSeq(s \o t)
    BY <1>3, SeqIs
  <1> QED
    BY <1>3, <1>4, <1>5, <1>6

\* The empty sequence, by a name of its own: the provers need one.
Empty == <<>>

LEMMA NoneSeq == IsSeq(Empty) /\ Len(Empty) = 0
  <1>1. Empty \in Seq({}) /\ Len(Empty) = 0
    BY DEF Empty
  <1> QED
    BY <1>1, SeqIs

LEMMA OneSeq ==
    ASSUME NEW x
    PROVE  IsSeq(<<x>>) /\ Len(<<x>>) = 1 /\ <<x>>[1] = x
  <1>1. <<x>> \in Seq({x})
    OBVIOUS
  <1> QED
    BY <1>1, SeqIs

LEMMA SameSeq ==
    ASSUME NEW s, NEW t, IsSeq(s), IsSeq(t), Len(s) = Len(t), \A k \in 1..Len(s) : s[k] = t[k]
    PROVE  s = t
  BY DEF IsSeq

------------------------------------------------------------------------------
(* The folds of the reader: of itself over the items, of the names over    *)
(* their uses, of the operands over a record.  What they do at each step   *)
(* is told by the kind of the fold, so that one lemma is about all.        *)

Step(kind, ctx, a, x) ==
  CASE kind = "item"    -> Read(a, x)
    [] kind = "name"    -> AddName(a, x)
    [] kind = "operand" -> ReadOperand(ctx.r, ctx.x, KindAt(ctx.head, ctx.loop, x), a)
    [] kind = "hash"    -> (2 * a + 1) % 2 ^ 16
Runs(kind, ctx, H, r, items, n) ==
  /\ H[0] = r
  /\ \A k \in 1..n : H[k] = Step(kind, ctx, H[k - 1], items[k])

LEMMA MaxOfFirst ==
    ASSUME NEW n \in Nat, NEW T, T \subseteq 1..(n + 1), n + 1 \in T
    PROVE  Max(T) = n + 1
  <1>1. n + 1 \in T /\ \A y \in T : n + 1 >= y
    OBVIOUS
  <1>2. \A x \in T : (\A y \in T : x >= y) => x = n + 1
    BY <1>1
  <1> QED
    BY <1>1, <1>2 DEF Max

IsFold(kind, ctx, G, r, items, n) ==
  G = [T \in SUBSET (1..n) |->
         IF T = {} THEN r ELSE Step(kind, ctx, G[T \ {Max(T)}], items[Max(T)])]
Folded(kind, ctx, r, items) == (CHOOSE G : IsFold(kind, ctx, G, r, items, Len(items)))[1..Len(items)]

LEMMA FoldDefines ==
    ASSUME NEW kind, NEW ctx, NEW r, NEW items, NEW n \in Nat
    PROVE  \E G : IsFold(kind, ctx, G, r, items, n)
  <1> DEFINE Is(G, m) == IsFold(kind, ctx, G, r, items, m)
             S == {m \in Nat : \E G : Is(G, m)}
  <1>1. 0 \in S
    <2> DEFINE G == [T \in SUBSET (1..0) |-> r]
    <2>1. Is(G, 0)
      BY DEF IsFold
    <2> QED
      BY <2>1
  <1>2. ASSUME NEW m \in Nat, m \in S PROVE m + 1 \in S
    <2>1. PICK G : Is(G, m)
      BY <1>2
    <2>2. \A T \in SUBSET (1..m) : G[T] = IF T = {} THEN r ELSE Step(kind, ctx, G[T \ {Max(T)}], items[Max(T)])
      BY <2>1 DEF IsFold
    <2> DEFINE K == [T \in SUBSET (1..(m + 1)) |->
                       IF m + 1 \in T THEN Step(kind, ctx, G[T \ {m + 1}], items[m + 1]) ELSE G[T]]
    <2>3. ASSUME NEW T \in SUBSET (1..(m + 1))
          PROVE  K[T] = IF T = {} THEN r ELSE Step(kind, ctx, K[T \ {Max(T)}], items[Max(T)])
      <3>1. CASE m + 1 \in T
        <4>1. Max(T) = m + 1
          BY <3>1, MaxOfFirst
        <4>2. T \ {m + 1} \in SUBSET (1..(m + 1)) /\ m + 1 \notin T \ {m + 1}
          OBVIOUS
        <4>3. K[T \ {m + 1}] = G[T \ {m + 1}]
          BY <4>2
        <4> QED
          BY <3>1, <4>1, <4>3
      <3>2. CASE m + 1 \notin T
        <4>1. T \in SUBSET (1..m)
          BY <3>2
        <4>2. K[T] = G[T]
          BY <3>2
        <4>3. CASE T = {}
          BY <2>2, <4>1, <4>2, <4>3
        <4>4. CASE T # {}
          <5>1. T \ {Max(T)} \in SUBSET (1..(m + 1)) /\ m + 1 \notin T \ {Max(T)}
            BY <3>2
          <5>2. K[T \ {Max(T)}] = G[T \ {Max(T)}]
            BY <5>1
          <5> QED
            BY <2>2, <4>1, <4>2, <4>4, <5>2
        <4> QED
          BY <4>3, <4>4
      <3> QED
        BY <3>1, <3>2
    <2>4. Is(K, m + 1)
      <3>1. K = [T \in SUBSET (1..(m + 1)) |-> K[T]]
        OBVIOUS
      <3> HIDE DEF K
      <3> QED
        BY <2>3, <3>1 DEF IsFold
    <2> HIDE DEF Is, K
    <2> QED
      BY <2>4
  <1> HIDE DEF S
  <1>3. n \in S
    BY <1>1, <1>2, NatSetInduction
  <1> QED
    BY <1>3 DEF S

LEMMA FoldRuns ==
    ASSUME NEW kind, NEW ctx, NEW r, NEW items, IsSeq(items)
    PROVE  \E H : Runs(kind, ctx, H, r, items, Len(items)) /\ Folded(kind, ctx, r, items) = H[Len(items)]
  <1> DEFINE n == Len(items)
             X == CHOOSE G : IsFold(kind, ctx, G, r, items, n)
             H == [k \in 0..n |-> X[1..k]]
  <1>1. n \in Nat /\ DOMAIN items = 1..n
    BY SeqShape
  <1>2. Folded(kind, ctx, r, items) = X[1..n]
    BY DEF Folded
  <1>3. IsFold(kind, ctx, X, r, items, n)
    <2>1. \E G : IsFold(kind, ctx, G, r, items, n)
      BY <1>1, FoldDefines
    <2> QED
      BY <2>1
  <1> HIDE DEF X
  <1>4. \A T \in SUBSET (1..n) : X[T] = IF T = {} THEN r ELSE Step(kind, ctx, X[T \ {Max(T)}], items[Max(T)])
    BY <1>3 DEF IsFold
  <1> HIDE DEF n
  <1>5. H[0] = r
    <2>1. 1..0 = {} /\ {} \in SUBSET (1..n) /\ H[0] = X[1..0]
      BY <1>1
    <2>2. X[{}] = r
      BY <1>4, <2>1
    <2> QED
      BY <2>1, <2>2
  <1>6. ASSUME NEW k \in 1..n PROVE H[k] = Step(kind, ctx, H[k - 1], items[k])
    <2>1. k - 1 \in Nat /\ 1..k \subseteq 1..((k - 1) + 1) /\ (k - 1) + 1 \in 1..k /\ k - 1 \in 0..n
      BY <1>1
    <2>2. Max(1..k) = k
      <3> DEFINE j == k - 1
      <3>1. j \in Nat /\ 1..k \subseteq 1..(j + 1) /\ j + 1 \in 1..k /\ j + 1 = k
        BY <2>1
      <3> HIDE DEF j
      <3> QED
        BY <3>1, MaxOfFirst
    <2>3. (1..k) \ {k} = 1..(k - 1) /\ 1..k # {} /\ 1..k \in SUBSET (1..n)
      BY <1>1
    <2>4. X[1..k] = Step(kind, ctx, X[1..(k - 1)], items[k])
      BY <1>4, <2>2, <2>3
    <2> QED
      BY <1>1, <2>1, <2>4
  <1>7. H[n] = X[1..n]
    BY <1>1
  <1>8. Runs(kind, ctx, H, r, items, n)
    BY <1>5, <1>6 DEF Runs
  <1> HIDE DEF H
  <1> QED
    BY <1>2, <1>7, <1>8 DEF n

LEMMA RunsAgree ==
    ASSUME NEW n \in Nat, NEW kind, NEW ctx, NEW r, NEW items, NEW H, NEW G, Runs(kind, ctx, H, r, items, n), Runs(kind, ctx, G, r, items, n)
    PROVE  H[n] = G[n]
  <1> DEFINE S == {k \in Nat : k <= n => H[k] = G[k]}
  <1>1. 0 \in S
    BY DEF Runs
  <1>2. ASSUME NEW k \in Nat, k \in S PROVE k + 1 \in S
    <2> SUFFICES ASSUME k + 1 <= n PROVE H[k + 1] = G[k + 1]
      OBVIOUS
    <2>1. k + 1 \in 1..n /\ (k + 1) - 1 = k /\ H[k] = G[k]
      BY <1>2
    <2> QED
      BY <2>1 DEF Runs
  <1> HIDE DEF S
  <1>3. n \in S
    BY <1>1, <1>2, NatSetInduction
  <1> QED
    BY <1>3 DEF S

LEMMA FoldIs ==
    ASSUME NEW kind, NEW ctx, NEW r, NEW items, IsSeq(items), NEW G, Runs(kind, ctx, G, r, items, Len(items))
    PROVE  Folded(kind, ctx, r, items) = G[Len(items)]
  <1>1. PICK H : Runs(kind, ctx, H, r, items, Len(items)) /\ Folded(kind, ctx, r, items) = H[Len(items)]
    BY FoldRuns
  <1>2. Len(items) \in Nat
    BY DEF IsSeq
  <1> QED
    BY <1>1, <1>2, RunsAgree

ReadAll(r, items) == FoldLeft(Read, r, items)
ReadRuns(H, r, items, n) ==
  /\ H[0] = r
  /\ \A k \in 1..n : H[k] = Read(H[k - 1], items[k])

LEMMA ReadRunsIs ==
    ASSUME NEW H, NEW r, NEW items, NEW n
    PROVE  ReadRuns(H, r, items, n) <=> Runs("item", 0, H, r, items, n)
  BY DEF ReadRuns, Runs, Step

LEMMA ReadAllFolded ==
    ASSUME NEW r, NEW items, IsSeq(items)
    PROVE  ReadAll(r, items) = Folded("item", 0, r, items)
  <1>1. DOMAIN items = 1..Len(items)
    BY SeqShape
  <1> QED
    BY <1>1 DEF ReadAll, FoldLeft, MapThenFoldSet, IsFold, Folded, Step

LEMMA ReadAllRuns ==
    ASSUME NEW r, NEW items, IsSeq(items)
    PROVE  \E H : ReadRuns(H, r, items, Len(items)) /\ ReadAll(r, items) = H[Len(items)]
  BY FoldRuns, ReadAllFolded, ReadRunsIs

LEMMA ReadAllIs ==
    ASSUME NEW r, NEW items, IsSeq(items), NEW G, ReadRuns(G, r, items, Len(items))
    PROVE  ReadAll(r, items) = G[Len(items)]
  BY FoldIs, ReadAllFolded, ReadRunsIs

LEMMA ReadNone ==
    ASSUME NEW r
    PROVE  ReadAll(r, Empty) = r
  <1>1. IsSeq(Empty) /\ Len(Empty) = 0
    BY NoneSeq
  <1>2. PICK H : ReadRuns(H, r, Empty, 0) /\ ReadAll(r, Empty) = H[0]
    BY <1>1, ReadAllRuns
  <1> QED
    BY <1>2 DEF ReadRuns

LEMMA ReadOne == ASSUME NEW r, NEW x PROVE ReadAll(r, <<x>>) = Read(r, x)
  <1>1. IsSeq(<<x>>) /\ Len(<<x>>) = 1 /\ <<x>>[1] = x
    BY OneSeq
  <1>2. PICK H : ReadRuns(H, r, <<x>>, 1) /\ ReadAll(r, <<x>>) = H[1]
    BY <1>1, ReadAllRuns
  <1>3. H[1] = Read(H[1 - 1], <<x>>[1]) /\ H[0] = r
    BY <1>2 DEF ReadRuns
  <1> QED
    BY <1>1, <1>2, <1>3

LEMMA ReadJoin ==
    ASSUME NEW r, NEW a, NEW b, IsSeq(a), IsSeq(b)
    PROVE  ReadAll(r, a \o b) = ReadAll(ReadAll(r, a), b)
  <1> DEFINE m == Len(a)
             n == Len(b)
             s == a \o b
  <1>1. PICK H : ReadRuns(H, r, a, m) /\ ReadAll(r, a) = H[m]
    BY ReadAllRuns
  <1>2. PICK G : ReadRuns(G, H[m], b, n) /\ ReadAll(H[m], b) = G[n]
    BY ReadAllRuns
  <1>3. m \in Nat /\ n \in Nat
    BY DEF IsSeq
  <1>4. /\ IsSeq(s) /\ Len(s) = m + n
        /\ \A k \in 1..m : s[k] = a[k]
        /\ \A k \in 1..n : s[m + k] = b[k]
    BY JoinShape
  <1> HIDE DEF m, n, s
  <1> DEFINE K == [k \in 0..(m + n) |-> IF k <= m THEN H[k] ELSE G[k - m]]
  <1>5. G[0] = H[m] /\ H[0] = r
    BY <1>1, <1>2 DEF ReadRuns
  <1>6. K[0] = r
    BY <1>3, <1>5
  <1>7. ASSUME NEW k \in 1..(m + n) PROVE K[k] = Read(K[k - 1], s[k])
    <2>1. CASE k <= m
      <3>1. k \in 1..m /\ K[k] = H[k] /\ K[k - 1] = H[k - 1]
        BY <1>3, <2>1
      <3>2. H[k] = Read(H[k - 1], a[k])
        BY <1>1, <3>1 DEF ReadRuns
      <3> QED
        BY <1>4, <3>1, <3>2
    <2>2. CASE ~(k <= m)
      <3> DEFINE j == k - m
      <3>1. j \in 1..n /\ k = m + j /\ K[k] = G[j]
        BY <1>3, <2>2
      <3>2. K[k - 1] = G[j - 1]
        <4>1. CASE j = 1
          BY <1>3, <1>5, <4>1
        <4>2. CASE j # 1
          <5>1. ~(k - 1 <= m) /\ (k - 1) - m = j - 1 /\ k - 1 \in 0..(m + n)
            BY <1>3, <2>2, <4>2
          <5> QED
            BY <5>1
        <4> QED
          BY <4>1, <4>2
      <3>3. G[j] = Read(G[j - 1], b[j])
        BY <1>2, <3>1 DEF ReadRuns
      <3>4. s[k] = b[j]
        BY <1>4, <3>1
      <3> QED
        BY <3>1, <3>2, <3>3, <3>4
    <2> QED
      BY <2>1, <2>2
  <1>8. ReadRuns(K, r, s, m + n)
    <2> HIDE DEF K
    <2> QED
      BY <1>6, <1>7 DEF ReadRuns
  <1>9. K[m + n] = G[n]
    BY <1>3, <1>5
  <1> HIDE DEF K
  <1>10. ReadAll(r, s) = K[m + n]
    BY <1>4, <1>8, ReadAllIs
  <1> QED
    BY <1>1, <1>2, <1>9, <1>10 DEF m, n, s

------------------------------------------------------------------------------
(* What the reader knows is a record, and what it does is to set fields.    *)

IsRecord(r) == r = [f \in DOMAIN r |-> r[f]]

LEMMA SetShape ==
    ASSUME NEW r, NEW f, NEW x
    PROVE  /\ IsRecord(Set(r, f, x)) /\ DOMAIN Set(r, f, x) = DOMAIN r
           /\ f \in DOMAIN r => Set(r, f, x)[f] = x
           /\ \A g \in DOMAIN r : g # f => Set(r, f, x)[g] = r[g]
  BY DEF IsRecord, Set

LEMMA SetSet ==
    ASSUME NEW r, NEW f, NEW x, NEW y
    PROVE  Set(Set(r, f, x), f, y) = Set(r, f, y)
  BY DEF Set

LEMMA SetApart ==
    ASSUME NEW r, NEW f, NEW g, f # g, NEW x, NEW y
    PROVE  Set(Set(r, f, x), g, y) = Set(Set(r, g, y), f, x)
  BY DEF Set

LEMMA SetSame ==
    ASSUME NEW r, IsRecord(r), NEW f
    PROVE  Set(r, f, r[f]) = r
  BY DEF Set, IsRecord

------------------------------------------------------------------------------
(* The reader but for the misfits it noted, which nothing it reads depends  *)
(* on, and for the bytes, which are counted apart.                          *)

With(r, m, b) == Set(Set(r, "misfits", m), "bytes", b)
Fields == DOMAIN Nothing

LEMMA FieldsAre ==
    Fields = {"open", "infos", "misfits", "bytes", "attrs", "types", "tname", "triple", "layout",
              "asm", "sections", "gcs", "globals", "functions", "aliases", "tys", "consts", "told",
              "mds", "named", "kinds", "names", "bodies", "moduleTys", "moduleTold"}
  BY DEF Fields, Nothing

IsReader(r) == IsRecord(r) /\ DOMAIN r = Fields

LEMMA SetReader ==
    ASSUME NEW r, IsReader(r), NEW f, NEW x
    PROVE  IsReader(Set(r, f, x))
  BY SetShape DEF IsReader

LEMMA WithReader ==
    ASSUME NEW r, IsReader(r), NEW m, NEW b
    PROVE  /\ IsReader(With(r, m, b))
           /\ With(r, m, b)["misfits"] = m /\ With(r, m, b)["bytes"] = b
           /\ \A f \in Fields \ {"misfits", "bytes"} : With(r, m, b)[f] = r[f]
  <1> DEFINE s == Set(r, "misfits", m)
  <1>1. IsReader(s) /\ DOMAIN r = Fields /\ DOMAIN s = Fields
    BY SetReader, SetShape DEF IsReader
  <1>2. "misfits" \in Fields /\ "bytes" \in Fields
    BY FieldsAre
  <1>3. s["misfits"] = m /\ \A f \in Fields : f # "misfits" => s[f] = r[f]
    BY <1>1, <1>2, SetShape
  <1> HIDE DEF s
  <1> DEFINE t == Set(s, "bytes", b)
  <1>4. t["bytes"] = b /\ \A f \in Fields : f # "bytes" => t[f] = s[f]
    BY <1>1, <1>2, SetShape
  <1>5. IsReader(t)
    BY <1>1, SetReader
  <1>6. t = With(r, m, b)
    BY DEF With, s
  <1> HIDE DEF t
  <1> QED
    BY <1>2, <1>3, <1>4, <1>5, <1>6

LEMMA WithSet ==
    ASSUME NEW r, NEW f, f # "misfits", f # "bytes", NEW x, NEW m, NEW b
    PROVE  Set(With(r, m, b), f, x) = With(Set(r, f, x), m, b)
  <1>1. Set(Set(Set(r, "misfits", m), "bytes", b), f, x) = Set(Set(Set(r, "misfits", m), f, x), "bytes", b)
    BY SetApart
  <1>2. Set(Set(r, "misfits", m), f, x) = Set(Set(r, f, x), "misfits", m)
    BY SetApart
  <1> QED
    BY <1>1, <1>2 DEF With

LEMMA WithMisfits ==
    ASSUME NEW r, NEW m, NEW b, NEW n
    PROVE  Set(With(r, m, b), "misfits", n) = With(r, n, b)
  <1>1. Set(Set(Set(r, "misfits", m), "bytes", b), "misfits", n)
          = Set(Set(Set(r, "misfits", m), "misfits", n), "bytes", b)
    BY SetApart
  <1>2. Set(Set(r, "misfits", m), "misfits", n) = Set(r, "misfits", n)
    BY SetSet
  <1> QED
    BY <1>1, <1>2 DEF With

\* Reading the items takes the reader from r to s.
Reads(r, items, s) ==
  /\ IsSeq(items)
  /\ \A m, b : \E n : ReadAll(With(r, m, b), items) = With(s, n, b)

LEMMA ReadsNone == ASSUME NEW r PROVE Reads(r, Empty, r)
  BY ReadNone, NoneSeq DEF Reads

LEMMA ReadsOne ==
    ASSUME NEW r, NEW x, NEW s, \A m, b : \E n : Read(With(r, m, b), x) = With(s, n, b)
    PROVE  Reads(r, <<x>>, s)
  <1>1. IsSeq(<<x>>)
    BY OneSeq
  <1>2. \A q : ReadAll(q, <<x>>) = Read(q, x)
    BY ReadOne
  <1> DEFINE e == <<x>>
  <1> HIDE DEF e
  <1>3. IsSeq(e) /\ \A q : ReadAll(q, e) = Read(q, x)
    BY <1>1, <1>2 DEF e
  <1>4. Reads(r, e, s)
    BY <1>3 DEF Reads
  <1> QED
    BY <1>4 DEF e

LEMMA ReadsJoin ==
    ASSUME NEW r, NEW s, NEW t, NEW a, NEW c, Reads(r, a, s), Reads(s, c, t)
    PROVE  Reads(r, a \o c, t)
  <1>1. IsSeq(a) /\ IsSeq(c)
    BY DEF Reads
  <1>2. IsSeq(a \o c) /\ \A q : ReadAll(q, a \o c) = ReadAll(ReadAll(q, a), c)
    BY <1>1, JoinShape, ReadJoin
  <1> DEFINE e == a \o c
  <1> HIDE DEF e
  <1>3. IsSeq(e) /\ \A q : ReadAll(q, e) = ReadAll(ReadAll(q, a), c)
    BY <1>2 DEF e
  <1>4. ASSUME NEW m, NEW b PROVE \E n : ReadAll(With(r, m, b), e) = With(t, n, b)
    <2>1. PICK k : ReadAll(With(r, m, b), a) = With(s, k, b)
      BY DEF Reads
    <2>2. PICK n : ReadAll(With(s, k, b), c) = With(t, n, b)
      BY DEF Reads
    <2> QED
      BY <1>3, <2>1, <2>2
  <1>5. Reads(r, e, t)
    BY <1>3, <1>4 DEF Reads
  <1> QED
    BY <1>5 DEF e

\* P is what of the sequences ss there is up to each of them.
Joined(P, ss, n) ==
  /\ P[0] = Empty
  /\ \A k \in 1..n : P[k] = P[k - 1] \o ss[k]

LEMMA FlattenJoined ==
    ASSUME NEW ss, IsSeq(ss), \A k \in 1..Len(ss) : IsSeq(ss[k])
    PROVE  \E P : Joined(P, ss, Len(ss)) /\ FlattenSeq(ss) = P[Len(ss)]
  <1> DEFINE n == Len(ss)
             E == UNION {Elements(ss[k]) : k \in 1..n}
             A == Seq(E)
             step == [k \in 1..n |-> [e \in A |-> e \o ss[k]]]
             Rec(f) == f = [i \in 1..n |-> IF i = 1 THEN ss[i] ELSE f[i - 1] \o ss[i]]
  <1>0. n \in Nat /\ DOMAIN ss = 1..n /\ ss \in Seq(Elements(ss))
    BY SeqShape
  <1>1. Empty \in A /\ \A k \in 1..n : ss[k] \in A
    <2>1. Empty \in A
      BY DEF Empty
    <2>2. ASSUME NEW k \in 1..n PROVE ss[k] \in A
      <3>1. ss[k] \in Seq(Elements(ss[k]))
        BY SeqShape
      <3>2. Elements(ss[k]) \subseteq E
        OBVIOUS
      <3> HIDE DEF E
      <3> QED
        BY <3>1, <3>2
    <2> QED
      BY <2>1, <2>2
  <1>2. step \in [1..n -> [A -> A]]
    <2>1. ASSUME NEW k \in 1..n, NEW e \in A PROVE e \o ss[k] \in A
      <3>1. ss[k] \in A
        BY <1>1
      <3> HIDE DEF E
      <3> QED
        BY <3>1
    <2> HIDE DEF A, n
    <2> QED
      BY <2>1
  <1>3. PICK P : Iterates(P, step, n, A, Empty)
    <2> HIDE DEF step, A, n
    <2> QED
      BY <1>0, <1>1, <1>2, RecursionDefines DEF Steps
  <1>4. P \in [0..n -> A] /\ P[0] = Empty
    BY <1>3 DEF Iterates
  <1>5. ASSUME NEW k \in 1..n PROVE P[k] = P[k - 1] \o ss[k] /\ P[k - 1] \in A
    <2>1. P[k] = step[k][P[k - 1]] /\ P[k - 1] \in A
      <3> HIDE DEF step, A, n
      <3> QED
        BY <1>0, <1>3 DEF Iterates
    <2> QED
      BY <2>1
  <1>6. CASE n = 0
    <2>1. FlattenSeq(ss) = ss
      BY <1>6 DEF FlattenSeq
    <2>2. ss = Empty
      BY <1>0, <1>6 DEF Empty
    <2> QED
      BY <1>4, <1>5, <1>6, <2>1, <2>2 DEF Joined
  <1>7. CASE n # 0
    <2> DEFINE g == [i \in 1..n |-> P[i]]
               X == CHOOSE f : Rec(f)
    <2>1. Rec(g)
      <3>1. ASSUME NEW i \in 1..n PROVE g[i] = IF i = 1 THEN ss[i] ELSE g[i - 1] \o ss[i]
        <4>1. CASE i = 1
          <5>1. P[1] = Empty \o ss[1]
            <6>1. 1 \in 1..n /\ 1 - 1 = 0
              BY <1>0, <1>7
            <6> QED
              BY <1>4, <1>5, <6>1
          <5>2. Empty \o ss[1] = ss[1]
            <6>1. ss[1] \in A
              BY <1>1, <4>1
            <6> QED
              BY <6>1 DEF Empty
          <5> QED
            BY <4>1, <5>1, <5>2
        <4>2. CASE i # 1
          <5>1. i - 1 \in 1..n
            BY <1>0, <4>2
          <5> QED
            BY <1>5, <4>2, <5>1
        <4> QED
          BY <4>1, <4>2
      <3> HIDE DEF n
      <3> QED
        BY <3>1
    <2>2. FlattenSeq(ss) = X[n]
      BY <1>0, <1>7 DEF FlattenSeq
    <2>3. Rec(X)
      <3> HIDE DEF Rec, g
      <3> QED
        BY <2>1
    <2> HIDE DEF X, n
    <2>4. \A i \in 1..n : X[i] = IF i = 1 THEN ss[i] ELSE X[i - 1] \o ss[i]
      BY <2>3
    <2>5. \A i \in 1..n : g[i] = IF i = 1 THEN ss[i] ELSE g[i - 1] \o ss[i]
      BY <2>1
    <2> DEFINE S == {k \in Nat : k \in 1..n => X[k] = g[k]}
    <2> HIDE DEF g
    <2>6. 0 \in S
      OBVIOUS
    <2>7. ASSUME NEW k \in Nat, k \in S PROVE k + 1 \in S
      <3> SUFFICES ASSUME k + 1 \in 1..n PROVE X[k + 1] = g[k + 1]
        OBVIOUS
      <3>1. CASE k = 0
        BY <2>4, <2>5, <3>1
      <3>2. CASE k # 0
        <4>1. k \in 1..n /\ (k + 1) - 1 = k /\ k + 1 # 1
          BY <1>0, <3>2
        <4>2. X[k] = g[k]
          BY <2>7, <4>1
        <4> QED
          BY <2>4, <2>5, <4>1, <4>2
      <3> QED
        BY <3>1, <3>2
    <2> HIDE DEF S
    <2>8. n \in S
      BY <1>0, <2>6, <2>7, NatSetInduction
    <2>9. X[n] = P[n]
      BY <1>0, <1>7, <2>8 DEF S, g
    <2> QED
      BY <1>4, <1>5, <2>2, <2>9 DEF Joined, n
  <1> QED
    BY <1>6, <1>7

\* The reader is in state G[k] when the first k sequences are read.
LEMMA ReadsFlat ==
    ASSUME NEW ss, IsSeq(ss), NEW G, \A k \in 1..Len(ss) : Reads(G[k - 1], ss[k], G[k])
    PROVE  Reads(G[0], FlattenSeq(ss), G[Len(ss)])
  <1> DEFINE n == Len(ss)
  <1>1. n \in Nat /\ \A k \in 1..n : IsSeq(ss[k])
    BY DEF IsSeq, Reads
  <1>2. PICK P : Joined(P, ss, n) /\ FlattenSeq(ss) = P[n]
    BY <1>1, FlattenJoined
  <1> HIDE DEF n
  <1> DEFINE S == {k \in Nat : k <= n => Reads(G[0], P[k], G[k])}
  <1>3. 0 \in S
    <2>1. Reads(G[0], Empty, G[0])
      BY ReadsNone
    <2> QED
      BY <1>2, <2>1 DEF Joined
  <1>4. ASSUME NEW k \in Nat, k \in S PROVE k + 1 \in S
    <2> SUFFICES ASSUME k + 1 <= n PROVE Reads(G[0], P[k + 1], G[k + 1])
      OBVIOUS
    <2>1. k + 1 \in 1..n /\ (k + 1) - 1 = k
      BY <1>1
    <2>2. Reads(G[0], P[k], G[k])
      BY <1>1, <1>4, <2>1
    <2>3. Reads(G[k], ss[k + 1], G[k + 1])
      BY <2>1 DEF n
    <2>4. P[k + 1] = P[k] \o ss[k + 1]
      BY <1>2, <2>1 DEF Joined
    <2> QED
      BY <2>2, <2>3, <2>4, ReadsJoin
  <1> HIDE DEF S
  <1>5. n \in S
    BY <1>1, <1>3, <1>4, NatSetInduction
  <1>6. Reads(G[0], P[n], G[n])
    BY <1>1, <1>5 DEF S
  <1> QED
    BY <1>2, <1>6 DEF n

LEMMA ReadsEach ==
    ASSUME NEW items, IsSeq(items), NEW G, \A k \in 1..Len(items) : Reads(G[k - 1], <<items[k]>>, G[k])
    PROVE  Reads(G[0], items, G[Len(items)])
  <1> DEFINE n == Len(items)
             S == {k \in Nat : k <= n => Reads(G[0], SubSeq(items, 1, k), G[k])}
  <1>1. n \in Nat /\ items \in Seq(Elements(items))
    BY SeqShape
  <1>2. 0 \in S
    <2>1. Reads(G[0], Empty, G[0])
      BY ReadsNone
    <2>2. SubSeq(items, 1, 0) = Empty
      BY <1>1 DEF Empty
    <2> QED
      BY <2>1, <2>2
  <1> HIDE DEF n
  <1>3. ASSUME NEW k \in Nat, k \in S PROVE k + 1 \in S
    <2> SUFFICES ASSUME k + 1 <= n PROVE Reads(G[0], SubSeq(items, 1, k + 1), G[k + 1])
      OBVIOUS
    <2>1. k + 1 \in 1..n /\ (k + 1) - 1 = k
      BY <1>1
    <2>2. Reads(G[0], SubSeq(items, 1, k), G[k])
      BY <1>1, <1>3, <2>1
    <2>3. Reads(G[k], <<items[k + 1]>>, G[k + 1])
      BY <2>1 DEF n
    <2>4. SubSeq(items, 1, k + 1) = SubSeq(items, 1, k) \o <<items[k + 1]>>
      BY <1>1, <2>1 DEF n
    <2> QED
      BY <2>2, <2>3, <2>4, ReadsJoin
  <1> HIDE DEF S
  <1>4. n \in S
    BY <1>1, <1>2, <1>3, NatSetInduction
  <1>5. SubSeq(items, 1, n) = items
    BY <1>1 DEF n
  <1>6. Reads(G[0], SubSeq(items, 1, n), G[n])
    BY <1>1, <1>4 DEF S
  <1> QED
    BY <1>5, <1>6 DEF n

------------------------------------------------------------------------------
(* The blocks the reader is in.                                            *)

Replaced(s, k, u) == [s EXCEPT ![k] = u]
Updated(t, f, x) == [t EXCEPT ![f] = x]
Frame(id, w, a, ty) == [id |-> id, width |-> w, abbrevs |-> a, ty |-> ty]

LEMMA FrameFields ==
    ASSUME NEW id, NEW w, NEW a, NEW ty
    PROVE  /\ Frame(id, w, a, ty).id = id /\ Frame(id, w, a, ty).width = w
           /\ Frame(id, w, a, ty).abbrevs = a /\ Frame(id, w, a, ty).ty = ty
           /\ \A c : Updated(Frame(id, w, a, ty), "abbrevs", c) = Frame(id, w, c, ty)
           /\ \A c : Updated(Frame(id, w, a, ty), "ty", c) = Frame(id, w, a, c)
  BY DEF Frame, Updated

LEMMA AppendShape ==
    ASSUME NEW o, IsSeq(o), NEW t
    PROVE  /\ IsSeq(Append(o, t)) /\ Len(Append(o, t)) = Len(o) + 1
           /\ Append(o, t)[Len(o) + 1] = t /\ \A k \in 1..Len(o) : Append(o, t)[k] = o[k]
           /\ Last(Append(o, t)) = t /\ Front(Append(o, t)) = o
           /\ Append(o, t) = o \o <<t>>
  <1> DEFINE A == Elements(o) \cup {t}
  <1>1. o \in Seq(Elements(o)) /\ Len(o) \in Nat
    BY SeqShape
  <1>2. o \in Seq(A) /\ t \in A
    <2>1. Elements(o) \subseteq A /\ t \in A
      OBVIOUS
    <2> HIDE DEF A
    <2> QED
      BY <1>1, <2>1
  <1> HIDE DEF A
  <1>3. Append(o, t) \in Seq(A) /\ Len(Append(o, t)) = Len(o) + 1
    BY <1>1, <1>2
  <1>4. IsSeq(Append(o, t))
    BY <1>3, SeqIs
  <1>5. Append(o, t)[Len(o) + 1] = t /\ \A k \in 1..Len(o) : Append(o, t)[k] = o[k]
    BY <1>1, <1>2
  <1>6. Last(Append(o, t)) = t
    BY <1>1, <1>3, <1>5 DEF Last
  <1>7. Front(Append(o, t)) = o
    BY <1>1, <1>2, <1>3 DEF Front
  <1>8. Append(o, t) = o \o <<t>>
    BY <1>2
  <1> QED
    BY <1>3, <1>4, <1>5, <1>6, <1>7, <1>8

LEMMA ReplaceLast ==
    ASSUME NEW o, IsSeq(o), NEW t, NEW u
    PROVE  Replaced(Append(o, t), Len(o) + 1, u) = Append(o, u)
  <1> DEFINE a == Append(o, t)
             c == Append(o, u)
             e == [a EXCEPT ![Len(o) + 1] = u]
             n == Len(o) + 1
  <1>a. IsSeq(a) /\ Len(a) = n /\ \A k \in 1..Len(o) : a[k] = o[k]
    BY AppendShape
  <1>b. IsSeq(c) /\ Len(c) = n /\ c[n] = u /\ \A k \in 1..Len(o) : c[k] = o[k]
    BY AppendShape
  <1>1. /\ IsSeq(a) /\ Len(a) = n /\ IsSeq(c) /\ Len(c) = n
        /\ \A k \in 1..Len(o) : a[k] = o[k] /\ c[k] = o[k]
        /\ c[n] = u /\ Len(o) \in Nat
    BY <1>a, <1>b DEF IsSeq
  <1> HIDE DEF a, c
  <1>2. a = [k \in 1..n |-> a[k]] /\ c = [k \in 1..n |-> c[k]]
    BY <1>1 DEF IsSeq
  <1>3. e = [k \in 1..n |-> IF k = n THEN u ELSE a[k]]
    BY <1>2
  <1>4. \A k \in 1..n : c[k] = IF k = n THEN u ELSE a[k]
    BY <1>1
  <1> QED
    BY <1>2, <1>3, <1>4 DEF a, c, n, Replaced

\* The value of a field is that of the record set last.
LEMMA SetTopIs ==
    ASSUME NEW r, IsReader(r), NEW o, IsSeq(o), NEW t, r.open = Append(o, t), NEW f, NEW x,
           NEW u, u = Updated(t, f, x)
    PROVE  SetTop(r, f, x) = Set(r, "open", Append(o, u))
  <1> DEFINE a == Append(o, t)
  <1>1. Len(a) = Len(o) + 1 /\ a[Len(o) + 1] = t
    BY AppendShape
  <1>2. "open" \in DOMAIN r
    BY FieldsAre DEF IsReader
  <1>3. SetTop(r, f, x) = Set(r, "open", [a EXCEPT ![Len(a)] = [a[Len(a)] EXCEPT ![f] = x]])
    BY <1>2 DEF SetTop, Set
  <1>4. [a EXCEPT ![Len(a)] = [a[Len(a)] EXCEPT ![f] = x]] = Replaced(a, Len(o) + 1, u)
    BY <1>1 DEF Replaced, Updated
  <1> HIDE DEF a
  <1>5. Replaced(Append(o, t), Len(o) + 1, u) = Append(o, u)
    BY ReplaceLast
  <1> QED
    BY <1>3, <1>4, <1>5 DEF a

LEMMA TopIs ==
    ASSUME NEW r, NEW o, IsSeq(o), NEW t, r.open = Append(o, t)
    PROVE  Top(r) = t /\ Close(r) = Set(r, "open", o)
  <1>1. Last(Append(o, t)) = t /\ Front(Append(o, t)) = o
    BY AppendShape
  <1> QED
    BY <1>1 DEF Top, Close

LEMMA AddIs ==
    ASSUME NEW r, IsReader(r), NEW f \in Fields, NEW x
    PROVE  Add(r, f, x) = Set(r, f, Append(r[f], x))
  BY DEF Add, Set, IsReader

\* The last body of the reader.
LEMMA SetBodyIs ==
    ASSUME NEW r, IsReader(r), NEW o, IsSeq(o), NEW t, r.bodies = Append(o, t), NEW f, NEW x,
           NEW u, u = Updated(t, f, x)
    PROVE  SetBody(r, f, x) = Set(r, "bodies", Append(o, u)) /\ Last(r.bodies) = t
  <1> DEFINE a == Append(o, t)
  <1>1. Len(a) = Len(o) + 1 /\ a[Len(o) + 1] = t /\ Last(a) = t
    BY AppendShape
  <1>2. "bodies" \in DOMAIN r
    BY FieldsAre DEF IsReader
  <1>3. SetBody(r, f, x) = Set(r, "bodies", [a EXCEPT ![Len(a)] = [a[Len(a)] EXCEPT ![f] = x]])
    BY <1>2 DEF SetBody, Set
  <1>4. [a EXCEPT ![Len(a)] = [a[Len(a)] EXCEPT ![f] = x]] = Replaced(a, Len(o) + 1, u)
    BY <1>1 DEF Replaced, Updated
  <1> HIDE DEF a
  <1>5. Replaced(Append(o, t), Len(o) + 1, u) = Append(o, u)
    BY ReplaceLast
  <1> QED
    BY <1>1, <1>3, <1>4, <1>5 DEF a

LEMMA AddBodyIs ==
    ASSUME NEW r, IsReader(r), NEW o, IsSeq(o), NEW t, r.bodies = Append(o, t), NEW f, NEW x,
           NEW u, u = Updated(t, f, Append(t[f], x))
    PROVE  AddBody(r, f, x) = Set(r, "bodies", Append(o, u))
  <1>1. Last(Append(o, t)) = t
    BY AppendShape
  <1>2. AddBody(r, f, x) = SetBody(r, f, Append(t[f], x))
    BY <1>1 DEF AddBody
  <1> QED
    BY <1>2, SetBodyIs

------------------------------------------------------------------------------
(* What the reader does with one item.                                     *)

LEMMA ReadsOpen ==
    ASSUME NEW q, IsReader(q), NEW id, id # 12, NEW w
    PROVE  Reads(q, <<Enter(id, w)>>, Set(q, "open", Append(q.open, Frame(id, w, Infos(q, id), NoType))))
  <1> DEFINE x == Enter(id, w)
             s == Set(q, "open", Append(q.open, Frame(id, w, Infos(q, id), NoType)))
  <1>1. ASSUME NEW m, NEW b PROVE Read(With(q, m, b), x) = With(s, m, b)
    <2> DEFINE r == With(q, m, b)
    <2>1. IsReader(r) /\ r.open = q.open /\ r.infos = q.infos
      BY WithReader, FieldsAre
    <2>2. Infos(r, id) = Infos(q, id)
      BY <2>1 DEF Infos
    <2>3. x.item = "enter" /\ x.id = id /\ x.width = w
      BY DEF Enter
    <2>4. Read(r, x) = Open(r, x)
      BY <2>3 DEF Read, BlockIDs
    <2>5. Open(r, x) = Add(r, "open", Frame(id, w, Infos(q, id), NoType))
      BY <2>2, <2>3 DEF Open, Frame
    <2> HIDE DEF r, x
    <2>6. Add(r, "open", Frame(id, w, Infos(q, id), NoType)) = Set(r, "open", Append(r.open, Frame(id, w, Infos(q, id), NoType)))
      BY <2>1, AddIs, FieldsAre
    <2>7. Set(r, "open", Append(q.open, Frame(id, w, Infos(q, id), NoType))) = With(s, m, b)
      BY WithSet DEF r
    <2> QED
      BY <2>1, <2>4, <2>5, <2>6, <2>7 DEF r
  <1> HIDE DEF x, s
  <1>2. Reads(q, <<x>>, s)
    BY <1>1, ReadsOne
  <1> QED
    BY <1>2 DEF x, s

LEMMA ReadsClose ==
    ASSUME NEW q, IsReader(q), NEW o, IsSeq(o), NEW t, q.open = Append(o, t), t.id # 12
    PROVE  Reads(q, <<Exit>>, Set(q, "open", o))
  <1> DEFINE s == Set(q, "open", o)
  <1>1. ASSUME NEW m, NEW b PROVE Read(With(q, m, b), Exit) = With(s, m, b)
    <2> DEFINE r == With(q, m, b)
    <2>1. IsReader(r) /\ r.open = q.open
      BY WithReader, FieldsAre
    <2>2. Top(r) = t /\ Close(r) = Set(r, "open", o)
      BY <2>1, TopIs
    <2>3. Read(r, Exit) = Close(r)
      BY <2>2 DEF Read, Exit, BlockIDs
    <2>4. Set(r, "open", o) = With(s, m, b)
      BY WithSet
    <2> QED
      BY <2>2, <2>3, <2>4
  <1> HIDE DEF s
  <1>2. Reads(q, <<Exit>>, s)
    BY <1>1, ReadsOne
  <1> QED
    BY <1>2 DEF s

LEMMA ReadsDefine ==
    ASSUME NEW q, IsReader(q), NEW o, IsSeq(o), NEW id, NEW w, NEW a, NEW ty,
           q.open = Append(o, Frame(id, w, a, ty)), NEW ops
    PROVE  Reads(q, <<Define(ops)>>, Set(q, "open", Append(o, Frame(id, w, Append(a, ops), ty))))
  <1> DEFINE x == Define(ops)
             s == Set(q, "open", Append(o, Frame(id, w, Append(a, ops), ty)))
  <1>1. ASSUME NEW m, NEW b PROVE Read(With(q, m, b), x) = With(s, m, b)
    <2> DEFINE r == With(q, m, b)
    <2>1. IsReader(r) /\ r.open = q.open
      BY WithReader, FieldsAre
    <2>2. x.item = "define" /\ x.ops = ops
      BY DEF Define
    <2>3. Top(r) = Frame(id, w, a, ty)
      BY <2>1, TopIs
    <2>4. Read(r, x) = SetTop(r, "abbrevs", Append(Top(r).abbrevs, ops))
      BY <2>2 DEF Read
    <2> HIDE DEF r, x
    <2>5. Frame(id, w, Append(a, ops), ty) = Updated(Frame(id, w, a, ty), "abbrevs", Append(a, ops))
      BY FrameFields
    <2>6. SetTop(r, "abbrevs", Append(a, ops)) = Set(r, "open", Append(o, Frame(id, w, Append(a, ops), ty)))
      BY <2>1, <2>5, SetTopIs
    <2>7. Frame(id, w, a, ty).abbrevs = a
      BY FrameFields
    <2>8. Set(r, "open", Append(o, Frame(id, w, Append(a, ops), ty))) = With(s, m, b)
      BY WithSet DEF r
    <2> QED
      BY <2>3, <2>4, <2>5, <2>6, <2>7, <2>8 DEF r
  <1> HIDE DEF x, s
  <1>2. Reads(q, <<x>>, s)
    BY <1>1, ReadsOne
  <1> QED
    BY <1>2 DEF x, s

\* Reading a record apart from whether it fits its abbreviation.
Took(r, x) ==
  CASE Top(r).id = BlockIDs.MODULE_BLOCK       -> ReadModule(r, x)
    [] Top(r).id = BlockIDs.PARAMATTR_BLOCK    -> Add(r, "attrs", Map(AttributesOf, Pairs(x.vals)))
    [] Top(r).id = BlockIDs.TYPE_BLOCK         -> ReadType(r, x)
    [] Top(r).id = BlockIDs.CONSTANTS_BLOCK    -> ReadConstant(r, x)
    [] Top(r).id \in {BlockIDs.METADATA_BLOCK, BlockIDs.METADATA_ATTACHMENT} -> ReadMetadata(r, x)
    [] Top(r).id = BlockIDs.VALUE_SYMTAB_BLOCK -> ReadName(r, x)
    [] Top(r).id = BlockIDs.FUNCTION_BLOCK     -> ReadFunction(r, x)

LEMMA ReadsRecord ==
    ASSUME NEW q, IsReader(q), NEW x, x.item = "record", NEW s,
           \A m, b : Took(With(q, m, b), x) = With(s, m, b)
    PROVE  Reads(q, <<x>>, s)
  <1>1. ASSUME NEW m, NEW b PROVE \E n : Read(With(q, m, b), x) = With(s, n, b)
    <2> DEFINE r == With(q, m, b)
               n == IF Abbreviable(r, x) THEN m ELSE r.misfits \cup {x}
               e == IF Abbreviable(r, x) THEN r ELSE Set(r, "misfits", r.misfits \cup {x})
    <2>1. e = With(q, n, b)
      BY WithMisfits
    <2>2. IsReader(r) /\ r.open = q.open /\ IsReader(With(q, n, b)) /\ With(q, n, b).open = q.open
      BY WithReader, FieldsAre
    <2>3. Top(e) = Top(r)
      BY <2>1, <2>2 DEF Top
    <2>4. Read(r, x) = ReadRecord(r, x)
      BY DEF Read
    <2>5. ReadRecord(r, x) = Took(e, x)
      <3> HIDE DEF r
      <3> QED
        BY <2>3 DEF ReadRecord, Took
    <2> HIDE DEF e, n, r
    <2>6. Took(e, x) = With(s, n, b)
      BY <2>1
    <2> QED
      BY <2>4, <2>5, <2>6 DEF r
  <1> QED
    BY <1>1, ReadsOne

------------------------------------------------------------------------------
(* Blocks, and lists read element by element.                              *)

\* The first k elements of es after b.
Grown(b, es, k) == b \o SubSeq(es, 1, k)
Grows(b, es) ==
  /\ Grown(b, es, 0) = b
  /\ Grown(b, es, Len(es)) = b \o es
  /\ \A k \in 0..Len(es) : IsSeq(Grown(b, es, k)) /\ Len(Grown(b, es, k)) = Len(b) + k
  /\ \A k \in 1..Len(es) : Grown(b, es, k) = Append(Grown(b, es, k - 1), es[k])

LEMMA GrownShape == ASSUME NEW b, IsSeq(b), NEW es, IsSeq(es) PROVE Grows(b, es)
  <1> DEFINE A == Elements(b) \cup Elements(es)
             n == Len(es)
  <1>1. b \in Seq(Elements(b)) /\ es \in Seq(Elements(es)) /\ n \in Nat
    BY SeqShape DEF IsSeq
  <1>2. b \in Seq(A) /\ es \in Seq(A)
    <2>1. Elements(b) \subseteq A /\ Elements(es) \subseteq A
      OBVIOUS
    <2> HIDE DEF A
    <2> QED
      BY <1>1, <2>1
  <1> HIDE DEF A
  <1>3. Grown(b, es, 0) = b
    BY <1>2 DEF Grown
  <1>4. Grown(b, es, n) = b \o es
    <2>1. SubSeq(es, 1, n) = es
      BY <1>1, <1>2
    <2> QED
      BY <2>1 DEF Grown
  <1>5. ASSUME NEW k \in 0..n PROVE IsSeq(Grown(b, es, k)) /\ Len(Grown(b, es, k)) = Len(b) + k
    <2>1. SubSeq(es, 1, k) \in Seq(A) /\ Len(SubSeq(es, 1, k)) = k
      BY <1>1, <1>2
    <2>2. Grown(b, es, k) \in Seq(A) /\ Len(Grown(b, es, k)) = Len(b) + k
      BY <1>2, <2>1 DEF Grown
    <2> QED
      BY <2>2, SeqIs
  <1>6. ASSUME NEW k \in 1..n PROVE Grown(b, es, k) = Append(Grown(b, es, k - 1), es[k])
    <2>1. es[k] \in A /\ k - 1 \in Nat
      BY <1>1, <1>2
    <2>2. SubSeq(es, 1, k) = Append(SubSeq(es, 1, k - 1), es[k])
      BY <1>1, <1>2, <2>1
    <2>3. SubSeq(es, 1, k - 1) \in Seq(A)
      BY <1>1, <1>2
    <2>4. \A c \in Seq(A) : b \o Append(c, es[k]) = Append(b \o c, es[k])
      BY <1>2, <2>1
    <2> QED
      BY <2>2, <2>3, <2>4 DEF Grown
  <1> QED
    BY <1>3, <1>4, <1>5, <1>6 DEF n, Grows

LEMMA SetFields ==
    ASSUME NEW r, IsReader(r), NEW f \in Fields, NEW x
    PROVE  /\ IsReader(Set(r, f, x)) /\ Set(r, f, x)[f] = x
           /\ \A g \in Fields : g # f => Set(r, f, x)[g] = r[g]
           /\ Set(r, f, r[f]) = r
           /\ \A y : Set(Set(r, f, x), f, y) = Set(r, f, y)
  BY SetReader, SetShape, SetSame, SetSet DEF IsReader

\* Every item adds its element to the field.
Adds(p, f, items, es) ==
  \A k \in 1..Len(es) : \A n : IsSeq(n) => Reads(Set(p, f, n), <<items[k]>>, Set(p, f, Append(n, es[k])))

LEMMA ReadsAdds ==
    ASSUME NEW p, IsReader(p), NEW f \in Fields, IsSeq(p[f]), NEW items, IsSeq(items), NEW es, IsSeq(es),
           Len(items) = Len(es), Adds(p, f, items, es)
    PROVE  Reads(p, items, Set(p, f, p[f] \o es))
  <1> DEFINE b == p[f]
             n == Len(es)
             G == [k \in 0..n |-> Set(p, f, Grown(b, es, k))]
  <1>1. n \in Nat
    BY DEF IsSeq
  <1>2. /\ Grown(b, es, 0) = b /\ Grown(b, es, n) = b \o es
        /\ \A k \in 0..n : IsSeq(Grown(b, es, k))
        /\ \A k \in 1..n : Grown(b, es, k) = Append(Grown(b, es, k - 1), es[k])
    <2>1. Grows(b, es)
      BY GrownShape
    <2> HIDE DEF b
    <2> QED
      BY <2>1 DEF Grows
  <1>3. ASSUME NEW k \in 1..Len(items) PROVE Reads(G[k - 1], <<items[k]>>, G[k])
    <2>1. k \in 1..n /\ k \in 0..n /\ k - 1 \in 0..n
      BY <1>1
    <2>2. IsSeq(Grown(b, es, k - 1)) /\ Grown(b, es, k) = Append(Grown(b, es, k - 1), es[k])
      BY <1>2, <2>1
    <2>3. G[k - 1] = Set(p, f, Grown(b, es, k - 1)) /\ G[k] = Set(p, f, Append(Grown(b, es, k - 1), es[k]))
      BY <2>1, <2>2
    <2> HIDE DEF G, b
    <2>4. k \in 1..Len(es)
      BY <2>1
    <2> QED
      BY <2>2, <2>3, <2>4 DEF Adds
  <1>4. G[0] = p /\ G[Len(items)] = Set(p, f, b \o es)
    <2>1. Set(p, f, b) = p
      BY SetFields
    <2>2. 0 \in 0..n /\ n \in 0..n
      BY <1>1
    <2> HIDE DEF b, n
    <2> QED
      BY <1>1, <1>2, <2>1, <2>2 DEF n
  <1> HIDE DEF G, n, b
  <1>5. Reads(G[0], items, G[Len(items)])
    BY <1>3, ReadsEach
  <1> QED
    BY <1>4, <1>5 DEF b

\* Every item adds its element to the field, and another to a second one.
AddsTwo(p, f, g, items, es, ts) ==
  \A k \in 1..Len(es) : \A n, t : IsSeq(n) /\ IsSeq(t) =>
    Reads(Set(Set(p, g, t), f, n), <<items[k]>>, Set(Set(p, g, Append(t, ts[k])), f, Append(n, es[k])))

LEMMA ReadsAddsTwo ==
    ASSUME NEW p, IsReader(p), NEW f \in Fields, NEW g \in Fields, f # g, IsSeq(p[f]), IsSeq(p[g]),
           NEW items, IsSeq(items), NEW es, IsSeq(es), NEW ts, IsSeq(ts),
           Len(items) = Len(es), Len(ts) = Len(es), AddsTwo(p, f, g, items, es, ts)
    PROVE  Reads(p, items, Set(Set(p, g, p[g] \o ts), f, p[f] \o es))
  <1> DEFINE b == p[f]
             c == p[g]
             n == Len(es)
             G == [k \in 0..n |-> Set(Set(p, g, Grown(c, ts, k)), f, Grown(b, es, k))]
  <1>1. n \in Nat
    BY DEF IsSeq
  <1>2. /\ Grown(b, es, 0) = b /\ Grown(b, es, n) = b \o es
        /\ \A k \in 0..n : IsSeq(Grown(b, es, k))
        /\ \A k \in 1..n : Grown(b, es, k) = Append(Grown(b, es, k - 1), es[k])
    <2>1. Grows(b, es)
      BY GrownShape
    <2> HIDE DEF b
    <2> QED
      BY <2>1 DEF Grows
  <1>3. /\ Grown(c, ts, 0) = c /\ Grown(c, ts, n) = c \o ts
        /\ \A k \in 0..n : IsSeq(Grown(c, ts, k))
        /\ \A k \in 1..n : Grown(c, ts, k) = Append(Grown(c, ts, k - 1), ts[k])
    <2>1. Grows(c, ts)
      BY GrownShape
    <2> HIDE DEF c
    <2> QED
      BY <2>1 DEF Grows
  <1>4. ASSUME NEW k \in 1..Len(items) PROVE Reads(G[k - 1], <<items[k]>>, G[k])
    <2>1. k \in 1..n /\ k \in 0..n /\ k - 1 \in 0..n
      BY <1>1
    <2>2. IsSeq(Grown(b, es, k - 1)) /\ Grown(b, es, k) = Append(Grown(b, es, k - 1), es[k])
      BY <1>2, <2>1
    <2>3. IsSeq(Grown(c, ts, k - 1)) /\ Grown(c, ts, k) = Append(Grown(c, ts, k - 1), ts[k])
      BY <1>3, <2>1
    <2>4. /\ G[k - 1] = Set(Set(p, g, Grown(c, ts, k - 1)), f, Grown(b, es, k - 1))
          /\ G[k] = Set(Set(p, g, Append(Grown(c, ts, k - 1), ts[k])), f, Append(Grown(b, es, k - 1), es[k]))
      BY <2>1, <2>2, <2>3
    <2> HIDE DEF G, b, c
    <2>5. k \in 1..Len(es)
      BY <2>1
    <2> QED
      BY <2>2, <2>3, <2>4, <2>5 DEF AddsTwo
  <1>5. G[0] = p /\ G[Len(items)] = Set(Set(p, g, c \o ts), f, b \o es)
    <2>1. Set(p, f, b) = p /\ Set(p, g, c) = p
      BY SetFields
    <2>2. 0 \in 0..n /\ n \in 0..n
      BY <1>1
    <2> HIDE DEF b, c, n
    <2> QED
      BY <1>1, <1>2, <1>3, <2>1, <2>2 DEF n
  <1> HIDE DEF G, n, b, c
  <1>6. Reads(G[0], items, G[Len(items)])
    BY <1>4, ReadsEach
  <1> QED
    BY <1>5, <1>6 DEF b, c

\* The same of one field, where an element takes several items.
AddsEach(p, f, ss, es) ==
  \A k \in 1..Len(es) : \A n : IsSeq(n) => Reads(Set(p, f, n), ss[k], Set(p, f, Append(n, es[k])))

LEMMA ReadsAddsEach ==
    ASSUME NEW p, IsReader(p), NEW f \in Fields, IsSeq(p[f]), NEW ss, IsSeq(ss), NEW es, IsSeq(es),
           Len(ss) = Len(es), AddsEach(p, f, ss, es)
    PROVE  Reads(p, FlattenSeq(ss), Set(p, f, p[f] \o es))
  <1> DEFINE b == p[f]
             n == Len(es)
             G == [k \in 0..n |-> Set(p, f, Grown(b, es, k))]
  <1>1. n \in Nat
    BY DEF IsSeq
  <1>2. /\ Grown(b, es, 0) = b /\ Grown(b, es, n) = b \o es
        /\ \A k \in 0..n : IsSeq(Grown(b, es, k))
        /\ \A k \in 1..n : Grown(b, es, k) = Append(Grown(b, es, k - 1), es[k])
    <2>1. Grows(b, es)
      BY GrownShape
    <2> HIDE DEF b
    <2> QED
      BY <2>1 DEF Grows
  <1>3. ASSUME NEW k \in 1..Len(ss) PROVE Reads(G[k - 1], ss[k], G[k])
    <2>1. k \in 1..n /\ k \in 0..n /\ k - 1 \in 0..n
      BY <1>1
    <2>2. IsSeq(Grown(b, es, k - 1)) /\ Grown(b, es, k) = Append(Grown(b, es, k - 1), es[k])
      BY <1>2, <2>1
    <2>3. G[k - 1] = Set(p, f, Grown(b, es, k - 1)) /\ G[k] = Set(p, f, Append(Grown(b, es, k - 1), es[k]))
      BY <2>1, <2>2
    <2> HIDE DEF G, b
    <2>4. k \in 1..Len(es)
      BY <2>1
    <2> QED
      BY <2>2, <2>3, <2>4 DEF AddsEach
  <1>4. G[0] = p /\ G[Len(ss)] = Set(p, f, b \o es)
    <2>1. Set(p, f, b) = p
      BY SetFields
    <2>2. 0 \in 0..n /\ n \in 0..n
      BY <1>1
    <2> HIDE DEF b, n
    <2> QED
      BY <1>1, <1>2, <2>1, <2>2 DEF n
  <1> HIDE DEF G, n, b
  <1>5. Reads(G[0], FlattenSeq(ss), G[Len(ss)])
    BY <1>3, ReadsFlat
  <1> QED
    BY <1>4, <1>5 DEF b

\* A list mapped item by item.
LEMMA MapShape ==
    ASSUME NEW s, IsSeq(s), NEW t, DOMAIN t = DOMAIN s, t = [k \in DOMAIN t |-> t[k]]
    PROVE  IsSeq(t) /\ Len(t) = Len(s) /\ DOMAIN s = 1..Len(s)
  <1>1. DOMAIN s = 1..Len(s) /\ Len(s) \in Nat
    BY SeqShape
  <1> QED
    BY <1>1, TabulatedSeq

\* The block is entered where the reader is q, and left.
Entered(q, id, w) == Set(q, "open", Append(q.open, Frame(id, w, Infos(q, id), NoType)))

LEMMA EnteredIs ==
    ASSUME NEW q, IsReader(q), IsSeq(q.open), NEW id, NEW w
    PROVE  /\ IsReader(Entered(q, id, w))
           /\ Entered(q, id, w).open = Append(q.open, Frame(id, w, Infos(q, id), NoType))
           /\ \A f \in Fields : f # "open" => Entered(q, id, w)[f] = q[f]
  <1>1. "open" \in Fields
    BY FieldsAre
  <1> DEFINE x == Append(q.open, Frame(id, w, Infos(q, id), NoType))
  <1> HIDE DEF x
  <1>2. IsReader(Set(q, "open", x)) /\ Set(q, "open", x).open = x
    BY <1>1, SetFields
  <1>3. \A f \in Fields : f # "open" => Set(q, "open", x)[f] = q[f]
    BY <1>1, SetFields
  <1> QED
    BY <1>2, <1>3 DEF Entered, x

LEMMA ReadsBlock ==
    ASSUME NEW q, IsReader(q), IsSeq(q.open), NEW id, id # 12, NEW w, NEW items, NEW s, IsReader(s),
           NEW t, t.id # 12, s.open = Append(q.open, t), Reads(Entered(q, id, w), items, s)
    PROVE  Reads(q, <<Enter(id, w)>> \o items \o <<Exit>>, Set(s, "open", q.open))
  <1>1. Reads(q, <<Enter(id, w)>>, Entered(q, id, w))
    BY ReadsOpen DEF Entered
  <1>2. Reads(q, <<Enter(id, w)>> \o items, s)
    BY <1>1, ReadsJoin
  <1>3. Reads(s, <<Exit>>, Set(s, "open", q.open))
    BY ReadsClose
  <1> QED
    BY <1>2, <1>3, ReadsJoin

------------------------------------------------------------------------------
(* Powers of two, by what they count: the subsets of an interval.          *)

LEMMA PowerNat ==
    ASSUME NEW n \in Nat
    PROVE  /\ 2 ^ n \in Nat /\ IsFiniteSet(SUBSET (1..n)) /\ Cardinality(SUBSET (1..n)) = 2 ^ n
           /\ 2 ^ n > 0
  <1>1. IsFiniteSet(1..n) /\ Cardinality(1..n) = n
    <2>1. 1 \in Int /\ n \in Int
      OBVIOUS
    <2>2. Cardinality(1..n) = IF 1 > n THEN 0 ELSE n - 1 + 1
      BY <2>1, FS_Interval
    <2> QED
      BY <2>1, <2>2, FS_Interval
  <1>2. IsFiniteSet(SUBSET (1..n)) /\ Cardinality(SUBSET (1..n)) = 2 ^ n
    <2> DEFINE A == 1..n
    <2> HIDE DEF A
    <2>1. IsFiniteSet(A) /\ Cardinality(A) = n
      BY <1>1 DEF A
    <2>2. IsFiniteSet(SUBSET A) /\ Cardinality(SUBSET A) = 2 ^ Cardinality(A)
      BY <2>1, FS_SUBSET
    <2> QED
      BY <2>1, <2>2 DEF A
  <1>3. 2 ^ n \in Nat
    <2>1. Cardinality(SUBSET (1..n)) \in Nat
      BY <1>2, FS_CardinalityType
    <2> QED
      BY <1>2, <2>1
  <1>4. 2 ^ n # 0
    <2>1. {} \in SUBSET (1..n)
      OBVIOUS
    <2>2. Cardinality(SUBSET (1..n)) # 0
      <3>1. SUBSET (1..n) # {}
        BY <2>1
      <3> QED
        BY <1>2, <3>1, FS_EmptySet
    <2> QED
      BY <1>2, <2>2
  <1> QED
    BY <1>2, <1>3, <1>4

LEMMA PowerStep ==
    ASSUME NEW n \in Nat
    PROVE  2 ^ (n + 1) = 2 * 2 ^ n
  <1> DEFINE S == SUBSET (1..n)
             T == {s \cup {n + 1} : s \in S}
             f == [s \in S |-> s \cup {n + 1}]
  <1>1. SUBSET (1..(n + 1)) = S \cup T
    <2>1. ASSUME NEW s \in SUBSET (1..(n + 1)) PROVE s \in S \cup T
      <3>1. CASE n + 1 \in s
        <4>1. s \ {n + 1} \in S /\ s = (s \ {n + 1}) \cup {n + 1}
          BY <3>1
        <4> QED
          BY <4>1
      <3>2. CASE n + 1 \notin s
        BY <3>2
      <3> QED
        BY <3>1, <3>2
    <2>2. ASSUME NEW s \in S \cup T PROVE s \in SUBSET (1..(n + 1))
      OBVIOUS
    <2> HIDE DEF S, T
    <2> QED
      BY <2>1, <2>2
  <1>2. S \cap T = {}
    OBVIOUS
  <1>3. f \in Bijection(S, T)
    <2>1. f \in [S -> T]
      OBVIOUS
    <2>2. ASSUME NEW a \in S, NEW b \in S, f[a] = f[b] PROVE a = b
      <3>1. a = (a \cup {n + 1}) \ {n + 1} /\ b = (b \cup {n + 1}) \ {n + 1}
        OBVIOUS
      <3> QED
        BY <2>2, <3>1
    <2>3. \A t \in T : \E s \in S : f[s] = t
      OBVIOUS
    <2> HIDE DEF S, T, f
    <2> QED
      BY <2>1, <2>2, <2>3 DEF Bijection, Injection, Surjection, IsInjective
  <1>4. IsFiniteSet(S) /\ Cardinality(S) = 2 ^ n /\ 2 ^ n \in Nat
    BY PowerNat
  <1> HIDE DEF S, T, f
  <1>5. IsFiniteSet(T) /\ Cardinality(T) = 2 ^ n
    <2>1. ExistsBijection(S, T)
      BY <1>3 DEF ExistsBijection
    <2> QED
      BY <1>4, <2>1, FS_Bijection
  <1>6. Cardinality(S \cup T) = 2 ^ n + 2 ^ n
    <2>1. Cardinality(S \cup T) = Cardinality(S) + Cardinality(T) - Cardinality(S \cap T)
      BY <1>4, <1>5, FS_Union
    <2>2. Cardinality(S \cap T) = 0
      BY <1>2, FS_EmptySet
    <2> QED
      BY <1>4, <1>5, <2>1, <2>2
  <1>7. Cardinality(SUBSET (1..(n + 1))) = 2 ^ (n + 1)
    <2>1. n + 1 \in Nat
      OBVIOUS
    <2> QED
      BY <2>1, PowerNat
  <1> QED
    BY <1>1, <1>4, <1>6, <1>7

LEMMA PowerSum ==
    ASSUME NEW a \in Nat, NEW b \in Nat
    PROVE  2 ^ (a + b) = 2 ^ a * 2 ^ b
  <1> DEFINE S == {k \in Nat : 2 ^ (a + k) = 2 ^ a * 2 ^ k}
  <1>1. 0 \in S
    <2>1. 2 ^ a \in Nat
      BY PowerNat
    <2>2. 2 ^ 0 = 1 /\ a + 0 = a
      OBVIOUS
    <2> QED
      BY <2>1, <2>2
  <1>2. ASSUME NEW k \in Nat, k \in S PROVE k + 1 \in S
    <2>1. 2 ^ (k + 1) = 2 * 2 ^ k
      BY PowerStep
    <2>2. 2 ^ (a + (k + 1)) = 2 * 2 ^ (a + k)
      <3>1. a + k \in Nat /\ a + (k + 1) = (a + k) + 1
        OBVIOUS
      <3>2. 2 ^ ((a + k) + 1) = 2 * 2 ^ (a + k)
        BY <3>1, PowerStep
      <3> QED
        BY <3>1, <3>2
    <2>3. 2 ^ a \in Nat /\ 2 ^ k \in Nat
      BY PowerNat
    <2>4. 2 ^ (a + k) = 2 ^ a * 2 ^ k
      BY <1>2
    <2>5. \A p, q \in Nat : 2 * (p * q) = p * (2 * q)
      OBVIOUS
    <2> QED
      BY <2>1, <2>2, <2>3, <2>4, <2>5
  <1> HIDE DEF S
  <1>3. b \in S
    BY <1>1, <1>2, NatSetInduction
  <1> QED
    BY <1>3 DEF S

------------------------------------------------------------------------------
(* Records, each of which sets fields.                                     *)

\* Readers that differ in what nothing they read depends on.
Like(u, r) == IsReader(u) /\ \A f \in Fields \ {"misfits", "bytes"} : u[f] = r[f]

LEMMA LikeFields ==
    ASSUME NEW u, NEW r, Like(u, r)
    PROVE  /\ IsReader(u) /\ u.open = r.open /\ u.infos = r.infos /\ u.attrs = r.attrs
           /\ u.types = r.types /\ u.tname = r.tname /\ u.triple = r.triple /\ u.layout = r.layout
           /\ u.asm = r.asm /\ u.sections = r.sections /\ u.gcs = r.gcs /\ u.globals = r.globals
           /\ u.functions = r.functions /\ u.aliases = r.aliases /\ u.tys = r.tys
           /\ u.consts = r.consts /\ u.told = r.told /\ u.mds = r.mds /\ u.named = r.named
           /\ u.kinds = r.kinds /\ u.names = r.names /\ u.bodies = r.bodies
           /\ u.moduleTys = r.moduleTys /\ u.moduleTold = r.moduleTold
  BY FieldsAre DEF Like

LEMMA WithLike == ASSUME NEW r, IsReader(r), NEW m, NEW b PROVE Like(With(r, m, b), r)
  BY WithReader DEF Like

Apart == Fields \ {"misfits", "bytes"}

LEMMA ReadsSame ==
    ASSUME NEW r, IsReader(r), NEW x, x.item = "record", \A u : Like(u, r) => Took(u, x) = u
    PROVE  Reads(r, <<x>>, r)
  <1>1. ASSUME NEW m, NEW b PROVE Took(With(r, m, b), x) = With(r, m, b)
    BY WithLike
  <1> QED
    BY <1>1, ReadsRecord

LEMMA ReadsSets ==
    ASSUME NEW r, IsReader(r), NEW x, x.item = "record", NEW f \in Apart, NEW v,
           \A u : Like(u, r) => Took(u, x) = Set(u, f, v)
    PROVE  Reads(r, <<x>>, Set(r, f, v))
  <1>1. ASSUME NEW m, NEW b PROVE Took(With(r, m, b), x) = With(Set(r, f, v), m, b)
    <2>1. Took(With(r, m, b), x) = Set(With(r, m, b), f, v)
      BY WithLike
    <2>2. f # "misfits" /\ f # "bytes"
      BY DEF Apart
    <2>3. Set(With(r, m, b), f, v) = With(Set(r, f, v), m, b)
      BY <2>2, WithSet
    <2> QED
      BY <2>1, <2>3
  <1> QED
    BY <1>1, ReadsRecord

LEMMA ReadsSetsTwo ==
    ASSUME NEW r, IsReader(r), NEW x, x.item = "record", NEW f \in Apart, NEW v, NEW g \in Apart, NEW w,
           \A u : Like(u, r) => Took(u, x) = Set(Set(u, g, w), f, v)
    PROVE  Reads(r, <<x>>, Set(Set(r, g, w), f, v))
  <1>1. ASSUME NEW m, NEW b PROVE Took(With(r, m, b), x) = With(Set(Set(r, g, w), f, v), m, b)
    <2>1. Took(With(r, m, b), x) = Set(Set(With(r, m, b), g, w), f, v)
      BY WithLike
    <2>2. f # "misfits" /\ f # "bytes" /\ g # "misfits" /\ g # "bytes"
      BY DEF Apart
    <2>3. Set(With(r, m, b), g, w) = With(Set(r, g, w), m, b)
      BY <2>2, WithSet
    <2>4. Set(With(Set(r, g, w), m, b), f, v) = With(Set(Set(r, g, w), f, v), m, b)
      BY <2>2, WithSet
    <2> QED
      BY <2>1, <2>3, <2>4
  <1> QED
    BY <1>1, ReadsRecord

LEMMA ReadsSetsThree ==
    ASSUME NEW r, IsReader(r), NEW x, x.item = "record", NEW f \in Apart, NEW v, NEW g \in Apart, NEW w,
           NEW h \in Apart, NEW z,
           \A u : Like(u, r) => Took(u, x) = Set(Set(Set(u, h, z), g, w), f, v)
    PROVE  Reads(r, <<x>>, Set(Set(Set(r, h, z), g, w), f, v))
  <1>1. ASSUME NEW m, NEW b PROVE Took(With(r, m, b), x) = With(Set(Set(Set(r, h, z), g, w), f, v), m, b)
    <2>1. Took(With(r, m, b), x) = Set(Set(Set(With(r, m, b), h, z), g, w), f, v)
      BY WithLike
    <2>2. f # "misfits" /\ f # "bytes" /\ g # "misfits" /\ g # "bytes" /\ h # "misfits" /\ h # "bytes"
      BY DEF Apart
    <2>3. Set(With(r, m, b), h, z) = With(Set(r, h, z), m, b)
      BY <2>2, WithSet
    <2>4. Set(With(Set(r, h, z), m, b), g, w) = With(Set(Set(r, h, z), g, w), m, b)
      BY <2>2, WithSet
    <2>5. Set(With(Set(Set(r, h, z), g, w), m, b), f, v) = With(Set(Set(Set(r, h, z), g, w), f, v), m, b)
      BY <2>2, WithSet
    <2> QED
      BY <2>1, <2>3, <2>4, <2>5
  <1> QED
    BY <1>1, ReadsRecord

LEMMA ApartAre ==
    Apart = {"open", "infos", "attrs", "types", "tname", "triple", "layout",
              "asm", "sections", "gcs", "globals", "functions", "aliases", "tys", "consts", "told",
              "mds", "named", "kinds", "names", "bodies", "moduleTys", "moduleTold"}
  BY FieldsAre DEF Apart

\* The reader is in a block.
In(r, id) == IsReader(r) /\ \E o, w, a, ty : IsSeq(o) /\ r.open = Append(o, Frame(id, w, a, ty))

LEMMA InTop ==
    ASSUME NEW r, NEW id, In(r, id), NEW u, Like(u, r)
    PROVE  In(u, id) /\ Top(u).id = id
  <1>1. PICK o, w, a, ty : IsSeq(o) /\ r.open = Append(o, Frame(id, w, a, ty))
    BY DEF In
  <1>2. u.open = r.open /\ IsReader(u)
    BY LikeFields
  <1> DEFINE t == Frame(id, w, a, ty)
  <1>3. t.id = id
    BY FrameFields
  <1> HIDE DEF t
  <1>4. u.open = Append(o, t)
    BY <1>1, <1>2 DEF t
  <1>5. Top(u) = t
    BY <1>1, <1>4, TopIs
  <1> QED
    BY <1>1, <1>2, <1>3, <1>5 DEF In

LEMMA InEntered ==
    ASSUME NEW q, IsReader(q), IsSeq(q.open), NEW id, NEW w
    PROVE  In(Entered(q, id, w), id)
  <1> DEFINE p == Entered(q, id, w)
  <1>1. IsReader(p) /\ p.open = Append(q.open, Frame(id, w, Infos(q, id), NoType))
    BY EnteredIs
  <1> HIDE DEF p
  <1>2. In(p, id)
    BY <1>1 DEF In
  <1> QED
    BY <1>2 DEF p

LEMMA InSet ==
    ASSUME NEW r, NEW id, In(r, id), NEW f \in Apart, f # "open", NEW x
    PROVE  In(Set(r, f, x), id) /\ Set(r, f, x).open = r.open
  <1>1. IsReader(Set(r, f, x)) /\ Set(r, f, x).open = r.open
    <2>1. "open" \in Fields /\ f \in Fields /\ IsReader(r)
      BY FieldsAre DEF Apart, In
    <2> QED
      BY <2>1, SetFields
  <1> QED
    BY <1>1 DEF In

LEMMA TookIs ==
    ASSUME NEW u, NEW x
    PROVE  /\ Top(u).id = 8 => Took(u, x) = ReadModule(u, x)
           /\ Top(u).id = 9 => Took(u, x) = Add(u, "attrs", Map(AttributesOf, Pairs(x.vals)))
           /\ Top(u).id = 17 => Took(u, x) = ReadType(u, x)
           /\ Top(u).id = 11 => Took(u, x) = ReadConstant(u, x)
           /\ Top(u).id \in {15, 16} => Took(u, x) = ReadMetadata(u, x)
           /\ Top(u).id = 14 => Took(u, x) = ReadName(u, x)
           /\ Top(u).id = 12 => Took(u, x) = ReadFunction(u, x)
  BY DEF Took, BlockIDs

LEMMA RecordFields ==
    ASSUME NEW c, NEW v, NEW ab
    PROVE  /\ Record(c, v, ab).item = "record" /\ Record(c, v, ab).code = c
           /\ Record(c, v, ab).vals = v /\ Record(c, v, ab).abbrev = ab
  BY DEF Record

\* A block that is a list, left out when it is empty.
LEMMA ReadsListBlock ==
    ASSUME NEW q, IsReader(q), IsSeq(q.open), NEW id, id # 12, NEW w, NEW f \in Apart, f # "open",
           IsSeq(q[f]), NEW items, IsSeq(items), NEW es, IsSeq(es), Len(items) = Len(es),
           Adds(Entered(q, id, w), f, items, es)
    PROVE  Reads(q, InBlock(id, w, items), Set(q, f, q[f] \o es))
  <1> DEFINE p == Entered(q, id, w)
             t == Frame(id, w, Infos(q, id), NoType)
             v == q[f] \o es
             s == Set(p, f, v)
  <1>0. f \in Fields /\ "open" \in Fields
    BY FieldsAre DEF Apart
  <1>1. IsReader(p) /\ p.open = Append(q.open, t) /\ p[f] = q[f]
    BY <1>0, EnteredIs
  <1>2. CASE items = <<>>
    <2>1. InBlock(id, w, items) = Empty
      BY <1>2 DEF InBlock, Empty
    <2>2. Len(es) = 0
      BY <1>2
    <2>3. v = q[f]
      <3>1. IsSeq(v) /\ Len(v) = Len(q[f]) + 0 /\ \A k \in 1..Len(q[f]) : v[k] = q[f][k]
        BY <2>2, JoinShape
      <3>2. Len(q[f]) \in Nat
        BY DEF IsSeq
      <3> HIDE DEF v
      <3> QED
        BY <3>1, <3>2, SameSeq
    <2>4. Set(q, f, v) = q
      <3> HIDE DEF v
      <3> QED
        BY <1>0, <2>3, SetFields
    <2> QED
      BY <2>1, <2>4, ReadsNone
  <1>3. CASE items # <<>>
    <2>1. InBlock(id, w, items) = <<Enter(id, w)>> \o items \o <<Exit>>
      BY <1>3 DEF InBlock
    <2>2. Reads(p, items, s)
      <3>1. Reads(p, items, Set(p, f, p[f] \o es))
        <4> HIDE DEF p
        <4> QED
          BY <1>0, <1>1, ReadsAdds DEF p
      <3> QED
        BY <1>1, <3>1
    <2>3. IsReader(s) /\ s.open = Append(q.open, t)
      <3> HIDE DEF p, t, v
      <3>1. IsReader(Set(p, f, v)) /\ Set(p, f, v).open = p.open
        BY <1>0, <1>1, SetFields
      <3> QED
        BY <1>1, <3>1
    <2>4. t.id # 12
      BY FrameFields
    <2> HIDE DEF s, t
    <2>5. Reads(q, <<Enter(id, w)>> \o items \o <<Exit>>, Set(s, "open", q.open))
      BY <2>2, <2>3, <2>4, ReadsBlock
    <2>6. Set(s, "open", q.open) = Set(q, f, v)
      <3> HIDE DEF v
      <3>1. s = Set(Set(q, "open", Append(q.open, t)), f, v)
        BY DEF s, Entered, t
      <3>2. s = Set(Set(q, f, v), "open", Append(q.open, t))
        BY <3>1, SetApart
      <3>3. Set(s, "open", q.open) = Set(Set(q, f, v), "open", q.open)
        BY <3>2, SetSet
      <3>4. Set(Set(q, "open", q.open), f, v) = Set(Set(q, f, v), "open", q.open)
        BY SetApart
      <3>5. Set(q, "open", q.open) = q
        BY <1>0, SetFields
      <3> QED
        BY <3>3, <3>4, <3>5
    <2> QED
      BY <2>1, <2>5, <2>6
  <1> QED
    BY <1>2, <1>3

------------------------------------------------------------------------------
(* What starts the module, the standard abbreviations, the use lists.      *)

LEMMA TwoSeq ==
    ASSUME NEW a, NEW b
    PROVE  /\ <<a>> \o <<b>> = <<a, b>>
           /\ IsSeq(<<a, b>>) /\ Len(<<a, b>>) = 2
           /\ <<a, b>>[1] = a /\ <<a, b>>[2] = b
  <1> DEFINE A == {a, b}
             s == <<a>> \o <<b>>
             t == <<a, b>>
  <1>1. t \in Seq(A)
    OBVIOUS
  <1>2. Len(t) = 2 /\ t[1] = a /\ t[2] = b
    OBVIOUS
  <1>3. IsSeq(t)
    BY <1>1, SeqIs
  <1>4. IsSeq(s) /\ Len(s) = 2 /\ s[1] = a /\ s[2] = b
    <2>1. IsSeq(<<a>>) /\ IsSeq(<<b>>) /\ Len(<<a>>) = 1 /\ Len(<<b>>) = 1 /\ <<a>>[1] = a /\ <<b>>[1] = b
      BY OneSeq
    <2> QED
      BY <2>1, JoinShape
  <1> HIDE DEF s, t
  <1>5. s = t
    BY <1>2, <1>3, <1>4, SameSeq
  <1> QED
    BY <1>2, <1>3, <1>5 DEF s, t

LEMMA ReadsMagic == ASSUME NEW q PROVE Reads(q, <<Magic>>, q)
  <1>1. ASSUME NEW m, NEW b PROVE Read(With(q, m, b), Magic) = With(q, m, b)
    BY DEF Read, Magic
  <1> QED
    BY <1>1, ReadsOne

LEMMA ReadsBegin ==
    ASSUME NEW q, IsReader(q), IsSeq(q.open)
    PROVE  Reads(q, <<Enter(BlockIDs.MODULE_BLOCK, 3), Record(ModuleCodes.VERSION, <<1>>, 0)>>,
                 Entered(q, 8, 3))
  <1> DEFINE p == Entered(q, 8, 3)
             x == Record(ModuleCodes.VERSION, <<1>>, 0)
             e == Enter(BlockIDs.MODULE_BLOCK, 3)
  <1>1. Reads(q, <<e>>, p)
    <2>1. e = Enter(8, 3)
      BY DEF BlockIDs
    <2>2. Reads(q, <<Enter(8, 3)>>, Set(q, "open", Append(q.open, Frame(8, 3, Infos(q, 8), NoType))))
      BY ReadsOpen
    <2> QED
      BY <2>1, <2>2 DEF Entered
  <1>2. In(p, 8) /\ IsReader(p)
    BY InEntered, EnteredIs
  <1> HIDE DEF p
  <1>3. x.item = "record" /\ x.code = 1
    BY RecordFields DEF ModuleCodes
  <1> HIDE DEF x, e
  <1>4. ASSUME NEW u, Like(u, p) PROVE Took(u, x) = u
    <2>1. Took(u, x) = ReadModule(u, x)
      BY <1>2, <1>4, InTop, TookIs
    <2> QED
      BY <1>3, <2>1 DEF ReadModule, ModuleCodes
  <1>5. Reads(p, <<x>>, p)
    BY <1>2, <1>3, <1>4, ReadsSame
  <1>6. Reads(q, <<e>> \o <<x>>, p)
    BY <1>1, <1>5, ReadsJoin
  <1>7. <<e>> \o <<x>> = <<e, x>>
    BY TwoSeq
  <1> QED
    BY <1>6, <1>7 DEF p, x, e

LEMMA ReadsInfo ==
    ASSUME NEW q, IsReader(q), NEW x, x.item = "info"
    PROVE  \E i : Reads(q, <<x>>, Set(q, "infos", i))
  <1> DEFINE i == (x.id :> Append(Infos(q, x.id), x.ops)) @@ q.infos
  <1>1. ASSUME NEW m, NEW b PROVE Read(With(q, m, b), x) = With(Set(q, "infos", i), m, b)
    <2> DEFINE u == With(q, m, b)
    <2>1. u.infos = q.infos
      BY WithLike, LikeFields
    <2>2. Infos(u, x.id) = Infos(q, x.id)
      BY <2>1 DEF Infos
    <2>3. Read(u, x) = Set(u, "infos", (x.id :> Append(Infos(u, x.id), x.ops)) @@ u.infos)
      BY DEF Read
    <2>4. Read(u, x) = Set(u, "infos", i)
      BY <2>1, <2>2, <2>3
    <2> HIDE DEF i
    <2> QED
      BY <2>4, WithSet
  <1> HIDE DEF i
  <1>2. Reads(q, <<x>>, Set(q, "infos", i))
    BY <1>1, ReadsOne
  <1> QED
    BY <1>2

LEMMA ReadsInfos ==
    ASSUME NEW q, IsReader(q), NEW items, IsSeq(items), \A k \in 1..Len(items) : items[k].item = "info"
    PROVE  \E i : Reads(q, items, Set(q, "infos", i))
  <1> DEFINE n == Len(items)
             S == {k \in Nat : k <= n => \E i : Reads(q, SubSeq(items, 1, k), Set(q, "infos", i))}
  <1>1. n \in Nat /\ items \in Seq(Elements(items)) /\ "infos" \in Fields
    BY SeqShape, FieldsAre
  <1>2. 0 \in S
    <2>1. Reads(q, Empty, q)
      BY ReadsNone
    <2>2. SubSeq(items, 1, 0) = Empty
      BY <1>1 DEF Empty
    <2>3. Set(q, "infos", q.infos) = q
      BY <1>1, SetFields
    <2>4. Reads(q, SubSeq(items, 1, 0), Set(q, "infos", q.infos))
      BY <2>1, <2>2, <2>3
    <2> QED
      BY <2>4
  <1> HIDE DEF n
  <1>3. ASSUME NEW k \in Nat, k \in S PROVE k + 1 \in S
    <2> SUFFICES ASSUME k + 1 <= n PROVE \E i : Reads(q, SubSeq(items, 1, k + 1), Set(q, "infos", i))
      OBVIOUS
    <2>1. k + 1 \in 1..n /\ k <= n
      BY <1>1
    <2>2. PICK i : Reads(q, SubSeq(items, 1, k), Set(q, "infos", i))
      BY <1>3, <2>1
    <2> DEFINE s == Set(q, "infos", i)
    <2>3. IsReader(s)
      BY <1>1, SetFields
    <2>4. items[k + 1].item = "info"
      BY <2>1 DEF n
    <2> HIDE DEF s
    <2>5. PICK j : Reads(s, <<items[k + 1]>>, Set(s, "infos", j))
      BY <2>3, <2>4, ReadsInfo
    <2>6. Set(s, "infos", j) = Set(q, "infos", j)
      BY SetSet DEF s
    <2>7. SubSeq(items, 1, k + 1) = SubSeq(items, 1, k) \o <<items[k + 1]>>
      BY <1>1, <2>1 DEF n
    <2>8. Reads(q, SubSeq(items, 1, k) \o <<items[k + 1]>>, Set(q, "infos", j))
      BY <2>2, <2>5, <2>6, ReadsJoin DEF s
    <2> QED
      BY <2>7, <2>8
  <1> HIDE DEF S
  <1>4. n \in S
    BY <1>1, <1>2, <1>3, NatSetInduction
  <1>5. SubSeq(items, 1, n) = items
    BY <1>1 DEF n
  <1>6. PICK i : Reads(q, SubSeq(items, 1, n), Set(q, "infos", i))
    BY <1>1, <1>4 DEF S
  <1> QED
    BY <1>5, <1>6

\* All abbreviations of one block.
Standard(id, abbrevs) == Map(LAMBDA a : DefineInfo(id, a), abbrevs)

LEMMA ReadsStandard ==
    ASSUME NEW q, IsReader(q), NEW id, NEW abbrevs, IsSeq(abbrevs)
    PROVE  \E i : Reads(q, Standard(id, abbrevs), Set(q, "infos", i))
  <1> DEFINE items == Standard(id, abbrevs)
  <1>1. DOMAIN items = DOMAIN abbrevs /\ items = [k \in DOMAIN items |-> items[k]]
    BY DEF Standard, Map
  <1>2. \A k \in DOMAIN abbrevs : items[k].item = "info"
    BY DEF Standard, Map, DefineInfo
  <1> HIDE DEF items
  <1>3. IsSeq(items) /\ Len(items) = Len(abbrevs) /\ DOMAIN abbrevs = 1..Len(abbrevs)
    BY <1>1, MapShape
  <1>4. \E i : Reads(q, items, Set(q, "infos", i))
    BY <1>2, <1>3, ReadsInfos
  <1> QED
    BY <1>4 DEF items

LEMMA ReadsBlockInfo ==
    ASSUME NEW mod, NEW q, IsReader(q), IsSeq(q.open)
    PROVE  \E i : Reads(q, WriteBlockInfo(mod), Set(q, "infos", i))
  <1> DEFINE p == Entered(q, 0, 2)
             E == <<Enter(BLOCKINFO, 2)>>
             A == Standard(BlockIDs.VALUE_SYMTAB_BLOCK, VSTAbbrevs)
             B == Standard(BlockIDs.CONSTANTS_BLOCK, ConstantsAbbrevs(mod))
             C == Standard(BlockIDs.FUNCTION_BLOCK, FunctionAbbrevs(mod))
  <1>0. IsSeq(VSTAbbrevs) /\ IsSeq(ConstantsAbbrevs(mod)) /\ IsSeq(FunctionAbbrevs(mod))
    BY DEF IsSeq, VSTAbbrevs, ConstantsAbbrevs, FunctionAbbrevs
  <1>1. WriteBlockInfo(mod) = E \o A \o B \o C \o <<Exit>>
    BY DEF WriteBlockInfo, Standard
  <1>2. Reads(q, E, p)
    BY ReadsOpen DEF BLOCKINFO, Entered
  <1>3. IsReader(p) /\ p.open = Append(q.open, Frame(0, 2, Infos(q, 0), NoType))
    BY EnteredIs
  <1>f. "infos" \in Fields /\ "open" \in Fields
    BY FieldsAre
  <1> HIDE DEF A, B, C, E
  <1> DEFINE S(i) == Set(p, "infos", i)
  <1>4. \A i : IsReader(S(i)) /\ S(i).open = p.open
    <2> HIDE DEF p
    <2> QED
      BY <1>3, <1>f, SetFields
  <1>5. PICK a : Reads(p, A, S(a))
    BY <1>0, <1>3, ReadsStandard DEF A
  <1>6. PICK b : Reads(S(a), B, S(b))
    <2> HIDE DEF p
    <2>1. PICK b : Reads(S(a), B, Set(S(a), "infos", b))
      <3> HIDE DEF S
      <3> QED
        BY <1>0, <1>4, ReadsStandard DEF B
    <2>2. Set(S(a), "infos", b) = S(b)
      BY SetSet
    <2> QED
      BY <2>1, <2>2
  <1>7. PICK c : Reads(S(b), C, S(c))
    <2> HIDE DEF p
    <2>1. PICK c : Reads(S(b), C, Set(S(b), "infos", c))
      <3> HIDE DEF S
      <3> QED
        BY <1>0, <1>4, ReadsStandard DEF C
    <2>2. Set(S(b), "infos", c) = S(c)
      BY SetSet
    <2> QED
      BY <2>1, <2>2
  <1>8. Reads(S(c), <<Exit>>, Set(S(c), "open", q.open))
    <2> DEFINE t == Frame(0, 2, Infos(q, 0), NoType)
    <2>1. t.id # 12
      BY FrameFields
    <2> HIDE DEF t
    <2>2. IsReader(S(c)) /\ S(c).open = Append(q.open, t)
      BY <1>3, <1>4 DEF t
    <2> HIDE DEF S
    <2> QED
      BY <2>1, <2>2, ReadsClose
  <1>9. Set(S(c), "open", q.open) = Set(q, "infos", c)
    <2>1. S(c) = Set(Set(q, "infos", c), "open", Append(q.open, Frame(0, 2, Infos(q, 0), NoType)))
      BY SetApart DEF Entered
    <2>2. Set(S(c), "open", q.open) = Set(Set(q, "infos", c), "open", q.open)
      BY <2>1, SetSet
    <2>3. Set(Set(q, "open", q.open), "infos", c) = Set(Set(q, "infos", c), "open", q.open)
      BY SetApart
    <2>4. Set(q, "open", q.open) = q
      BY <1>f, SetFields
    <2> QED
      BY <2>2, <2>3, <2>4
  <1> HIDE DEF p, S
  <1>10. Reads(q, E \o A, S(a))
    BY <1>2, <1>5, ReadsJoin
  <1>11. Reads(q, E \o A \o B, S(b))
    BY <1>6, <1>10, ReadsJoin
  <1>12. Reads(q, E \o A \o B \o C, S(c))
    BY <1>7, <1>11, ReadsJoin
  <1>13. Reads(q, E \o A \o B \o C \o <<Exit>>, Set(q, "infos", c))
    BY <1>8, <1>9, <1>12, ReadsJoin
  <1> QED
    BY <1>1, <1>13

LEMMA ReadsUseLists ==
    ASSUME NEW mod, mod.preserveUseLists \in BOOLEAN, NEW q, IsReader(q), IsSeq(q.open)
    PROVE  Reads(q, WriteModuleUseLists(mod), q)
  <1>1. CASE ~mod.preserveUseLists
    <2>1. WriteModuleUseLists(mod) = Empty
      BY <1>1 DEF WriteModuleUseLists, Empty
    <2> QED
      BY <2>1, ReadsNone
  <1>2. CASE mod.preserveUseLists
    <2> DEFINE e == Enter(18, 3)
               p == Entered(q, 18, 3)
               t == Frame(18, 3, Infos(q, 18), NoType)
    <2>1. WriteModuleUseLists(mod) = <<e>> \o <<Exit>>
      BY <1>2 DEF WriteModuleUseLists, BlockIDs
    <2>2. Reads(q, <<e>>, p)
      BY ReadsOpen DEF Entered
    <2>3. IsReader(p) /\ p.open = Append(q.open, t) /\ t.id # 12
      BY EnteredIs, FrameFields
    <2> HIDE DEF e, t
    <2>4. Set(p, "open", q.open) = q
      <3>1. "open" \in Fields
        BY FieldsAre
      <3>2. Set(q, "open", q.open) = q
        BY <3>1, SetFields
      <3> QED
        BY <3>2, SetSet DEF Entered
    <2> HIDE DEF p
    <2>5. Reads(p, <<Exit>>, q)
      BY <2>3, <2>4, ReadsClose
    <2> QED
      BY <2>1, <2>2, <2>5, ReadsJoin
  <1> QED
    BY <1>1, <1>2

------------------------------------------------------------------------------
(* The writer's own state.                                                 *)

LEMMA NextBodyIs ==
    ASSUME NEW f \in Nat \ {0}, IsSeq(M.functions), f <= Len(M.functions) + 1
    PROVE  /\ NextBody(f) \in f..(Len(M.functions) + 1)
           /\ NextBody(f) <= Len(M.functions) => ~isDeclaration(NextBody(f))
           /\ \A h \in f..(NextBody(f) - 1) : isDeclaration(h)
  <1> DEFINE n == Len(M.functions)
             P(g) == /\ g \in DOMAIN M.functions => ~isDeclaration(g)
                     /\ \A h \in f..(g - 1) : isDeclaration(h)
             S == {g \in f..(n + 1) : g \in DOMAIN M.functions => ~isDeclaration(g)}
  <1>1. n \in Nat /\ DOMAIN M.functions = 1..n
    BY SeqShape
  <1>2. n + 1 \in S /\ S \in SUBSET Nat
    BY <1>1
  <1>3. PICK g \in S : \A h \in S : g <= h
    BY <1>2, LeastNatural
  <1>4. g \in f..(n + 1) /\ P(g)
    <2>1. ASSUME NEW h \in f..(g - 1) PROVE isDeclaration(h)
      <3>1. h \notin S /\ h \in f..(n + 1)
        BY <1>1, <1>3, <2>1
      <3> QED
        BY <3>1
    <2> QED
      BY <1>3, <2>1
  <1>5. NextBody(f) = CHOOSE k \in f..(n + 1) : P(k)
    BY DEF NextBody
  <1>6. NextBody(f) \in f..(n + 1) /\ P(NextBody(f))
    <2> HIDE DEF P
    <2> QED
      BY <1>4, <1>5
  <1> QED
    BY <1>1, <1>6

Modules == {Module(input) : input \in Inputs}
WriterInv ==
  /\ M \in Modules
  /\ F \in 1..(Len(M.functions) + 1)
  /\ at \in {"file", "module", "blockinfo", "attributes", "types", "info", "constants",
             "metadata", "kinds", "names", "uselists", "function", "insts", "trailer", "done"}
  /\ at \in {"function", "insts"} => (F <= Len(M.functions) => ~isDeclaration(F))
  /\ at = "insts" =>
       /\ F <= Len(M.functions) /\ I \in 1..(Len(Insts) + 1)
       /\ InstID \in CstEnd..(CstEnd + I - 1)
       /\ InstructionIDs = [k \in 1..(I - 1) |-> k - 1]
       /\ CstEnd \in Nat

LEMMA ModuleIs ==
    ASSUME NEW mod, mod \in Modules
    PROVE  IsModule(mod)
  BY ModulesAssumption DEF Modules

LEMMA ParamTypesShape ==
    ASSUME NEW T, IsSeq(T.vals), Len(T.vals) >= 2
    PROVE  IsSeq(ParamTypes(T)) /\ Len(ParamTypes(T)) = Len(T.vals) - 2
           /\ \A k \in 1..(Len(T.vals) - 2) : ParamTypes(T)[k] = T.vals[k + 2]
  <1> DEFINE v == T.vals
             n == Len(v)
             p == ParamTypes(T)
  <1>1. v \in Seq(Elements(v)) /\ n \in Nat /\ n >= 2
    BY SeqShape
  <1>2. p = SubSeq(v, 3, n)
    BY DEF ParamTypes
  <1>3. 3 \in 1..(n + 1) /\ n \in (3 - 1)..n
    BY <1>1
  <1>4. p \in Seq(Elements(v)) /\ Len(p) = n - 3 + 1 /\ \A k \in 1..(n - 3 + 1) : p[k] = v[3 + k - 1]
    <2>1. \A k \in 3..n : v[k] \in Elements(v)
      BY <1>1 DEF Elements
    <2> HIDE DEF v, n
    <2>2. 3 \in Int /\ n \in Int
      BY <1>1
    <2> DEFINE t == SubSeq(v, 3, n)
    <2>3. /\ t \in Seq(Elements(v)) /\ Len(t) = (IF 3 <= n THEN n - 3 + 1 ELSE 0)
          /\ \A k \in 1..(n - 3 + 1) : t[k] = v[3 + k - 1]
      BY <2>1, <2>2, SubSeqProperties
    <2>4. (IF 3 <= n THEN n - 3 + 1 ELSE 0) = n - 3 + 1
      BY <1>1
    <2> HIDE DEF t, p
    <2> QED
      BY <1>2, <2>3, <2>4 DEF t
  <1> HIDE DEF v, n, p
  <1>5. Len(p) = n - 2 /\ \A k \in 1..(n - 2) : p[k] = v[k + 2]
    <2>1. n - 3 + 1 = n - 2 /\ \A k \in 1..(n - 2) : 3 + k - 1 = k + 2
      BY <1>1
    <2> QED
      BY <1>4, <2>1
  <1>6. IsSeq(p)
    BY <1>4, SeqIs
  <1> QED
    BY <1>5, <1>6 DEF v, n, p

LEMMA ModuleTypesShape ==
    ASSUME NEW mod, IsModule(mod)
    PROVE  /\ IsSeq(ModuleTypes(mod))
           /\ Len(ModuleTypes(mod)) = Len(mod.globals) + Len(mod.functions) + Len(mod.aliases) + Len(mod.consts)
  <1> DEFINE a == Map(LAMBDA v : v.ty, mod.globals)
             b == Map(LAMBDA v : v.ty, mod.functions)
             c == Map(LAMBDA v : v.ty, mod.aliases)
             d == Map(LAMBDA v : v.ty, mod.consts)
  <1>1. IsSeq(mod.globals) /\ IsSeq(mod.functions) /\ IsSeq(mod.aliases) /\ IsSeq(mod.consts)
    BY SeqIs DEF IsModule
  <1>2. /\ DOMAIN a = DOMAIN mod.globals /\ a = [k \in DOMAIN a |-> a[k]]
        /\ DOMAIN b = DOMAIN mod.functions /\ b = [k \in DOMAIN b |-> b[k]]
        /\ DOMAIN c = DOMAIN mod.aliases /\ c = [k \in DOMAIN c |-> c[k]]
        /\ DOMAIN d = DOMAIN mod.consts /\ d = [k \in DOMAIN d |-> d[k]]
    BY DEF Map
  <1>3. ModuleTypes(mod) = a \o b \o c \o d
    BY DEF ModuleTypes
  <1> HIDE DEF a, b, c, d
  <1>4. /\ IsSeq(a) /\ Len(a) = Len(mod.globals) /\ IsSeq(b) /\ Len(b) = Len(mod.functions)
        /\ IsSeq(c) /\ Len(c) = Len(mod.aliases) /\ IsSeq(d) /\ Len(d) = Len(mod.consts)
    BY <1>1, <1>2, MapShape
  <1>5. IsSeq(a \o b) /\ Len(a \o b) = Len(a) + Len(b)
    BY <1>4, JoinShape
  <1> DEFINE e == a \o b
             f == e \o c
  <1> HIDE DEF e
  <1>6. IsSeq(e \o c) /\ Len(e \o c) = Len(e) + Len(c)
    BY <1>4, <1>5, JoinShape DEF e
  <1> HIDE DEF f
  <1>7. IsSeq(f \o d) /\ Len(f \o d) = Len(f) + Len(d)
    BY <1>4, <1>6, JoinShape DEF f
  <1>8. ModuleTypes(mod) = f \o d
    BY <1>3 DEF e, f
  <1>9. Len(f) = Len(e) + Len(c) /\ Len(e) = Len(a) + Len(b)
    BY <1>5, <1>6 DEF e, f
  <1> QED
    BY <1>4, <1>7, <1>8, <1>9

LEMMA BodyCounts ==
    ASSUME IsModule(M), F \in 1..Len(M.functions), IsBody(M, F)
    PROVE  CstEnd \in Nat
  <1>1. IsSeq(Body.consts) /\ IsSeq(Body.args)
    <2>1. IsSeq(Body.consts) /\ Body.args = ParamTypes(PointedTo(M, M.functions[F].ty)) /\ PointsToFunction(M, M.functions[F].ty)
      BY DEF IsBody, Body
    <2> DEFINE T == PointedTo(M, M.functions[F].ty)
    <2> DEFINE k == M.types[M.functions[F].ty + 1].vals[1] + 1
    <2>a. k \in DOMAIN M.types /\ T = M.types[k] /\ Len(T.vals) >= 2
      BY <2>1 DEF PointsToFunction, PointedTo
    <2>b. M.types \in Seq(TypeRecords)
      BY DEF IsModule
    <2> HIDE DEF k, T
    <2>2. T \in TypeRecords /\ Len(T.vals) >= 2
      BY <2>a, <2>b
    <2> USE DEF T
    <2>3. T.vals \in Seq(Nat)
      BY <2>2 DEF TypeRecords
    <2>4. IsSeq(T.vals)
      BY <2>3, SeqIs
    <2>5. Body.args = ParamTypes(T)
      BY <2>1
    <2> HIDE DEF T
    <2> QED
      BY <2>1, <2>2, <2>4, <2>5, ParamTypesShape
  <1>2. IsSeq(ModuleTypes(M))
    BY ModuleTypesShape
  <1>3. Len(Body.consts) \in Nat /\ Len(Body.args) \in Nat /\ Len(ModuleTypes(M)) \in Nat
    BY <1>1, <1>2, SeqShape
  <1>4. CstEnd = Len(ModuleTypes(M)) + Len(Body.args) + Len(Body.consts)
    BY DEF CstEnd
  <1>5. \A a, b, c \in Nat : a + b + c \in Nat
    OBVIOUS
  <1> QED
    BY <1>3, <1>4, <1>5, Zenon

LEMMA WriterStarts == RInit => WriterInv
  <1> SUFFICES ASSUME RInit PROVE WriterInv
    OBVIOUS
  <1>1. M \in Modules /\ F = 1 /\ at = "file"
    BY DEF RInit, Init, Modules
  <1>2. IsSeq(M.functions)
    BY <1>1, ModuleIs, SeqIs DEF IsModule
  <1>3. Len(M.functions) \in Nat
    BY <1>2, SeqShape
  <1> QED
    BY <1>1, <1>3 DEF WriterInv

LEMMA WriterStays == WriterInv /\ [RNext]_<<vars, R>> => WriterInv'
  <1> SUFFICES ASSUME WriterInv, [RNext]_<<vars, R>> PROVE WriterInv'
    OBVIOUS
  <1> USE DEF WriterInv
  <1>m. IsModule(M) /\ IsSeq(M.functions)
    BY ModuleIs, SeqIs DEF IsModule
  <1>n. Len(M.functions) \in Nat /\ DOMAIN M.functions = 1..Len(M.functions)
    BY <1>m, SeqShape
  <1>1. CASE UNCHANGED <<vars, R>>
    BY <1>1 DEF vars, writer, Insts, Body, CstEnd, isDeclaration
  <1>2. ASSUME NEW here, NEW next, NEW items, Move(here, next, items), F' = F, F' = F,
               next \notin {"function", "insts"},
               next \in {"module", "blockinfo", "attributes", "types", "info", "constants",
                         "metadata", "kinds", "names", "uselists", "trailer", "done"}
        PROVE  WriterInv'
    BY <1>2 DEF Move
  <1>3. CASE WriteUseLists
    <2>1. M' = M /\ at' = "function" /\ F' = NextBody(1)
      BY <1>3 DEF WriteUseLists, Write, Move
    <2>2. NextBody(1) \in 1..(Len(M.functions) + 1)
          /\ (NextBody(1) <= Len(M.functions) => ~isDeclaration(NextBody(1)))
      BY <1>m, <1>n, NextBodyIs
    <2> QED
      BY <2>1, <2>2 DEF isDeclaration
  <1>4. CASE EndFunction
    <2>1. M' = M /\ at' = "function" /\ F' = NextBody(F + 1) /\ at = "insts"
      BY <1>4 DEF EndFunction, Write, Move
    <2>2. F + 1 \in Nat \ {0} /\ F + 1 <= Len(M.functions) + 1
      BY <1>n, <2>1
    <2>3. NextBody(F + 1) \in (F + 1)..(Len(M.functions) + 1)
          /\ (NextBody(F + 1) <= Len(M.functions) => ~isDeclaration(NextBody(F + 1)))
      BY <1>m, <2>2, NextBodyIs
    <2> QED
      BY <1>n, <2>1, <2>2, <2>3 DEF isDeclaration
  <1>5. CASE BeginFunction
    <2>1. /\ M' = M /\ F' = F /\ at = "function" /\ at' = "insts" /\ F <= Len(M.functions)
          /\ I' = 1 /\ InstID' = CstEnd /\ InstructionIDs' = <<>>
      BY <1>5 DEF BeginFunction, Write, Move, FirstInstID
    <2>2. Body' = Body /\ Insts' = Insts /\ CstEnd' = CstEnd
      BY <2>1 DEF Body, Insts, CstEnd
    <2>3. IsBody(M, F)
      <3>3. F \in 1..Len(M.functions) /\ M.functions[F].isproto # 1
        BY <1>m, <1>n, <2>1 DEF isDeclaration
      <3>4. M.functions \in Seq(Functions(M))
        BY <1>m DEF IsModule
      <3>1. F \in DOMAIN M.functions /\ M.functions[F] \in Functions(M) /\ M.functions[F].isproto # 1
        BY <3>3, <3>4
      <3>2. M.functions[F].isproto = 0
        BY <3>1 DEF Functions
      <3> QED
        BY <1>m, <3>1, <3>2 DEF IsModule
    <2>4. IsSeq(Insts) /\ Len(Insts) \in Nat
      BY <2>3, SeqShape DEF IsBody, Insts, Body
    <2>5. CstEnd \in Nat
      BY <1>m, <1>n, <2>1, <2>3, BodyCounts
    <2>6. InstructionIDs' = [k \in 1..(I' - 1) |-> k - 1]
      BY <2>1
    <2> QED
      BY <2>1, <2>2, <2>4, <2>5, <2>6 DEF isDeclaration
  <1>6. CASE WriteNextInstruction
    <2>1. /\ M' = M /\ F' = F /\ at = "insts" /\ at' = "insts" /\ I' = I + 1 /\ I \in DOMAIN Insts
          /\ InstID' \in {InstID, InstID + 1}
          /\ InstructionIDs' = Append(InstructionIDs, Len(InstructionIDs))
      BY <1>6 DEF WriteNextInstruction, Write, Move
    <2>2. Body' = Body /\ Insts' = Insts /\ CstEnd' = CstEnd
      BY <2>1 DEF Body, Insts, CstEnd
    <2>3. IsBody(M, F)
      <3>3. F \in 1..Len(M.functions) /\ M.functions[F].isproto # 1
        BY <1>m, <1>n, <2>1 DEF isDeclaration
      <3>4. M.functions \in Seq(Functions(M))
        BY <1>m DEF IsModule
      <3>1. F \in DOMAIN M.functions /\ M.functions[F] \in Functions(M) /\ M.functions[F].isproto # 1
        BY <3>3, <3>4
      <3>2. M.functions[F].isproto = 0
        BY <3>1 DEF Functions
      <3> QED
        BY <1>m, <3>1, <3>2 DEF IsModule
    <2>4. IsSeq(Insts) /\ Len(Insts) \in Nat /\ DOMAIN Insts = 1..Len(Insts)
      BY <2>3, SeqShape DEF IsBody, Insts, Body
    <2>5. I + 1 \in 1..(Len(Insts) + 1) /\ I \in Nat \ {0}
      BY <2>1, <2>4
    <2>6. InstructionIDs' = [k \in 1..(I' - 1) |-> k - 1]
      <3> DEFINE s == [k \in 1..(I - 1) |-> k - 1]
      <3>1. InstructionIDs = s /\ I - 1 \in Nat
        BY <2>1, <2>5
      <3>2. s \in Seq(Int) /\ Len(s) = I - 1
        BY <3>1
      <3>3. Append(s, I - 1) = [k \in 1..I |-> k - 1]
        <4>1. Append(s, I - 1) = [k \in 1..(Len(s) + 1) |-> IF k = Len(s) + 1 THEN I - 1 ELSE s[k]]
          BY <3>2, <3>1
        <4>2. Len(s) + 1 = I
          BY <2>5, <3>2
        <4>3. \A k \in 1..I : k # I => k \in 1..(I - 1)
          BY <2>5
        <4>4. \A k \in 1..I : (IF k = I THEN I - 1 ELSE s[k]) = k - 1
          BY <4>3
        <4> HIDE DEF s
        <4>5. Append(s, I - 1) = [k \in 1..I |-> IF k = I THEN I - 1 ELSE s[k]]
          BY <4>1, <4>2
        <4> QED
          BY <4>4, <4>5
      <3>4. InstructionIDs' = Append(s, I - 1)
        BY <2>1, <3>1, <3>2
      <3>5. I' - 1 = I
        BY <2>1, <2>5
      <3> HIDE DEF s
      <3> QED
        BY <3>3, <3>4, <3>5
    <2> QED
      BY <2>1, <2>2, <2>4, <2>5, <2>6 DEF isDeclaration
  <1>7. CASE BeginFile
    BY <1>2, <1>7 DEF BeginFile, writer
  <1>8. CASE EndFile
    BY <1>2, <1>8 DEF EndFile, writer
  <1>9. CASE EndModule
    BY <1>2, <1>9 DEF EndModule, writer, Write
  <1>10. CASE \/ BeginModule \/ WriteStandardAbbrevs \/ WriteAttributes \/ WriteTypes \/ WriteInfo
              \/ WriteGlobalConstants \/ WriteMetadata \/ WriteMetadataKinds \/ WriteGlobalNames
    BY <1>2, <1>10 DEF BeginModule, WriteStandardAbbrevs, WriteAttributes, WriteTypes, WriteInfo,
      WriteGlobalConstants, WriteMetadata, WriteMetadataKinds, WriteGlobalNames, writer, Write
  <1> QED
    BY <1>1, <1>3, <1>4, <1>5, <1>6, <1>7, <1>8, <1>9, <1>10 DEF RNext, Next

(* While the body of a function is written, the function is one of the     *)
(* module that is not a declaration, I is one of its instructions or past  *)
(* the last, InstID has counted no more than one value for each            *)
(* instruction written, and the numbers of the instructions, which the     *)
(* attachments of metadata name, are 0, 1, 2... without a gap              *)
(* (SpirBitcodeWriter.cpp:1100, 1513-1556).                                *)
THEOREM WriterTypeCorrect == RSpec => []TypeOK
  <1>1. WriterInv => TypeOK
    BY DEF WriterInv, TypeOK
  <1> QED
    BY <1>1, WriterStarts, WriterStays, PTL DEF RSpec

------------------------------------------------------------------------------
(* Division.                                                               *)

LEMMA Multiples ==
    ASSUME NEW a \in Nat, NEW b \in Nat, NEW c \in Nat, a < b
    PROVE  (a + 1) * c <= b * c /\ (a + 1) * c = a * c + c
  <1>1. PICK d \in Nat : b = (a + 1) + d
    <2>1. b - (a + 1) \in Nat /\ b = (a + 1) + (b - (a + 1))
      OBVIOUS
    <2> QED
      BY <2>1
  <1>2. b * c = (a + 1) * c + d * c
    BY <1>1
  <1>3. d * c \in Nat /\ (a + 1) * c \in Nat /\ (a + 1) * c = a * c + c
    OBVIOUS
  <1> QED
    BY <1>2, <1>3

LEMMA Distributes ==
    ASSUME NEW a \in Nat, NEW b \in Nat, NEW c \in Nat
    PROVE  (a + b) * c = a * c + b * c /\ a * c \in Nat /\ b * c \in Nat
  OBVIOUS

LEMMA DivModOf ==
    ASSUME NEW a \in Nat, NEW b \in Nat \ {0}
    PROVE  a \div b \in Nat /\ a % b \in 0..(b - 1) /\ a = (a \div b) * b + (a % b)
  <1>1. a \div b \in Nat /\ a % b \in 0..(b - 1) /\ a = b * (a \div b) + (a % b)
    OBVIOUS
  <1> DEFINE q == a \div b
  <1>2. b * q = q * b
    <2>1. q \in Nat
      BY <1>1
    <2> HIDE DEF q
    <2> QED
      BY <2>1
  <1> QED
    BY <1>1, <1>2

LEMMA DivModIs ==
    ASSUME NEW b \in Nat \ {0}, NEW q \in Nat, NEW r \in Nat, r < b
    PROVE  (q * b + r) \div b = q /\ (q * b + r) % b = r
  <1> DEFINE a == q * b + r
             p == a \div b
             s == a % b
  <1>1. a \in Nat
    OBVIOUS
  <1>2. p \in Nat /\ s \in 0..(b - 1) /\ a = b * p + s
    <2> HIDE DEF a
    <2> QED
      BY <1>1
  <1>3. a = q * b + r /\ q * b \in Nat /\ p * b \in Nat /\ b * p = p * b
    BY <1>2
  <1> HIDE DEF a, p, s
  <1>4. CASE q < p
    <2>1. (q + 1) * b <= p * b /\ (q + 1) * b = q * b + b
      BY <1>2, <1>4, Multiples
    <2> QED
      BY <1>2, <1>3, <2>1
  <1>5. CASE p < q
    <2>1. (p + 1) * b <= q * b /\ (p + 1) * b = p * b + b
      BY <1>2, <1>5, Multiples
    <2> QED
      BY <1>2, <1>3, <2>1
  <1>6. CASE p = q
    BY <1>2, <1>3, <1>6 DEF a, p, s
  <1> QED
    BY <1>2, <1>4, <1>5, <1>6

\* Powers grow.
LEMMA PowerGrows ==
    ASSUME NEW a \in Nat, NEW b \in Nat, a < b
    PROVE  2 ^ a < 2 ^ b /\ 2 * 2 ^ a <= 2 ^ b
  <1> DEFINE d == b - (a + 1)
             x == 2 ^ a
             y == 2 ^ d
  <1>1. d \in Nat /\ b = (a + 1) + d
    OBVIOUS
  <1>2. 2 ^ b = 2 ^ (a + 1) * y
    BY <1>1, PowerSum
  <1>3. 2 ^ (a + 1) = 2 * x
    BY PowerStep
  <1>4. x \in Nat /\ x > 0 /\ y \in Nat /\ y > 0
    BY <1>1, PowerNat
  <1> HIDE DEF x, y, d
  <1>5. (2 * x) * y = 2 * x + (2 * x) * (y - 1) /\ (2 * x) * (y - 1) \in Nat
    BY <1>4
  <1> QED
    BY <1>2, <1>3, <1>4, <1>5 DEF x

\* The logarithm of a power.
LEMMA LogOfPower ==
    ASSUME NEW k \in 0..(Width - 1)
    PROVE  Log2_32(2 ^ k) = k
  <1> USE WidthAssumption
  <1> DEFINE n == 2 ^ k
             P(j) == IF n = 0 THEN j = -1 ELSE j >= 0 /\ n \in 2 ^ j..2 ^ (j + 1) - 1
  <1>1. n \in Nat /\ n > 0 /\ 2 ^ (k + 1) = 2 * n
    <2>1. k \in Nat
      OBVIOUS
    <2> QED
      BY <2>1, PowerNat, PowerStep
  <1>2. P(k)
    BY <1>1
  <1>3. ASSUME NEW j \in -1..Width, P(j) PROVE j = k
    <2>1. j \in Nat /\ 2 ^ j <= n /\ n <= 2 ^ (j + 1) - 1
      BY <1>1, <1>3
    <2>2. 2 ^ j \in Nat /\ 2 ^ (j + 1) \in Nat
      <3>1. j + 1 \in Nat
        BY <2>1
      <3> QED
        BY <2>1, <3>1, PowerNat
    <2>3. CASE j < k
      <3>1. j + 1 < k \/ j + 1 = k
        BY <2>1, <2>3
      <3>2. 2 ^ (j + 1) <= n
        <4>1. CASE j + 1 = k
          BY <1>1, <4>1
        <4>2. CASE j + 1 < k
          BY <1>1, <2>1, <2>2, <4>2, PowerGrows
        <4> QED
          BY <3>1, <4>1, <4>2
      <3> QED
        BY <1>1, <2>1, <2>2, <3>2
    <2>4. CASE k < j
      <3>1. n < 2 ^ j
        BY <2>1, <2>4, PowerGrows
      <3> QED
        BY <1>1, <2>1, <2>2, <3>1
    <2> QED
      BY <2>1, <2>3, <2>4
  <1>4. Log2_32(n) = CHOOSE j \in -1..Width : P(j)
    BY DEF Log2_32
  <1>5. k \in -1..Width
    OBVIOUS
  <1> HIDE DEF P, n
  <1>6. (CHOOSE j \in -1..Width : P(j)) = k
    BY <1>2, <1>3, <1>5
  <1> QED
    BY <1>4, <1>6 DEF n

LEMMA LogOfZero == Log2_32(0) = -1
  <1>1. Log2_32(0) = CHOOSE j \in -1..Width : j = -1
    BY DEF Log2_32
  <1>2. -1 \in -1..Width
    BY WidthAssumption
  <1> QED
    BY <1>1, <1>2

\* What is read of an alignment is the alignment.
LEMMA AlignmentReads ==
    ASSUME NEW a \in Alignments
    PROVE  Log2_32(a) \in -1..(Width - 1) /\ Alignment(Log2_32(a) + 1) = a
  <1> USE WidthAssumption
  <1>1. CASE a = 0
    BY <1>1, LogOfZero DEF Alignment
  <1>2. CASE a # 0
    <2>1. PICK k \in 0..(Width - 1) : a = 2 ^ k
      BY <1>2 DEF Alignments
    <2>2. Log2_32(a) = k
      BY <2>1, LogOfPower
    <2>3. k + 1 # 0 /\ k + 1 - 1 = k
      OBVIOUS
    <2> QED
      BY <2>1, <2>2, <2>3 DEF Alignment
  <1> QED
    BY <1>1, <1>2

------------------------------------------------------------------------------
(* Attributes.                                                             *)

LEMMA HalfIs ==
    /\ Half \in Nat /\ Half >= 4 /\ Half + Half = Width
    /\ 2 ^ Half \in Nat /\ 2 ^ Half >= 16 /\ 2 ^ Width = 2 ^ Half * 2 ^ Half
    /\ 2 ^ (Half + AlignmentBits) = 2 ^ Half * 8
  <1> USE WidthAssumption
  <1>1. Half \in Nat /\ Half >= 4 /\ Half + Half = Width
    BY DEF Half
  <1>2. 2 ^ 4 = 16 /\ 2 ^ 3 = 8
    <2>1. 2 ^ 0 = 1
      BY PowerNat
    <2>2. 2 ^ 1 = 2 /\ 2 ^ 2 = 4 /\ 2 ^ 3 = 8 /\ 2 ^ 4 = 16
      <3>1. 2 ^ (0 + 1) = 2 * 2 ^ 0 /\ 2 ^ (1 + 1) = 2 * 2 ^ 1 /\ 2 ^ (2 + 1) = 2 * 2 ^ 2 /\ 2 ^ (3 + 1) = 2 * 2 ^ 3
        BY PowerStep
      <3>2. 0 + 1 = 1 /\ 1 + 1 = 2 /\ 2 + 1 = 3 /\ 3 + 1 = 4
        OBVIOUS
      <3> QED
        BY <2>1, <3>1, <3>2
    <2> QED
      BY <2>2
  <1>3. 2 ^ Half \in Nat /\ 2 ^ Half >= 16
    <2>1. 2 ^ Half \in Nat
      BY <1>1, PowerNat
    <2>2. CASE Half = 4
      BY <1>2, <2>1, <2>2
    <2>3. CASE Half > 4
      <3>1. 2 ^ 4 < 2 ^ Half
        BY <1>1, <2>3, PowerGrows
      <3> QED
        BY <1>2, <2>1, <3>1
    <2> QED
      BY <1>1, <2>2, <2>3
  <1>4. 2 ^ Width = 2 ^ Half * 2 ^ Half
    BY <1>1, PowerSum
  <1>5. 2 ^ (Half + AlignmentBits) = 2 ^ Half * 8
    <2>1. 2 ^ (Half + 3) = 2 ^ Half * 2 ^ 3
      BY <1>1, PowerSum
    <2> QED
      BY <1>2, <2>1 DEF AlignmentBits
  <1> QED
    BY <1>1, <1>3, <1>4, <1>5

RawOf(H, l, c, h) == l + c * H + h * (H * 8)
EncodedOf(H, raw, a) == (raw % H) + ((a * H) % (H * H)) + ((raw \div (H * 8)) % H) * (H * H)

\* The two halves of what is written of an attribute set.
LEMMA HalvesRead ==
    ASSUME NEW H \in Nat, H >= 16, NEW l \in 0..(H - 1), NEW h \in 0..(H - 1), NEW c \in 0..7, NEW a \in Nat,
           NEW raw, raw = RawOf(H, l, c, h),
           NEW enc, enc = EncodedOf(H, raw, a)
    PROVE  enc \in Nat /\ enc % H = l /\ (enc \div H) % H = a % H /\ enc \div (H * H) = h
  <1> USE DEF RawOf, EncodedOf
  <1>1. raw % H = l
    <2>1. c + h * 8 \in Nat /\ H \in Nat \ {0} /\ l \in Nat /\ l < H
      OBVIOUS
    <2>2. ((c + h * 8) * H + l) % H = l
      BY <2>1, DivModIs
    <2>3. raw = (c + h * 8) * H + l
      OBVIOUS
    <2> QED
      BY <2>2, <2>3
  <1>2. raw \div (H * 8) = h
    <2>1. H * 8 \in Nat \ {0} /\ h \in Nat
      OBVIOUS
    <2>2. c * H <= 7 * H /\ c * H \in Nat
      <3>1. c \in Nat /\ 7 - c \in Nat /\ c + (7 - c) = 7
        OBVIOUS
      <3>2. 7 * H = c * H + (7 - c) * H /\ (7 - c) * H \in Nat /\ c * H \in Nat
        BY <3>1, Distributes
      <3> QED
        BY <3>2
    <2>3. l + c * H \in Nat /\ l + c * H < H * 8
      BY <2>2
    <2>4. (h * (H * 8) + (l + c * H)) \div (H * 8) = h
      BY <2>1, <2>3, DivModIs
    <2>5. raw = h * (H * 8) + (l + c * H)
      OBVIOUS
    <2> QED
      BY <2>4, <2>5
  <1>3. h % H = h
    <2>1. h \in Nat /\ H \in Nat \ {0} /\ h < H /\ 0 * H + h = h
      OBVIOUS
    <2> QED
      BY <2>1, DivModIs
  <1> DEFINE s == a % H
             q == a \div H
  <1>4. s \in 0..(H - 1) /\ q \in Nat /\ a = q * H + s
    <2>1. H \in Nat \ {0}
      OBVIOUS
    <2> QED
      BY <2>1, DivModOf
  <1> HIDE DEF s, q
  <1>p. s \in Nat /\ h \in Nat /\ l \in Nat /\ H \in Nat \ {0} /\ s * H \in Nat /\ h * H \in Nat
    BY <1>4
  <1>5. s * H \in Nat /\ s * H <= H * H - H /\ H * H \in Nat \ {0}
    <2>1. H * H = s * H + (H - 1 - s) * H + H /\ (H - 1 - s) * H \in Nat /\ s * H \in Nat
      BY <1>4
    <2> QED
      BY <2>1
  <1>6. (a * H) % (H * H) = s * H
    <2>1. a * H = q * (H * H) + s * H
      BY <1>4
    <2>2. s * H < H * H
      BY <1>5
    <2>3. (q * (H * H) + s * H) % (H * H) = s * H
      BY <1>4, <1>5, <2>2, DivModIs
    <2> QED
      BY <2>1, <2>3
  <1>7. enc = l + s * H + h * (H * H)
    BY <1>1, <1>2, <1>3, <1>6
  <1>8. enc % H = l /\ enc \div H = s + h * H
    <2>1. enc = (s + h * H) * H + l
      BY <1>4, <1>7
    <2>2. s + h * H \in Nat /\ l < H
      BY <1>p
    <2>3. ((s + h * H) * H + l) % H = l /\ ((s + h * H) * H + l) \div H = s + h * H
      BY <1>p, <2>2, DivModIs
    <2> QED
      BY <2>1, <2>3
  <1>9. (s + h * H) % H = s
    <2>1. h \in Nat /\ H \in Nat \ {0} /\ s \in Nat /\ s < H
      BY <1>4
    <2>2. (h * H + s) % H = s
      BY <2>1, DivModIs
    <2>3. s + h * H = h * H + s
      BY <1>4
    <2> QED
      BY <2>2, <2>3
  <1>10. enc \div (H * H) = h
    <2>1. l + s * H \in Nat /\ l + s * H < H * H /\ h \in Nat
      BY <1>5
    <2>2. (h * (H * H) + (l + s * H)) \div (H * H) = h
      BY <1>5, <2>1, DivModIs
    <2>3. enc = h * (H * H) + (l + s * H)
      BY <1>4, <1>5, <1>7
    <2> QED
      BY <2>2, <2>3
  <1>11. enc \in Nat
    BY <1>5, <1>7
  <1> QED
    BY <1>8, <1>9, <1>10, <1>11 DEF s

\* All but what 16 bits cannot hold of an alignment.
AttributeRead(a) == [a EXCEPT !.align = @ % 2 ^ Half]

LEMMA AttributesDecode ==
    ASSUME NEW a \in Attributes, NEW p, p[1] = a.slot, p[2] = EncodedAttrs(a)
    PROVE  AttributesOf(p) = AttributeRead(a)
  <1> DEFINE H == 2 ^ Half
             c == IF a.align = 0 THEN 0 ELSE Log2_32(a.align) + 1
             l == a.low
             h == a.high
             e == EncodedAttrs(a)
             x == a.align
  <1>1. l \in 0..(H - 1) /\ h \in 0..(H - 1) /\ x \in {0} \cup {2 ^ k : k \in 0..(2 ^ AlignmentBits - 2)}
        /\ a = [slot |-> a.slot, low |-> l, high |-> h, align |-> x]
    BY DEF Attributes
  <1>2. 2 ^ AlignmentBits = 8
    <2>1. 2 ^ 0 = 1
      BY PowerNat
    <2>2. 2 ^ 1 = 2 /\ 2 ^ 2 = 4 /\ 2 ^ 3 = 8
      <3>1. 2 ^ (0 + 1) = 2 * 2 ^ 0 /\ 2 ^ (1 + 1) = 2 * 2 ^ 1 /\ 2 ^ (2 + 1) = 2 * 2 ^ 2
        BY PowerStep
      <3>2. 0 + 1 = 1 /\ 1 + 1 = 2 /\ 2 + 1 = 3
        OBVIOUS
      <3> QED
        BY <2>1, <3>1, <3>2
    <2> QED
      BY <2>2 DEF AlignmentBits
  <1>3. c \in 0..7 /\ x \in Nat
    <2>1. CASE x = 0
      BY <2>1
    <2>2. CASE x # 0
      <3>0. PICK k \in 0..(2 ^ AlignmentBits - 2) : x = 2 ^ k
        BY <1>1, <2>2
      <3>1. k \in 0..6 /\ x = 2 ^ k
        BY <1>2, <3>0
      <3>2. k \in 0..(Width - 1) /\ k \in Nat
        BY <3>1, WidthAssumption
      <3>3. Log2_32(x) = k
        BY <3>1, <3>2, LogOfPower
      <3>4. x \in Nat
        BY <3>1, <3>2, PowerNat
      <3> QED
        BY <2>2, <3>1, <3>3, <3>4
    <2> QED
      BY <2>1, <2>2
  <1>4. Raw(a) = l + c * H + h * (H * 8)
    BY HalfIs DEF Raw
  <1>5. e = (Raw(a) % H) + ((x * H) % (H * H)) + ((Raw(a) \div (H * 8)) % H) * (H * H)
    BY HalfIs DEF EncodedAttrs
  <1>6. H \in Nat /\ H >= 16 /\ 2 ^ Width = H * H
    BY HalfIs
  <1>7. AttributesOf(p) = [slot |-> a.slot, low |-> e % H, align |-> (e \div H) % H, high |-> e \div 2 ^ Width]
    BY DEF AttributesOf
  <1>8. AttributeRead(a) = [slot |-> a.slot, low |-> l, align |-> x % H, high |-> h]
    BY <1>1 DEF AttributeRead
  <1> DEFINE raw == Raw(a)
  <1> HIDE DEF H, c, l, h, e, x, raw
  <1>r. raw = RawOf(H, l, c, h) /\ e = EncodedOf(H, raw, x)
    BY <1>4, <1>5 DEF raw, RawOf, EncodedOf
  <1>9. e % H = l /\ (e \div H) % H = x % H /\ e \div (H * H) = h
    BY <1>1, <1>3, <1>r, <1>6, HalvesRead
  <1> QED
    BY <1>6, <1>7, <1>8, <1>9

\* A list of pairs, one after the other.
LEMMA PairsJoined ==
    ASSUME NEW ss, IsSeq(ss), \A k \in 1..Len(ss) : IsSeq(ss[k]) /\ Len(ss[k]) = 2
    PROVE  /\ IsSeq(FlattenSeq(ss)) /\ Len(FlattenSeq(ss)) = 2 * Len(ss)
           /\ \A k \in 1..Len(ss) : FlattenSeq(ss)[2 * k - 1] = ss[k][1] /\ FlattenSeq(ss)[2 * k] = ss[k][2]
  <1> DEFINE n == Len(ss)
  <1>0. n \in Nat
    BY SeqShape
  <1>1. PICK P : Joined(P, ss, n) /\ FlattenSeq(ss) = P[n]
    BY FlattenJoined
  <1>j. P[0] = Empty /\ \A k \in 1..n : P[k] = P[k - 1] \o ss[k]
    BY <1>1 DEF Joined
  <1> DEFINE Q(k) == /\ IsSeq(P[k]) /\ Len(P[k]) = 2 * k
                     /\ \A j \in 1..k : P[k][2 * j - 1] = ss[j][1] /\ P[k][2 * j] = ss[j][2]
             S == {k \in Nat : k <= n => Q(k)}
  <1>2. 0 \in S
    <2>1. P[0] = Empty
      BY <1>1 DEF Joined
    <2>2. IsSeq(P[0]) /\ Len(P[0]) = 0
      BY <2>1, NoneSeq
    <2> QED
      BY <2>2
  <1>3. ASSUME NEW k \in Nat, k \in S PROVE k + 1 \in S
    <2> SUFFICES ASSUME k + 1 <= n PROVE Q(k + 1)
      OBVIOUS
    <2> DEFINE p == P[k]
               t == ss[k + 1]
               c == p \o t
    <2>1. k + 1 \in 1..n /\ Q(k)
      BY <1>0, <1>3
    <2>2. IsSeq(t) /\ Len(t) = 2
      BY <2>1
    <2>4. P[k + 1] = c
      <3>1. PICK j \in 1..n : j = k + 1
        BY <2>1
      <3>2. P[j] = P[j - 1] \o ss[j]
        BY <1>j
      <3>3. j - 1 = k
        BY <3>1
      <3> QED
        BY <3>1, <3>2, <3>3
    <2>5. /\ IsSeq(c) /\ Len(c) = Len(p) + Len(t)
          /\ \A j \in 1..Len(p) : c[j] = p[j]
          /\ \A j \in 1..Len(t) : c[Len(p) + j] = t[j]
      <3>1. IsSeq(p)
        BY <2>1
      <3>2. IsSeq(t)
        BY <2>2
      <3> HIDE DEF p, t
      <3> HIDE DEF Q, S, n
      <3>3. IsSeq(p \o t)
        BY <3>1, <3>2, JoinShape
      <3>4. Len(p \o t) = Len(p) + Len(t)
        BY <3>1, <3>2, JoinShape
      <3>5. ASSUME NEW j \in 1..Len(p) PROVE (p \o t)[j] = p[j]
        BY <3>1, <3>2, JoinShape
      <3>6. ASSUME NEW j \in 1..Len(t) PROVE (p \o t)[Len(p) + j] = t[j]
        BY <3>1, <3>2, JoinShape
      <3> QED
        BY <3>3, <3>4, <3>5, <3>6
    <2> HIDE DEF c
    <2>6. Len(p) = 2 * k /\ (\A j \in 1..k : p[2 * j - 1] = ss[j][1] /\ p[2 * j] = ss[j][2])
      BY <2>1
    <2> HIDE DEF p
    <2>7. ASSUME NEW j \in 1..(k + 1) PROVE c[2 * j - 1] = ss[j][1] /\ c[2 * j] = ss[j][2]
      <3>1. CASE j = k + 1
        <4>1. 1 \in 1..Len(t) /\ 2 \in 1..Len(t)
          BY <2>2
        <4>2. c[Len(p) + 1] = t[1] /\ c[Len(p) + 2] = t[2]
          BY <2>5, <4>1
        <4>3. 2 * j - 1 = Len(p) + 1 /\ 2 * j = Len(p) + 2
          BY <2>6, <3>1
        <4> QED
          BY <3>1, <4>2, <4>3
      <3>2. CASE j # k + 1
        <4>1. j \in 1..k /\ 2 * j - 1 \in 1..Len(p) /\ 2 * j \in 1..Len(p)
          BY <2>6, <3>2
        <4> QED
          BY <2>5, <2>6, <4>1
      <3> QED
        BY <3>1, <3>2
    <2>8. IsSeq(c) /\ Len(c) = 2 * (k + 1)
      BY <2>2, <2>5, <2>6
    <2> QED
      BY <2>4, <2>7, <2>8
  <1> HIDE DEF Q
  <1>4. n \in S
    <2> HIDE DEF S
    <2> QED
      BY <1>0, <1>2, <1>3, NatSetInduction
  <1>5. Q(n)
    BY <1>0, <1>4
  <1> QED
    BY <1>1, <1>5 DEF Q

\* Read in pairs, they are what they were.
LEMMA PairsRead ==
    ASSUME NEW ss, IsSeq(ss), \A k \in 1..Len(ss) : IsSeq(ss[k]) /\ Len(ss[k]) = 2
    PROVE  /\ Len(Pairs(FlattenSeq(ss))) = Len(ss) /\ IsSeq(Pairs(FlattenSeq(ss)))
           /\ \A k \in 1..Len(ss) : Pairs(FlattenSeq(ss))[k] = <<ss[k][1], ss[k][2]>>
           /\ DOMAIN Pairs(FlattenSeq(ss)) = 1..Len(ss)
  <1> DEFINE v == FlattenSeq(ss)
             n == Len(ss)
             p == Pairs(v)
  <1>1. Len(v) = 2 * n /\ \A k \in 1..n : v[2 * k - 1] = ss[k][1] /\ v[2 * k] = ss[k][2]
    BY PairsJoined
  <1>2. n \in Nat
    BY SeqShape
  <1>3. p = [k \in 1..(Len(v) \div 2) |-> <<v[2 * k - 1], v[2 * k]>>]
    BY DEF Pairs
  <1> HIDE DEF v, n, p
  <1>4. Len(v) \div 2 = n
    BY <1>1, <1>2
  <1>5. p = [k \in 1..n |-> <<v[2 * k - 1], v[2 * k]>>]
    BY <1>3, <1>4
  <1>6. DOMAIN p = 1..n /\ p = [k \in 1..n |-> p[k]]
    BY <1>5
  <1>7. IsSeq(p) /\ Len(p) = n
    BY <1>2, <1>6, TabulatedSeq
  <1> QED
    BY <1>1, <1>5, <1>6, <1>7 DEF v, n, p

AttributesRead(A) == Map(AttributeRead, A)
AttributePair(a) == <<a.slot, EncodedAttrs(a)>>
AttributeRecord(A) == Record(AttributeCodes.ENTRY, Flat(AttributePair, A), 0)

LEMMA WriteAttributesIs ==
    ASSUME NEW mod
    PROVE  WriteAttributeTable(mod) = InBlock(9, 3, Map(AttributeRecord, mod.attrs))
  BY DEF WriteAttributeTable, AttributeRecord, AttributePair, BlockIDs

LEMMA AttributeRecordIs ==
    ASSUME NEW A \in Seq(Attributes)
    PROVE  /\ AttributeRecord(A).item = "record"
           /\ Map(AttributesOf, Pairs(AttributeRecord(A).vals)) = AttributesRead(A)
  <1> DEFINE ss == Map(AttributePair, A)
             fs == FlattenSeq(ss)
             ps == Pairs(fs)
             m == Len(A)
  <1>1. AttributeRecord(A) = Record(1, fs, 0)
    BY DEF Flat, AttributeRecord, AttributeCodes
  <1>2. IsSeq(A) /\ m \in Nat /\ DOMAIN A = 1..m
    BY SeqIs
  <1>3. DOMAIN ss = DOMAIN A /\ ss = [k \in DOMAIN ss |-> ss[k]]
    BY DEF Map
  <1>4. ASSUME NEW k \in 1..m
        PROVE  /\ A[k] \in Attributes /\ IsSeq(ss[k]) /\ Len(ss[k]) = 2
               /\ ss[k][1] = A[k].slot /\ ss[k][2] = EncodedAttrs(A[k])
    <2> DEFINE s == A[k].slot
               e == EncodedAttrs(A[k])
    <2>1. ss[k] = <<s, e>> /\ A[k] \in Attributes
      BY <1>2 DEF Map, AttributePair
    <2> HIDE DEF s, e
    <2>2. IsSeq(<<s, e>>) /\ Len(<<s, e>>) = 2 /\ <<s, e>>[1] = s /\ <<s, e>>[2] = e
      BY TwoSeq
    <2> QED
      BY <2>1, <2>2 DEF s, e
  <1> HIDE DEF ss
  <1>5. IsSeq(ss) /\ Len(ss) = m
    BY <1>2, <1>3, MapShape
  <1>6. DOMAIN ps = 1..m /\ \A k \in 1..m : ps[k] = <<ss[k][1], ss[k][2]>>
    <2>1. \A k \in 1..Len(ss) : IsSeq(ss[k]) /\ Len(ss[k]) = 2
      BY <1>4, <1>5
    <2> QED
      BY <1>5, <2>1, PairsRead
  <1> HIDE DEF ps
  <1>7. ASSUME NEW k \in 1..m PROVE AttributesOf(ps[k]) = AttributeRead(A[k])
    <2> DEFINE s == A[k].slot
               e == EncodedAttrs(A[k])
               a == A[k]
    <2>1. ps[k] = <<s, e>> /\ a \in Attributes
      BY <1>4, <1>6
    <2>2. <<s, e>>[1] = s /\ <<s, e>>[2] = e
      <3> HIDE DEF s, e
      <3> QED
        BY TwoSeq
    <2>3. ps[k][1] = a.slot /\ ps[k][2] = EncodedAttrs(a)
      BY <2>1, <2>2
    <2> HIDE DEF a
    <2>4. AttributesOf(ps[k]) = AttributeRead(a)
      BY <2>1, <2>3, AttributesDecode
    <2> QED
      BY <2>4 DEF a
  <1>8. Map(AttributesOf, ps) = Map(AttributeRead, A)
    BY <1>2, <1>6, <1>7 DEF Map
  <1> HIDE DEF fs
  <1>9. AttributeRecord(A).item = "record" /\ AttributeRecord(A).vals = fs
    BY <1>1, RecordFields
  <1> QED
    BY <1>8, <1>9 DEF ps, AttributesRead

\* A record that adds an element to a field.
LEMMA ReadsAppends ==
    ASSUME NEW r, IsReader(r), NEW x, x.item = "record", NEW f \in Apart, NEW e,
           \A u : Like(u, r) => Took(u, x) = Add(u, f, e)
    PROVE  Reads(r, <<x>>, Set(r, f, Append(r[f], e)))
  <1> DEFINE v == Append(r[f], e)
  <1>f. f \in Fields
    BY DEF Apart
  <1>1. ASSUME NEW u, Like(u, r) PROVE Took(u, x) = Set(u, f, v)
    <2>1. IsReader(u) /\ u[f] = r[f]
      BY <1>1 DEF Like, Apart
    <2>2. Add(u, f, e) = Set(u, f, Append(u[f], e))
      BY <1>f, <2>1, AddIs
    <2> QED
      BY <1>1, <2>1, <2>2
  <1> HIDE DEF v
  <1>2. \A u : Like(u, r) => Took(u, x) = Set(u, f, v)
    BY <1>1
  <1>3. Reads(r, <<x>>, Set(r, f, v))
    BY <1>2, ReadsSets
  <1> QED
    BY <1>3 DEF v

\* A record that does so wherever the list is, in a block that stays open.
Appends(p, f, x, e) == x.item = "record" /\ \A u : (\E n : Like(u, Set(p, f, n))) => Took(u, x) = Add(u, f, e)

LEMMA AppendsAdds ==
    ASSUME NEW p, IsReader(p), NEW f \in Apart, NEW items, NEW es,
           \A k \in 1..Len(es) : Appends(p, f, items[k], es[k])
    PROVE  Adds(p, f, items, es)
  <1>f. f \in Fields
    BY DEF Apart
  <1> SUFFICES ASSUME NEW k \in 1..Len(es), NEW n, IsSeq(n)
               PROVE  Reads(Set(p, f, n), <<items[k]>>, Set(p, f, Append(n, es[k])))
    BY DEF Adds
  <1> DEFINE r == Set(p, f, n)
             x == items[k]
             e == es[k]
             v == Append(n, e)
  <1>1. IsReader(r) /\ r[f] = n
    BY <1>f, SetFields
  <1>2. Appends(p, f, x, e)
    OBVIOUS
  <1>3. Set(r, f, v) = Set(p, f, v)
    BY SetSet
  <1>4. ASSUME NEW u, Like(u, r) PROVE Took(u, x) = Add(u, f, e)
    BY <1>2, <1>4 DEF Appends
  <1>5. x.item = "record"
    BY <1>2 DEF Appends
  <1> HIDE DEF r, x, e
  <1>6. \A u : Like(u, r) => Took(u, x) = Add(u, f, e)
    BY <1>4
  <1>7. Reads(r, <<x>>, Set(r, f, Append(r[f], e)))
    BY <1>1, <1>5, <1>6, ReadsAppends
  <1>8. Reads(r, <<x>>, Set(p, f, v))
    BY <1>1, <1>3, <1>7
  <1> QED
    BY <1>8 DEF r, x, e

LEMMA NoneJoined ==
    ASSUME NEW s, IsSeq(s)
    PROVE  Empty \o s = s /\ s \o Empty = s
  <1>1. s \in Seq(Elements(s))
    BY SeqShape
  <1> QED
    BY <1>1 DEF Empty

LEMMA ReadsAttributes ==
    ASSUME NEW mod, IsModule(mod), NEW q, IsReader(q), IsSeq(q.open), q.attrs = Empty
    PROVE  Reads(q, WriteAttributeTable(mod), Set(q, "attrs", Map(AttributesRead, mod.attrs)))
  <1> DEFINE items == Map(AttributeRecord, mod.attrs)
             es == Map(AttributesRead, mod.attrs)
             n == Len(mod.attrs)
             p == Entered(q, 9, 3)
  <1>1. IsSeq(mod.attrs) /\ DOMAIN mod.attrs = 1..n /\ n \in Nat /\ mod.attrs \in Seq(Seq(Attributes))
    <2>1. mod.attrs \in Seq(Seq(Attributes))
      BY DEF IsModule
    <2> QED
      BY <2>1, SeqIs
  <1>2. DOMAIN items = DOMAIN mod.attrs /\ items = [k \in DOMAIN items |-> items[k]]
        /\ DOMAIN es = DOMAIN mod.attrs /\ es = [k \in DOMAIN es |-> es[k]]
    BY DEF Map
  <1>3. ASSUME NEW k \in 1..n
        PROVE  items[k] = AttributeRecord(mod.attrs[k]) /\ es[k] = AttributesRead(mod.attrs[k])
               /\ mod.attrs[k] \in Seq(Attributes)
    <2>1. k \in DOMAIN mod.attrs
      BY <1>1
    <2> QED
      BY <1>1, <2>1 DEF Map
  <1>4. ASSUME NEW k \in 1..n
        PROVE  items[k].item = "record" /\ Map(AttributesOf, Pairs(items[k].vals)) = es[k]
    BY <1>3, AttributeRecordIs
  <1>w. WriteAttributeTable(mod) = InBlock(9, 3, items)
    BY WriteAttributesIs
  <1> HIDE DEF items, es
  <1>5. IsSeq(items) /\ Len(items) = n /\ IsSeq(es) /\ Len(es) = n
    BY <1>1, <1>2, MapShape
  <1>f. "attrs" \in Fields /\ "attrs" \in Apart /\ "attrs" # "open"
    BY FieldsAre, ApartAre
  <1>6. IsReader(p) /\ In(p, 9)
    BY EnteredIs, InEntered
  <1> HIDE DEF p, n
  <1>7. ASSUME NEW k \in 1..Len(es) PROVE Appends(p, "attrs", items[k], es[k])
    <2>1. k \in 1..n
      BY <1>5
    <2>2. ASSUME NEW u, NEW b, Like(u, Set(p, "attrs", b))
          PROVE  Took(u, items[k]) = Add(u, "attrs", es[k])
      <3>1. In(Set(p, "attrs", b), 9)
        BY <1>6, <1>f, InSet
      <3>2. Top(u).id = 9
        BY <2>2, <3>1, InTop
      <3>3. Took(u, items[k]) = Add(u, "attrs", Map(AttributesOf, Pairs(items[k].vals)))
        BY <3>2, TookIs
      <3> QED
        BY <1>4, <2>1, <3>3
    <2> QED
      BY <1>4, <2>1, <2>2 DEF Appends
  <1>8. Adds(p, "attrs", items, es)
    BY <1>6, <1>7, <1>f, AppendsAdds
  <1>9. IsSeq(q.attrs) /\ q.attrs \o es = es
    BY <1>5, NoneJoined, NoneSeq
  <1>10. Reads(q, InBlock(9, 3, items), Set(q, "attrs", q.attrs \o es))
    <2>1. Adds(Entered(q, 9, 3), "attrs", items, es) /\ Len(items) = Len(es) /\ 9 # 12
      BY <1>5, <1>8 DEF p
    <2> QED
      BY <1>5, <1>9, <1>f, <2>1, ReadsListBlock
  <1> QED
    BY <1>9, <1>10, <1>w DEF es

------------------------------------------------------------------------------
(* Texts and types.                                                        *)

LEMMA CharReads ==
    ASSUME NEW c \in 0..255, NEW w \in Nat, w >= 8
    PROVE  FromChar(c, w) \in Nat /\ Byte(FromChar(c, w)) = c
  <1> DEFINE z == 2 ^ (w - 8)
  <1>1. 2 ^ 8 = 256
    <2>1. 2 ^ 4 = 16
      <3>1. 2 ^ 0 = 1
        BY PowerNat
      <3>2. 2 ^ (0 + 1) = 2 * 2 ^ 0 /\ 2 ^ (1 + 1) = 2 * 2 ^ 1 /\ 2 ^ (2 + 1) = 2 * 2 ^ 2 /\ 2 ^ (3 + 1) = 2 * 2 ^ 3
        BY PowerStep
      <3>3. 0 + 1 = 1 /\ 1 + 1 = 2 /\ 2 + 1 = 3 /\ 3 + 1 = 4
        OBVIOUS
      <3> QED
        BY <3>1, <3>2, <3>3
    <2>2. 2 ^ (4 + 4) = 2 ^ 4 * 2 ^ 4
      BY PowerSum
    <2>3. 4 + 4 = 8
      OBVIOUS
    <2> QED
      BY <2>1, <2>2, <2>3
  <1>2. w - 8 \in Nat /\ 8 + (w - 8) = w
    OBVIOUS
  <1>3. 2 ^ w = 256 * z /\ z \in Nat /\ z > 0
    <2>1. 2 ^ (8 + (w - 8)) = 2 ^ 8 * 2 ^ (w - 8)
      BY <1>2, PowerSum
    <2>2. z \in Nat /\ z > 0
      BY <1>2, PowerNat
    <2> QED
      BY <1>1, <1>2, <2>1, <2>2
  <1> DEFINE p == 2 ^ w
  <1>4. FromChar(c, w) = IF c < 128 THEN c ELSE p - 256 + c
    BY DEF FromChar
  <1> HIDE DEF z, p
  <1>5. p = 256 * z /\ z \in Nat /\ z > 0
    BY <1>3 DEF p
  <1> QED
    BY <1>4, <1>5 DEF Byte

LEMMA TextReads ==
    ASSUME NEW str \in Texts, NEW w \in Nat, w >= 8
    PROVE  /\ IsSeq(str) /\ IsSeq(Chars(str, w)) /\ Len(Chars(str, w)) = Len(str)
           /\ ToBytes(Chars(str, w)) = str
  <1> DEFINE c == Chars(str, w)
  <1>1. str \in Seq(0..255) /\ IsSeq(str) /\ DOMAIN str = 1..Len(str)
    BY SeqIs DEF Texts
  <1>2. c = [k \in DOMAIN str |-> FromChar(str[k], w)]
    BY DEF Chars
  <1>3. DOMAIN c = DOMAIN str /\ c = [k \in DOMAIN c |-> c[k]]
    BY <1>2
  <1>4. ASSUME NEW k \in DOMAIN str PROVE Byte(c[k]) = str[k]
    <2>1. c[k] = FromChar(str[k], w)
      BY <1>2
    <2>0. str[k] \in 0..255
      <3>1. str \in Seq(0..255) /\ k \in 1..Len(str)
        BY <1>1
      <3> DEFINE A == 0..255
      <3>2. str \in Seq(A)
        BY <3>1
      <3> HIDE DEF c, A
      <3>3. str[k] \in A
        BY <3>1, <3>2
      <3> QED
        BY <3>3 DEF A
    <2>2. Byte(FromChar(str[k], w)) = str[k]
      BY <2>0, CharReads
    <2> QED
      BY <2>1, <2>2
  <1> HIDE DEF c
  <1>5. IsSeq(c) /\ Len(c) = Len(str)
    BY <1>1, <1>3, MapShape
  <1>6. ToBytes(c) = [k \in DOMAIN str |-> str[k]]
    BY <1>3, <1>4 DEF ToBytes, Map
  <1>7. [k \in DOMAIN str |-> str[k]] = str
    BY <1>1
  <1> QED
    BY <1>1, <1>5, <1>6, <1>7 DEF c

LEMMA WidthIs == Width \in Nat /\ Width >= 8 /\ 2 * Width \in Nat /\ 2 * Width >= 8
  BY WidthAssumption

LEMMA TypeCodeIs ==
    /\ \A t \in DOMAIN TypeCode : TypeCode[t] # 1 /\ TypeCode[t] # 19
    /\ \A s, t \in DOMAIN TypeCode : TypeCode[s] = TypeCode[t] => s = t
  <1>1. DOMAIN TypeCode =
          {"Void", "Half", "Float", "Double", "X86_FP80", "FP128", "PPC_FP128", "X86_MMX", "Label",
           "Metadata", "Integer", "Pointer", "Function", "LiteralStruct", "OpaqueStruct", "Struct",
           "Array", "Vector"}
    BY DEF TypeCode
  <1>2. /\ TypeCode["Void"] = 2 /\ TypeCode["Half"] = 10 /\ TypeCode["Float"] = 3
        /\ TypeCode["Double"] = 4 /\ TypeCode["X86_FP80"] = 13 /\ TypeCode["FP128"] = 14
        /\ TypeCode["PPC_FP128"] = 15 /\ TypeCode["X86_MMX"] = 17 /\ TypeCode["Label"] = 5
        /\ TypeCode["Metadata"] = 16 /\ TypeCode["Integer"] = 7 /\ TypeCode["Pointer"] = 8
        /\ TypeCode["Function"] = 21 /\ TypeCode["LiteralStruct"] = 18
        /\ TypeCode["OpaqueStruct"] = 6 /\ TypeCode["Struct"] = 20 /\ TypeCode["Array"] = 11
        /\ TypeCode["Vector"] = 12
    BY DEF TypeCode, TypeCodes
  <1> QED
    BY <1>1, <1>2

LEMMA TypeRecordReads ==
    ASSUME NEW r, In(r, 17), IsReader(r), NEW T \in TypeRecords, r.tname = T.name, NEW ab
    PROVE  Reads(r, <<Record(TypeCode[T.id], T.vals, ab)>>,
                 Set(Set(r, "tname", Empty), "types", Append(r.types, T)))
  <1> DEFINE x == Record(TypeCode[T.id], T.vals, ab)
             v == Append(r.types, T)
  <1>f. "tname" \in Fields /\ "types" \in Fields /\ "tname" \in Apart /\ "types" \in Apart
    BY FieldsAre, ApartAre
  <1>1. x.item = "record" /\ x.code = TypeCode[T.id] /\ x.vals = T.vals
    BY RecordFields
  <1> HIDE DEF x
  <1>2. T = [id |-> T.id, vals |-> T.vals, name |-> T.name] /\ T.id \in DOMAIN TypeCode
        /\ (T.name # Empty => T.id \in {"Struct", "OpaqueStruct"})
    BY DEF TypeRecords, Empty
  <1>3. ASSUME NEW u, Like(u, r) PROVE Took(u, x) = Set(Set(u, "tname", Empty), "types", v)
    <2> DEFINE named == T.id \in {"Struct", "OpaqueStruct"}
               s == Set(u, "tname", Empty)
    <2>1. Took(u, x) = ReadType(u, x)
      BY <1>3, InTop, TookIs
    <2>2. IsReader(u) /\ u.tname = T.name /\ u.types = r.types
      BY <1>3, LikeFields
    <2>3. (CHOOSE t \in DOMAIN TypeCode : TypeCode[t] = x.code) = T.id
      BY <1>1, <1>2, TypeCodeIs
    <2>4. x.code # 1 /\ x.code # 19
      BY <1>1, <1>2, TypeCodeIs
    <2>5. ReadType(u, x) = Add(IF named THEN Set(u, "tname", <<>>) ELSE u, "types",
                               [id |-> T.id, vals |-> T.vals, name |-> IF named THEN u.tname ELSE <<>>])
      BY <1>1, <2>3, <2>4 DEF ReadType, TypeCodes
    <2>6. [id |-> T.id, vals |-> T.vals, name |-> IF named THEN u.tname ELSE <<>>] = T
      BY <1>2, <2>2 DEF Empty
    <2>7. (IF named THEN Set(u, "tname", <<>>) ELSE u) = s
      <3>1. CASE named
        BY <3>1 DEF Empty
      <3>2. CASE ~named
        <4>1. u.tname = Empty
          BY <1>2, <2>2, <3>2
        <4>2. Set(u, "tname", u.tname) = u
          BY <1>f, <2>2, SetFields
        <4> QED
          BY <3>2, <4>1, <4>2
      <3> QED
        BY <3>1, <3>2
    <2>8. IsReader(s) /\ s.types = r.types
      BY <1>f, <2>2, SetFields
    <2> HIDE DEF s
    <2>9. Add(s, "types", T) = Set(s, "types", Append(s.types, T))
      BY <1>f, <2>8, AddIs
    <2>10. Took(u, x) = Add(s, "types", T)
      BY <2>1, <2>5, <2>6, <2>7
    <2> QED
      BY <2>8, <2>9, <2>10 DEF s
  <1> HIDE DEF v
  <1>4. \A u : Like(u, r) => Took(u, x) = Set(Set(u, "tname", Empty), "types", v)
    BY <1>3
  <1>5. Reads(r, <<x>>, Set(Set(r, "tname", Empty), "types", v))
    BY <1>1, <1>4, <1>f, ReadsSetsTwo
  <1> QED
    BY <1>5 DEF x, v

LEMMA NameReads ==
    ASSUME NEW r, In(r, 17), IsReader(r), NEW str \in Texts, NEW ab
    PROVE  Reads(r, <<WriteStringRecord(19, str, ab)>>, Set(r, "tname", str))
  <1> DEFINE x == WriteStringRecord(19, str, ab)
  <1>1. x.item = "record" /\ x.code = 19 /\ x.vals = Chars(str, Width)
    BY RecordFields DEF WriteStringRecord
  <1>2. ToBytes(x.vals) = str
    BY <1>1, TextReads, WidthIs
  <1> HIDE DEF x
  <1>3. ASSUME NEW u, Like(u, r) PROVE Took(u, x) = Set(u, "tname", str)
    <2>1. Took(u, x) = ReadType(u, x)
      BY <1>3, InTop, TookIs
    <2>2. ReadType(u, x) = Set(u, "tname", ToBytes(x.vals))
      BY <1>1 DEF ReadType, TypeCodes
    <2> QED
      BY <1>2, <2>1, <2>2
  <1>4. "tname" \in Apart
    BY ApartAre
  <1> QED
    BY <1>1, <1>3, <1>4, ReadsSets DEF x

LEMMA TypeReads ==
    ASSUME NEW r, In(r, 17), IsReader(r), r.tname = Empty, NEW T \in TypeRecords
    PROVE  Reads(r, WriteType(T), Set(r, "types", Append(r.types, T)))
  <1> DEFINE x == Record(TypeCode[T.id], T.vals, TypeAbbrev(T))
             y == WriteStringRecord(19, T.name, NthAbbrev(0, 4))
             v == Append(r.types, T)
  <1>f. "tname" \in Fields /\ "types" \in Fields /\ "tname" \in Apart /\ "types" \in Apart /\ "tname" # "open"
    BY FieldsAre, ApartAre
  <1>1. WriteType(T) = One(T.name # Empty, y) \o <<x>>
    BY DEF WriteType, Empty, TypeCodes
  <1>2. IsSeq(<<x>>)
    BY OneSeq
  <1>n. T.name \in Texts
    BY DEF TypeRecords
  <1>3. CASE T.name = Empty
    <2>1. WriteType(T) = <<x>>
      <3>1. One(T.name # Empty, y) = Empty
        BY <1>3 DEF One, Empty
      <3>2. Empty \o <<x>> = <<x>>
        BY <1>2, NoneJoined
      <3> QED
        BY <1>1, <3>1, <3>2
    <2>2. Set(r, "tname", Empty) = r
      <3>1. Set(r, "tname", r.tname) = r
        BY <1>f, SetFields
      <3> QED
        BY <3>1
    <2>3. Reads(r, <<x>>, Set(Set(r, "tname", Empty), "types", v))
      BY <1>3, TypeRecordReads
    <2> QED
      BY <2>1, <2>2, <2>3
  <1>4. CASE T.name # Empty
    <2> DEFINE s == Set(r, "tname", T.name)
    <2>1. WriteType(T) = <<y>> \o <<x>>
      BY <1>1, <1>4 DEF One
    <2>2. Reads(r, <<y>>, s)
      BY <1>n, NameReads
    <2>3. In(s, 17) /\ IsReader(s) /\ s.tname = T.name /\ s.types = r.types
      BY <1>f, InSet, SetFields
    <2>4. Set(s, "tname", Empty) = r
      <3>1. Set(r, "tname", r.tname) = r
        BY <1>f, SetFields
      <3>2. Set(s, "tname", Empty) = Set(r, "tname", Empty)
        BY SetSet
      <3> QED
        BY <3>1, <3>2
    <2> HIDE DEF s
    <2>5. Reads(s, <<x>>, Set(Set(s, "tname", Empty), "types", Append(s.types, T)))
      BY <2>3, TypeRecordReads
    <2>6. Reads(s, <<x>>, Set(r, "types", v))
      BY <2>3, <2>4, <2>5
    <2> QED
      BY <2>1, <2>2, <2>6, ReadsJoin
  <1> QED
    BY <1>3, <1>4

LEMMA JoinAssociates ==
    ASSUME NEW a, NEW b, NEW c, IsSeq(a), IsSeq(b), IsSeq(c)
    PROVE  (a \o b) \o c = a \o (b \o c)
  <1> DEFINE A == Elements(a) \cup Elements(b) \cup Elements(c)
  <1>1. a \in Seq(Elements(a)) /\ b \in Seq(Elements(b)) /\ c \in Seq(Elements(c))
    BY SeqShape
  <1>2. \A S, T : S \subseteq T => Seq(S) \subseteq Seq(T)
    OBVIOUS
  <1>3. a \in Seq(A) /\ b \in Seq(A) /\ c \in Seq(A)
    <2>1. Elements(a) \subseteq A /\ Elements(b) \subseteq A /\ Elements(c) \subseteq A
      OBVIOUS
    <2> QED
      BY <1>1, <1>2, <2>1
  <1> HIDE DEF A
  <1> QED
    BY <1>3, ConcatAssociative

\* The reader in a block that has the abbreviations c.
Holding(q, id, w, c) == Set(q, "open", Append(q.open, Frame(id, w, c, NoType)))

LEMMA HoldingIs ==
    ASSUME NEW q, IsReader(q), IsSeq(q.open), NEW id, NEW w, NEW c
    PROVE  /\ IsReader(Holding(q, id, w, c)) /\ In(Holding(q, id, w, c), id)
           /\ Holding(q, id, w, c).open = Append(q.open, Frame(id, w, c, NoType))
           /\ \A f \in Fields : f # "open" => Holding(q, id, w, c)[f] = q[f]
           /\ Entered(q, id, w) = Holding(q, id, w, Infos(q, id))
  <1> DEFINE o == Append(q.open, Frame(id, w, c, NoType))
             h == Set(q, "open", o)
  <1>1. h = Holding(q, id, w, c)
    BY DEF Holding
  <1>2. "open" \in Fields
    BY FieldsAre
  <1> HIDE DEF o
  <1>3. IsReader(h) /\ h.open = o /\ \A f \in Fields : f # "open" => h[f] = q[f]
    BY <1>2, SetFields
  <1> HIDE DEF h
  <1>4. In(h, id)
    BY <1>3 DEF In, o
  <1>5. Entered(q, id, w) = Holding(q, id, w, Infos(q, id))
    BY DEF Entered, Holding
  <1> QED
    BY <1>1, <1>3, <1>4, <1>5 DEF o

LEMMA ReadsDefinesAll ==
    ASSUME NEW q, IsReader(q), IsSeq(q.open), NEW id, NEW w, NEW ds, IsSeq(ds)
    PROVE  \E c : Reads(Entered(q, id, w), Map(Define, ds), Holding(q, id, w, c))
  <1> DEFINE p == Entered(q, id, w)
             n == Len(ds)
             D == Map(Define, ds)
             S == {k \in Nat : k <= n => \E c : Reads(p, SubSeq(D, 1, k), Holding(q, id, w, c))}
  <1>1. DOMAIN D = DOMAIN ds /\ D = [k \in DOMAIN D |-> D[k]]
    BY DEF Map
  <1>2. IsSeq(D) /\ Len(D) = n /\ n \in Nat /\ DOMAIN ds = 1..n
    <2> HIDE DEF D
    <2> QED
      BY <1>1, MapShape, SeqShape
  <1>3. \A k \in 1..n : D[k] = Define(ds[k])
    BY <1>2 DEF Map
  <1> HIDE DEF D, n, p
  <1>4. D \in Seq(Elements(D))
    BY <1>2, SeqShape
  <1>5. 0 \in S
    <2>1. SubSeq(D, 1, 0) = Empty
      BY <1>4 DEF Empty
    <2>2. Reads(p, Empty, p)
      BY ReadsNone
    <2>3. p = Holding(q, id, w, Infos(q, id))
      BY HoldingIs DEF p
    <2>4. Reads(p, SubSeq(D, 1, 0), Holding(q, id, w, Infos(q, id)))
      BY <2>1, <2>2, <2>3
    <2> QED
      BY <2>4
  <1>6. ASSUME NEW k \in Nat, k \in S PROVE k + 1 \in S
    <2> SUFFICES ASSUME k + 1 <= n PROVE \E c : Reads(p, SubSeq(D, 1, k + 1), Holding(q, id, w, c))
      OBVIOUS
    <2>1. k + 1 \in 1..n /\ k <= n
      BY <1>2
    <2>2. PICK c : Reads(p, SubSeq(D, 1, k), Holding(q, id, w, c))
      BY <1>6, <2>1
    <2> DEFINE h == Holding(q, id, w, c)
               ops == ds[k + 1]
               b == Append(c, ops)
    <2>3. IsReader(h) /\ h.open = Append(q.open, Frame(id, w, c, NoType))
      BY HoldingIs
    <2>4. Reads(h, <<Define(ops)>>, Set(h, "open", Append(q.open, Frame(id, w, b, NoType))))
      <3> HIDE DEF h, ops
      <3> QED
        BY <2>3, ReadsDefine
    <2>5. Set(h, "open", Append(q.open, Frame(id, w, b, NoType))) = Holding(q, id, w, b)
      BY SetSet DEF Holding
    <2>6. D[k + 1] = Define(ops)
      BY <1>3, <2>1
    <2>7. SubSeq(D, 1, k + 1) = SubSeq(D, 1, k) \o <<D[k + 1]>>
      BY <1>2, <1>4, <2>1
    <2> HIDE DEF b, ops
    <2>8. Reads(p, SubSeq(D, 1, k) \o <<Define(ops)>>, Holding(q, id, w, b))
      BY <2>2, <2>4, <2>5, ReadsJoin
    <2>9. Reads(p, SubSeq(D, 1, k + 1), Holding(q, id, w, b))
      BY <2>6, <2>7, <2>8
    <2> QED
      BY <2>9
  <1> HIDE DEF S
  <1>7. n \in S
    BY <1>2, <1>5, <1>6, NatSetInduction
  <1>8. SubSeq(D, 1, n) = D
    BY <1>2, <1>4
  <1>9. PICK c : Reads(p, SubSeq(D, 1, n), Holding(q, id, w, c))
    BY <1>2, <1>7 DEF S
  <1> QED
    BY <1>8, <1>9 DEF p, D

\* The block is left as it was entered, but for what its items set.
LEMMA ReadsLeave ==
    ASSUME NEW q, IsReader(q), IsSeq(q.open), NEW id, id # 12, NEW w, NEW c,
           NEW s, IsReader(s), s.open = Append(q.open, Frame(id, w, c, NoType))
    PROVE  Reads(s, <<Exit>>, Set(s, "open", q.open))
  <1> DEFINE t == Frame(id, w, c, NoType)
  <1>1. t.id # 12
    BY FrameFields
  <1> HIDE DEF t
  <1>2. s.open = Append(q.open, t)
    BY DEF t
  <1> QED
    BY <1>1, <1>2, ReadsClose

LEMMA HoldingSet ==
    ASSUME NEW q, IsReader(q), NEW id, NEW w, NEW c, NEW f, f # "open", NEW x
    PROVE  Set(Set(Holding(q, id, w, c), f, x), "open", q.open) = Set(q, f, x)
  <1> DEFINE o == Append(q.open, Frame(id, w, c, NoType))
  <1>1. Holding(q, id, w, c) = Set(q, "open", o)
    BY DEF Holding
  <1> HIDE DEF o
  <1>2. Set(Set(q, "open", o), f, x) = Set(Set(q, f, x), "open", o)
    BY SetApart
  <1>3. Set(Set(Set(q, f, x), "open", o), "open", q.open) = Set(Set(q, f, x), "open", q.open)
    BY SetSet
  <1>4. Set(Set(q, f, x), "open", q.open) = Set(Set(q, "open", q.open), f, x)
    BY SetApart
  <1>5. Set(q, "open", q.open) = q
    BY SetSame DEF IsReader
  <1> QED
    BY <1>1, <1>2, <1>3, <1>4, <1>5

\* A block that defines abbreviations and then has items that set a field.
LEMMA ReadsDefinedBlock ==
    ASSUME NEW q, IsReader(q), IsSeq(q.open), NEW id, id # 12, NEW w, NEW ds, IsSeq(ds), NEW f \in Fields,
           f # "open", NEW x, NEW items,
           \A c : Reads(Holding(q, id, w, c), items, Set(Holding(q, id, w, c), f, x))
    PROVE  Reads(q, <<Enter(id, w)>> \o Map(Define, ds) \o items \o <<Exit>>, Set(q, f, x))
  <1>1. PICK c : Reads(Entered(q, id, w), Map(Define, ds), Holding(q, id, w, c))
    BY ReadsDefinesAll
  <1> DEFINE h == Holding(q, id, w, c)
             s == Set(h, f, x)
  <1>2. IsReader(h) /\ h.open = Append(q.open, Frame(id, w, c, NoType))
    BY HoldingIs
  <1>3. "open" \in Fields
    BY FieldsAre
  <1>4. IsReader(s) /\ s.open = Append(q.open, Frame(id, w, c, NoType))
    <2> HIDE DEF h
    <2> QED
      BY <1>2, <1>3, SetFields
  <1>5. Set(s, "open", q.open) = Set(q, f, x)
    BY HoldingSet
  <1>6. Reads(h, items, s)
    OBVIOUS
  <1> HIDE DEF s
  <1>7. Reads(s, <<Exit>>, Set(q, f, x))
    <2>1. Reads(s, <<Exit>>, Set(s, "open", q.open))
      BY <1>4, ReadsLeave
    <2> QED
      BY <1>5, <2>1
  <1> HIDE DEF h
  <1>8. Reads(q, <<Enter(id, w)>>, Entered(q, id, w))
    BY ReadsOpen DEF Entered
  <1>9. Reads(q, <<Enter(id, w)>> \o Map(Define, ds), h)
    BY <1>1, <1>8, ReadsJoin DEF h
  <1>10. Reads(q, <<Enter(id, w)>> \o Map(Define, ds) \o items, s)
    BY <1>6, <1>9, ReadsJoin
  <1> QED
    BY <1>7, <1>10, ReadsJoin

LEMMA FlattenShape ==
    ASSUME NEW ss, IsSeq(ss), \A k \in 1..Len(ss) : IsSeq(ss[k])
    PROVE  IsSeq(FlattenSeq(ss))
  <1> DEFINE n == Len(ss)
  <1>0. n \in Nat
    BY SeqShape
  <1>1. PICK P : Joined(P, ss, n) /\ FlattenSeq(ss) = P[n]
    BY FlattenJoined
  <1> DEFINE S == {k \in Nat : k <= n => IsSeq(P[k])}
  <1>2. 0 \in S
    BY <1>1, NoneSeq DEF Joined
  <1>3. ASSUME NEW k \in Nat, k \in S PROVE k + 1 \in S
    <2> SUFFICES ASSUME k + 1 <= n PROVE IsSeq(P[k + 1])
      OBVIOUS
    <2>1. PICK j \in 1..n : j = k + 1
      BY <1>0
    <2>2. P[j] = P[j - 1] \o ss[j]
      BY <1>1 DEF Joined
    <2>3. j - 1 = k /\ IsSeq(P[k]) /\ IsSeq(ss[j])
      BY <1>3, <2>1
    <2>4. IsSeq(P[k] \o ss[j])
      BY <2>3, JoinShape
    <2> QED
      BY <2>1, <2>2, <2>3, <2>4
  <1> HIDE DEF S
  <1>4. n \in S
    BY <1>0, <1>2, <1>3, NatSetInduction
  <1> QED
    BY <1>0, <1>1, <1>4 DEF S

LEMMA ReadsTypes ==
    ASSUME NEW mod, IsModule(mod), NEW q, IsReader(q), IsSeq(q.open), q.types = Empty, q.tname = Empty
    PROVE  Reads(q, WriteTypeTable(mod), Set(q, "types", mod.types))
  <1> DEFINE ds == TypeAbbrevs(mod)
             x == Record(1, <<Len(mod.types)>>, 0)
             ss == Map(WriteType, mod.types)
             n == Len(mod.types)
             es == mod.types
             items == <<x>> \o FlattenSeq(ss)
  <1>f. "types" \in Fields /\ "tname" \in Fields /\ "open" \in Fields /\ "types" \in Apart /\ "types" # "open"
        /\ "tname" # "open"
    BY FieldsAre, ApartAre
  <1>s. IsSeq(ds)
    BY DEF IsSeq, TypeAbbrevs
  <1>1. mod.types \in Seq(TypeRecords) /\ IsSeq(es) /\ DOMAIN mod.types = 1..n /\ n \in Nat
    <2>1. mod.types \in Seq(TypeRecords)
      BY DEF IsModule
    <2> QED
      BY <2>1, SeqIs
  <1>2. DOMAIN ss = DOMAIN mod.types /\ ss = [k \in DOMAIN ss |-> ss[k]]
        /\ \A k \in 1..n : ss[k] = WriteType(es[k])
    BY <1>1 DEF Map
  <1>w. WriteTypeTable(mod) = <<Enter(17, 4)>> \o Map(Define, ds) \o <<x>> \o FlattenSeq(ss) \o <<Exit>>
    BY DEF WriteTypeTable, Flat, BlockIDs, TypeCodes
  <1> HIDE DEF ss, ds
  <1>3. IsSeq(ss) /\ Len(ss) = n
    BY <1>1, <1>2, MapShape
  <1>x. x.item = "record" /\ x.code = 1
    BY RecordFields
  <1> HIDE DEF x
  <1>4. ASSUME NEW c PROVE Reads(Holding(q, 17, 4, c), items, Set(Holding(q, 17, 4, c), "types", es))
    <2> DEFINE p == Holding(q, 17, 4, c)
    <2>1. IsReader(p) /\ In(p, 17) /\ p.types = Empty /\ p.tname = Empty
      BY <1>f, HoldingIs
    <2> HIDE DEF p
    <2>2. ASSUME NEW u, Like(u, p) PROVE Took(u, x) = u
      <3>1. Took(u, x) = ReadType(u, x)
        BY <2>1, <2>2, InTop, TookIs
      <3> QED
        BY <1>x, <3>1 DEF ReadType, TypeCodes
    <2>3. Reads(p, <<x>>, p)
      BY <1>x, <2>1, <2>2, ReadsSame
    <2>4. ASSUME NEW k \in 1..Len(es), NEW b, IsSeq(b)
          PROVE  Reads(Set(p, "types", b), ss[k], Set(p, "types", Append(b, es[k])))
      <3> DEFINE r == Set(p, "types", b)
      <3>1. In(r, 17) /\ IsReader(r) /\ r.tname = Empty /\ r.types = b
        BY <1>f, <2>1, InSet, SetFields
      <3>2. es[k] \in TypeRecords /\ ss[k] = WriteType(es[k])
        BY <1>1, <1>2
      <3>3. Set(r, "types", Append(b, es[k])) = Set(p, "types", Append(b, es[k]))
        BY SetSet
      <3> HIDE DEF r
      <3>4. Reads(r, WriteType(es[k]), Set(r, "types", Append(r.types, es[k])))
        BY <3>1, <3>2, TypeReads
      <3> QED
        BY <3>1, <3>2, <3>3, <3>4 DEF r
    <2>5. AddsEach(p, "types", ss, es)
      BY <2>4 DEF AddsEach
    <2>6. IsSeq(p.types) /\ p.types \o es = es
      BY <1>1, <2>1, NoneSeq, NoneJoined
    <2>7. Len(ss) = Len(es)
      BY <1>3
    <2> HIDE DEF es
    <2>8. Reads(p, FlattenSeq(ss), Set(p, "types", p.types \o es))
      BY <1>f, <1>1, <1>3, <2>1, <2>5, <2>6, <2>7, ReadsAddsEach
    <2>9. Reads(p, <<x>> \o FlattenSeq(ss), Set(p, "types", es))
      BY <2>3, <2>6, <2>8, ReadsJoin
    <2> QED
      BY <2>9 DEF p
  <1>5. Reads(q, <<Enter(17, 4)>> \o Map(Define, ds) \o items \o <<Exit>>, Set(q, "types", es))
    <2> HIDE DEF items, es
    <2>1. \A c : Reads(Holding(q, 17, 4, c), items, Set(Holding(q, 17, 4, c), "types", es))
      BY <1>4
    <2> QED
      BY <1>f, <1>s, <2>1, ReadsDefinedBlock
  <1>6. IsSeq(items) /\ IsSeq(FlattenSeq(ss)) /\ IsSeq(<<x>>)
    <2>1. IsSeq(items)
      BY <1>4 DEF Reads
    <2>2. \A k \in 1..Len(ss) : IsSeq(ss[k])
      <3>1. ASSUME NEW k \in 1..Len(ss) PROVE IsSeq(ss[k])
        <4>1. ss[k] = WriteType(es[k]) /\ es[k] \in TypeRecords
          BY <1>1, <1>2, <1>3
        <4>2. PICK r : In(r, 17) /\ IsReader(r) /\ r.tname = Empty
          <5>1. IsReader(Holding(q, 17, 4, Empty)) /\ In(Holding(q, 17, 4, Empty), 17)
                /\ Holding(q, 17, 4, Empty).tname = Empty
            BY <1>f, HoldingIs
          <5> QED
            BY <5>1
        <4> QED
          BY <4>1, <4>2, TypeReads DEF Reads
      <3> QED
        BY <3>1
    <2>3. IsSeq(FlattenSeq(ss))
      BY <1>3, <2>2, FlattenShape
    <2> QED
      BY <2>1, <2>3, OneSeq
  <1> DEFINE b == <<Enter(17, 4)>> \o Map(Define, ds)
             g == FlattenSeq(ss)
             o == <<x>>
  <1>7. IsSeq(b)
    <2>1. DOMAIN Map(Define, ds) = DOMAIN ds /\ Map(Define, ds) = [k \in DOMAIN Map(Define, ds) |-> Map(Define, ds)[k]]
      BY DEF Map
    <2>2. IsSeq(Map(Define, ds))
      BY <1>s, <2>1, MapShape
    <2> QED
      BY <2>2, OneSeq, JoinShape
  <1>8. (b \o o) \o g = b \o (o \o g)
    <2> HIDE DEF b, o, g
    <2>1. IsSeq(o) /\ IsSeq(g)
      BY <1>6 DEF o, g
    <2> QED
      BY <1>7, <2>1, JoinAssociates
  <1> QED
    BY <1>5, <1>8, <1>w

------------------------------------------------------------------------------
(* What is kept of a list.                                                 *)

\* What is kept of the first k elements, for every k: those whose index is in T.
KeptUpTo(P, seq, T, n) ==
  /\ P[0] = Empty
  /\ \A k \in 0..n : IsSeq(P[k])
  /\ \A k \in 1..n : k \in T => P[k] = Append(P[k - 1], seq[k])
  /\ \A k \in 1..n : k \notin T => P[k] = P[k - 1]

LEMMA KeptJoined ==
    ASSUME NEW seq, NEW T, NEW ss, IsSeq(ss),
           \A k \in 1..Len(ss) : ss[k] = (IF k \in T THEN <<seq[k]>> ELSE Empty)
    PROVE  \E P : KeptUpTo(P, seq, T, Len(ss)) /\ FlattenSeq(ss) = P[Len(ss)]
  <1> DEFINE n == Len(ss)
  <1>0. n \in Nat
    BY SeqShape
  <1>a. \A k \in 1..n : IsSeq(ss[k])
    <2> SUFFICES ASSUME NEW k \in 1..n PROVE IsSeq(ss[k])
      OBVIOUS
    <2> DEFINE x == seq[k]
    <2>1. IsSeq(<<x>>) /\ IsSeq(Empty)
      BY OneSeq, NoneSeq
    <2>2. ss[k] = <<x>> \/ ss[k] = Empty
      OBVIOUS
    <2> HIDE DEF x
    <2> QED
      BY <2>1, <2>2
  <1>1. PICK P : Joined(P, ss, n) /\ FlattenSeq(ss) = P[n]
    BY <1>a, FlattenJoined
  <1>j. P[0] = Empty /\ \A k \in 1..n : P[k] = P[k - 1] \o ss[k]
    BY <1>1 DEF Joined
  <1> DEFINE S == {k \in Nat : k <= n => IsSeq(P[k])}
  <1>2. 0 \in S
    BY <1>j, NoneSeq
  <1>3. ASSUME NEW k \in Nat, k \in S PROVE k + 1 \in S
    <2> SUFFICES ASSUME k + 1 <= n PROVE IsSeq(P[k + 1])
      OBVIOUS
    <2>1. PICK j \in 1..n : j = k + 1
      BY <1>0
    <2>2. P[j] = P[j - 1] \o ss[j]
      BY <1>j
    <2>3. j - 1 = k /\ IsSeq(P[k]) /\ IsSeq(ss[j])
      BY <1>3, <1>a, <2>1
    <2>4. IsSeq(P[k] \o ss[j])
      BY <2>3, JoinShape
    <2> QED
      BY <2>1, <2>2, <2>3, <2>4
  <1> HIDE DEF S
  <1>4. \A k \in Nat : k \in S
    BY <1>2, <1>3, NatSetInduction
  <1>5. \A k \in 0..n : IsSeq(P[k])
    BY <1>0, <1>4 DEF S
  <1>6. ASSUME NEW k \in 1..n PROVE /\ k \in T => P[k] = Append(P[k - 1], seq[k])
                                    /\ k \notin T => P[k] = P[k - 1]
    <2> DEFINE p == P[k - 1]
               x == seq[k]
    <2>1. IsSeq(p)
      <3>1. k - 1 \in 0..n
        BY <1>0
      <3> QED
        BY <1>5, <3>1
    <2>2. P[k] = p \o ss[k]
      BY <1>j
    <2>3. k \in T => ss[k] = <<x>>
      OBVIOUS
    <2>4. k \notin T => ss[k] = Empty
      OBVIOUS
    <2> HIDE DEF p, x
    <2>5. Append(p, x) = p \o <<x>>
      BY <2>1, AppendShape
    <2>6. p \o Empty = p
      BY <2>1, NoneJoined
    <2>7. k \in T => P[k] = Append(p, x)
      BY <2>2, <2>3, <2>5
    <2>8. k \notin T => P[k] = p
      BY <2>2, <2>4, <2>6
    <2> QED
      BY <2>7, <2>8 DEF p, x
  <1>7. KeptUpTo(P, seq, T, n)
    BY <1>j, <1>5, <1>6 DEF KeptUpTo
  <1> QED
    BY <1>1, <1>7

\* Every kept element is there, at the place it was put, and nothing else.
KeptFrom(P, seq, T, n) ==
  \A k \in 0..n :
    /\ \A j \in 1..k : j \in T => Len(P[j - 1]) + 1 \in 1..Len(P[k]) /\ P[k][Len(P[j - 1]) + 1] = seq[j]
    /\ \A i \in 1..Len(P[k]) : \E j \in 1..k : j \in T /\ i = Len(P[j - 1]) + 1
    /\ \A j \in 0..k : Len(P[j]) <= Len(P[k]) /\ \A i \in 1..Len(P[j]) : P[k][i] = P[j][i]

LEMMA KeptShape ==
    ASSUME NEW n \in Nat, NEW seq, NEW T, NEW P, KeptUpTo(P, seq, T, n)
    PROVE  KeptFrom(P, seq, T, n)
  <1> DEFINE Q(k) ==
        /\ \A j \in 1..k : j \in T => Len(P[j - 1]) + 1 \in 1..Len(P[k]) /\ P[k][Len(P[j - 1]) + 1] = seq[j]
        /\ \A i \in 1..Len(P[k]) : \E j \in 1..k : j \in T /\ i = Len(P[j - 1]) + 1
        /\ \A j \in 0..k : Len(P[j]) <= Len(P[k]) /\ \A i \in 1..Len(P[j]) : P[k][i] = P[j][i]
             S == {k \in Nat : k <= n => Q(k)}
  <1>p. /\ P[0] = Empty
        /\ \A k \in 0..n : IsSeq(P[k])
        /\ \A k \in 1..n : k \in T => P[k] = Append(P[k - 1], seq[k])
        /\ \A k \in 1..n : k \notin T => P[k] = P[k - 1]
    BY DEF KeptUpTo
  <1>1. 0 \in S
    <2>1. Len(P[0]) = 0
      BY <1>p, NoneSeq
    <2> QED
      BY <2>1
  <1>2. ASSUME NEW k \in Nat, k \in S PROVE k + 1 \in S
    <2> SUFFICES ASSUME k + 1 <= n PROVE Q(k + 1)
      OBVIOUS
    <2> DEFINE p == P[k]
               c == P[k + 1]
               x == seq[k + 1]
    <2>1. k \in 0..n /\ k + 1 \in 1..n /\ (k + 1) - 1 = k /\ Q(k)
      BY <1>2
    <2>2. IsSeq(p) /\ IsSeq(c) /\ Len(p) \in Nat
      <3>1. IsSeq(p) /\ IsSeq(c)
        BY <1>p, <2>1
      <3> QED
        BY <3>1, SeqShape
    <2>3. (k + 1 \in T => c = Append(p, x)) /\ (k + 1 \notin T => c = p)
      BY <1>p, <2>1
    <2>q. /\ \A j \in 1..k : j \in T => Len(P[j - 1]) + 1 \in 1..Len(p) /\ p[Len(P[j - 1]) + 1] = seq[j]
          /\ \A i \in 1..Len(p) : \E j \in 1..k : j \in T /\ i = Len(P[j - 1]) + 1
          /\ \A j \in 0..k : Len(P[j]) <= Len(p) /\ \A i \in 1..Len(P[j]) : p[i] = P[j][i]
      BY <2>1
    <2>n. \A j \in 0..(k + 1) : Len(P[j]) \in Nat
      <3>1. ASSUME NEW j \in 0..(k + 1) PROVE Len(P[j]) \in Nat
        <4>1. IsSeq(P[j])
          BY <1>p, <2>1
        <4> QED
          BY <4>1, SeqShape
      <3> QED
        BY <3>1
    <2>4. CASE k + 1 \in T
      <3>1. c = Append(p, x)
        BY <2>3, <2>4
      <3>2. /\ Len(c) = Len(p) + 1 /\ c[Len(p) + 1] = x
            /\ \A i \in 1..Len(p) : c[i] = p[i]
        <4> HIDE DEF p, x, c
        <4> QED
          BY <2>2, <3>1, AppendShape
      <3>3. ASSUME NEW j \in 1..(k + 1), j \in T
            PROVE  Len(P[j - 1]) + 1 \in 1..Len(c) /\ c[Len(P[j - 1]) + 1] = seq[j]
        <4>1. CASE j = k + 1
          BY <2>2, <3>2, <4>1
        <4>2. CASE j # k + 1
          <5>1. j \in 1..k
            BY <4>2
          <5>2. Len(P[j - 1]) + 1 \in 1..Len(p) /\ p[Len(P[j - 1]) + 1] = seq[j]
            BY <2>q, <3>3, <5>1
          <5> QED
            BY <2>2, <3>2, <5>2
        <4> QED
          BY <4>1, <4>2
      <3>4. ASSUME NEW i \in 1..Len(c) PROVE \E j \in 1..(k + 1) : j \in T /\ i = Len(P[j - 1]) + 1
        <4>1. CASE i = Len(p) + 1
          BY <2>1, <2>4, <4>1
        <4>2. CASE i # Len(p) + 1
          <5>1. i \in 1..Len(p)
            BY <2>2, <3>2, <4>2
          <5>2. PICK j \in 1..k : j \in T /\ i = Len(P[j - 1]) + 1
            BY <2>q, <5>1
          <5> QED
            BY <5>2
        <4> QED
          BY <4>1, <4>2
      <3>5. ASSUME NEW j \in 0..(k + 1) PROVE Len(P[j]) <= Len(c) /\ \A i \in 1..Len(P[j]) : c[i] = P[j][i]
        <4>1. CASE j = k + 1
          BY <2>n, <4>1
        <4>2. CASE j # k + 1
          <5>1. j \in 0..k
            BY <4>2
          <5>2. Len(P[j]) <= Len(p) /\ \A i \in 1..Len(P[j]) : p[i] = P[j][i]
            BY <2>q, <5>1
          <5>3. Len(P[j]) \in Nat
            BY <2>n
          <5>4. ASSUME NEW i \in 1..Len(P[j]) PROVE c[i] = P[j][i]
            <6>1. i \in 1..Len(p) /\ p[i] = P[j][i]
              BY <2>2, <5>2, <5>3
            <6> HIDE DEF p, c
            <6> QED
              BY <3>2, <6>1
          <5>5. Len(P[j]) <= Len(c)
            <6> HIDE DEF p, c
            <6> QED
              BY <2>2, <3>2, <5>2, <5>3
          <5> QED
            BY <5>4, <5>5
        <4> QED
          BY <4>1, <4>2
      <3> QED
        BY <3>3, <3>4, <3>5
    <2>5. CASE k + 1 \notin T
      <3>1. c = p
        BY <2>3, <2>5
      <3>2. \A j \in 1..(k + 1) : j \in T => j \in 1..k
        BY <2>5
      <3>3. \A j \in 0..(k + 1) : j \in 0..k \/ j = k + 1
        OBVIOUS
      <3>4. ASSUME NEW j \in 0..(k + 1) PROVE Len(P[j]) <= Len(c) /\ \A i \in 1..Len(P[j]) : c[i] = P[j][i]
        <4>1. CASE j = k + 1
          BY <2>n, <4>1
        <4>2. CASE j \in 0..k
          <5>1. Len(P[j]) <= Len(p) /\ \A i \in 1..Len(P[j]) : p[i] = P[j][i]
            BY <2>q, <4>2
          <5> HIDE DEF p, c
          <5> QED
            BY <3>1, <5>1
        <4> QED
          BY <3>3, <4>1, <4>2
      <3>5. \A i \in 1..Len(c) : \E j \in 1..(k + 1) : j \in T /\ i = Len(P[j - 1]) + 1
        BY <2>q, <3>1
      <3> QED
        BY <2>q, <3>1, <3>2, <3>4, <3>5
    <2> QED
      BY <2>4, <2>5
  <1> HIDE DEF Q
  <1>3. \A k \in Nat : k \in S
    <2> HIDE DEF S
    <2> QED
      BY <1>1, <1>2, NatSetInduction
  <1>4. \A k \in 0..n : Q(k)
    BY <1>3
  <1> QED
    BY <1>4 DEF Q, KeptFrom

------------------------------------------------------------------------------
(* The names of the sections and collectors.                               *)

GlobalUse(g) == <<5, g.section>>
SectionUse(f) == <<5, f.section>>
GCUse(f) == <<11, f.gc>>
FunctionUses(f) == <<SectionUse(f), GCUse(f)>>
IsUse(u) == u = <<u[1], u[2]>> /\ u[1] \in {5, 11} /\ u[2] \in Texts

LEMMA UsesIs ==
    ASSUME NEW mod
    PROVE  Uses(mod) = Map(GlobalUse, mod.globals) \o Flat(FunctionUses, mod.functions)
  BY DEF Uses, Map, Flat, GlobalUse, FunctionUses, SectionUse, GCUse, ModuleCodes

\* What a list of uses is to have.
Used(mod, uses) ==
  /\ IsSeq(uses)
  /\ \A j \in 1..Len(uses) : IsUse(uses[j])
  /\ \A k \in 1..Len(mod.globals) : \E j \in 1..Len(uses) : uses[j] = GlobalUse(mod.globals[k])
  /\ \A k \in 1..Len(mod.functions) :
       /\ \E j \in 1..Len(uses) : uses[j] = SectionUse(mod.functions[k])
       /\ \E j \in 1..Len(uses) : uses[j] = GCUse(mod.functions[k])

LEMMA ModuleLists ==
    ASSUME NEW mod, IsModule(mod)
    PROVE  /\ IsSeq(mod.globals) /\ DOMAIN mod.globals = 1..Len(mod.globals)
           /\ IsSeq(mod.functions) /\ DOMAIN mod.functions = 1..Len(mod.functions)
           /\ IsSeq(mod.aliases) /\ DOMAIN mod.aliases = 1..Len(mod.aliases)
           /\ IsSeq(mod.consts) /\ IsSeq(mod.mds) /\ IsSeq(mod.named) /\ IsSeq(mod.kinds) /\ IsSeq(mod.names)
           /\ IsSeq(mod.types)
           /\ \A k \in 1..Len(mod.globals) : mod.globals[k] \in GlobalVars(mod)
           /\ \A k \in 1..Len(mod.functions) : mod.functions[k] \in Functions(mod)
           /\ \A k \in 1..Len(mod.aliases) : mod.aliases[k] \in Aliases(mod)
  <1>1. /\ mod.globals \in Seq(GlobalVars(mod)) /\ mod.functions \in Seq(Functions(mod))
        /\ mod.aliases \in Seq(Aliases(mod)) /\ IsSeq(mod.consts) /\ IsSeq(mod.mds)
        /\ mod.named \in Seq([name : Texts, ops : Seq(Nat)]) /\ mod.kinds \in Seq(Texts)
        /\ mod.names \in Seq(NameEntries) /\ mod.types \in Seq(TypeRecords)
    BY DEF IsModule
  <1>2. IsSeq(mod.named) /\ IsSeq(mod.kinds) /\ IsSeq(mod.names) /\ IsSeq(mod.types)
    BY <1>1, SeqIs
  <1>3. IsSeq(mod.globals) /\ DOMAIN mod.globals = 1..Len(mod.globals)
    BY <1>1, SeqIs
  <1>4. IsSeq(mod.functions) /\ DOMAIN mod.functions = 1..Len(mod.functions)
    BY <1>1, SeqIs
  <1>5. IsSeq(mod.aliases) /\ DOMAIN mod.aliases = 1..Len(mod.aliases)
    BY <1>1, SeqIs
  <1>6. ASSUME NEW S, NEW s \in Seq(S), NEW k \in 1..Len(s) PROVE s[k] \in S
    OBVIOUS
  <1>7. /\ \A k \in 1..Len(mod.globals) : mod.globals[k] \in GlobalVars(mod)
        /\ \A k \in 1..Len(mod.functions) : mod.functions[k] \in Functions(mod)
        /\ \A k \in 1..Len(mod.aliases) : mod.aliases[k] \in Aliases(mod)
    BY <1>1, <1>6
  <1> QED
    BY <1>1, <1>2, <1>3, <1>4, <1>5, <1>7

LEMMA ModuleUses ==
    ASSUME NEW mod, IsModule(mod)
    PROVE  Used(mod, Uses(mod))
  <1> DEFINE gs == Map(GlobalUse, mod.globals)
             ps == Map(FunctionUses, mod.functions)
             fs == FlattenSeq(ps)
             g == Len(mod.globals)
             n == Len(mod.functions)
  <1>m. /\ IsSeq(mod.globals) /\ DOMAIN mod.globals = 1..g /\ g \in Nat
        /\ IsSeq(mod.functions) /\ DOMAIN mod.functions = 1..n /\ n \in Nat
        /\ \A k \in 1..g : mod.globals[k] \in GlobalVars(mod)
        /\ \A k \in 1..n : mod.functions[k] \in Functions(mod)
    <2>1. IsSeq(mod.globals) /\ IsSeq(mod.functions)
      BY ModuleLists
    <2> QED
      BY <2>1, ModuleLists, SeqShape
  <1>1. \A k \in 1..g : gs[k] = GlobalUse(mod.globals[k])
    BY <1>m DEF Map
  <1>2. \A k \in 1..n : ps[k] = <<SectionUse(mod.functions[k]), GCUse(mod.functions[k])>>
    BY <1>m DEF Map, FunctionUses
  <1>3. DOMAIN gs = DOMAIN mod.globals /\ gs = [k \in DOMAIN gs |-> gs[k]]
        /\ DOMAIN ps = DOMAIN mod.functions /\ ps = [k \in DOMAIN ps |-> ps[k]]
    BY DEF Map
  <1>u. Uses(mod) = gs \o fs
    BY UsesIs DEF Flat
  <1> HIDE DEF gs, ps, fs, g, n
  <1>4. IsSeq(gs) /\ Len(gs) = g /\ IsSeq(ps) /\ Len(ps) = n
    BY <1>m, <1>3, MapShape DEF g, n
  <1>5. ASSUME NEW k \in 1..n
        PROVE  IsSeq(ps[k]) /\ Len(ps[k]) = 2 /\ ps[k][1] = SectionUse(mod.functions[k])
               /\ ps[k][2] = GCUse(mod.functions[k])
    <2>1. PICK a : a = SectionUse(mod.functions[k])
      OBVIOUS
    <2>2. PICK b : b = GCUse(mod.functions[k])
      OBVIOUS
    <2>3. ps[k] = <<a, b>>
      BY <1>2, <2>1, <2>2
    <2>4. IsSeq(<<a, b>>) /\ Len(<<a, b>>) = 2 /\ <<a, b>>[1] = a /\ <<a, b>>[2] = b
      BY TwoSeq
    <2> QED
      BY <2>1, <2>2, <2>3, <2>4
  <1>6. /\ IsSeq(fs) /\ Len(fs) = 2 * n
        /\ \A k \in 1..n : fs[2 * k - 1] = SectionUse(mod.functions[k]) /\ fs[2 * k] = GCUse(mod.functions[k])
    <2>1. \A k \in 1..Len(ps) : IsSeq(ps[k]) /\ Len(ps[k]) = 2
      BY <1>4, <1>5
    <2>2. /\ IsSeq(FlattenSeq(ps)) /\ Len(FlattenSeq(ps)) = 2 * Len(ps)
          /\ \A k \in 1..Len(ps) : FlattenSeq(ps)[2 * k - 1] = ps[k][1] /\ FlattenSeq(ps)[2 * k] = ps[k][2]
      BY <1>4, <2>1, PairsJoined
    <2> QED
      BY <1>4, <1>5, <2>2 DEF fs
  <1> DEFINE us == gs \o fs
  <1>7. /\ IsSeq(us) /\ Len(us) = g + 2 * n
        /\ \A k \in 1..g : us[k] = gs[k]
        /\ \A k \in 1..(2 * n) : us[g + k] = fs[k]
    <2>1. IsSeq(us) /\ Len(us) = Len(gs) + Len(fs)
      BY <1>4, <1>6, JoinShape
    <2>2. \A k \in 1..Len(gs) : us[k] = gs[k]
      BY <1>4, <1>6, JoinShape
    <2>3. \A k \in 1..Len(fs) : us[Len(gs) + k] = fs[k]
      BY <1>4, <1>6, JoinShape
    <2> HIDE DEF us
    <2> QED
      BY <1>4, <1>6, <2>1, <2>2, <2>3
  <1> HIDE DEF us
  <1>8. ASSUME NEW k \in 1..g PROVE IsUse(GlobalUse(mod.globals[k]))
    <2>1. mod.globals[k].section \in Texts
      BY <1>m DEF GlobalVars
    <2> QED
      BY <2>1 DEF GlobalUse, IsUse
  <1>9. ASSUME NEW k \in 1..n PROVE IsUse(SectionUse(mod.functions[k])) /\ IsUse(GCUse(mod.functions[k]))
    <2>1. mod.functions[k].section \in Texts /\ mod.functions[k].gc \in Texts
      BY <1>m DEF Functions
    <2> QED
      BY <2>1 DEF SectionUse, GCUse, IsUse
  <1>10. ASSUME NEW j \in 1..Len(us) PROVE IsUse(us[j])
    <2>1. CASE j <= g
      <3>1. j \in 1..g
        BY <1>m, <1>7, <2>1
      <3>2. us[j] = GlobalUse(mod.globals[j])
        BY <1>1, <1>7, <3>1
      <3> QED
        BY <1>8, <3>1, <3>2
    <2>2. CASE j > g
      <3>1. PICK i \in 1..(2 * n) : j = g + i
        BY <1>m, <1>7, <2>2
      <3>2. PICK k \in 1..n : i = 2 * k \/ i = 2 * k - 1
        <4> DEFINE k == (i + 1) \div 2
        <4>1. k \in 1..n /\ (i = 2 * k \/ i = 2 * k - 1)
          BY <1>m
        <4> QED
          BY <4>1
      <3>3. us[j] = SectionUse(mod.functions[k]) \/ us[j] = GCUse(mod.functions[k])
        BY <1>6, <1>7, <3>1, <3>2
      <3> QED
        BY <1>9, <3>3
    <2> QED
      BY <1>m, <1>7, <2>1, <2>2
  <1>11. ASSUME NEW k \in 1..g PROVE \E j \in 1..Len(us) : us[j] = GlobalUse(mod.globals[k])
    <2>1. k \in 1..Len(us)
      BY <1>m, <1>7
    <2>2. us[k] = GlobalUse(mod.globals[k])
      BY <1>1, <1>7
    <2> QED
      BY <2>1, <2>2
  <1>12. ASSUME NEW k \in 1..n PROVE /\ \E j \in 1..Len(us) : us[j] = SectionUse(mod.functions[k])
                                     /\ \E j \in 1..Len(us) : us[j] = GCUse(mod.functions[k])
    <2>1. 2 * k \in 1..(2 * n) /\ 2 * k - 1 \in 1..(2 * n)
      BY <1>m
    <2>2. g + 2 * k \in 1..Len(us) /\ g + (2 * k - 1) \in 1..Len(us)
      BY <1>m, <1>7, <2>1
    <2>3. us[g + 2 * k] = GCUse(mod.functions[k]) /\ us[g + (2 * k - 1)] = SectionUse(mod.functions[k])
      BY <1>6, <1>7, <2>1
    <2> QED
      BY <2>2, <2>3
  <1> QED
    BY <1>u, <1>7, <1>10, <1>11, <1>12 DEF us, Used, g, n

\* The names are the uses of names, each once and in this order.
NamesUpTo(H, uses, n) ==
  /\ H[0] = Empty
  /\ \A k \in 1..n : H[k] = AddName(H[k - 1], uses[k])
Named(names, uses, n) ==
  /\ IsSeq(names)
  /\ \A i \in 1..Len(names) : \E j \in 1..n : names[i] = uses[j] /\ uses[j][2] # Empty
  /\ \A j \in 1..n : uses[j][2] # Empty => \E i \in 1..Len(names) : names[i] = uses[j]

LEMMA NamesRun ==
    ASSUME NEW mod, IsModule(mod)
    PROVE  \E H : NamesUpTo(H, Uses(mod), Len(Uses(mod))) /\ Names(mod) = H[Len(Uses(mod))]
  <1> DEFINE uses == Uses(mod)
  <1>1. IsSeq(uses)
    BY ModuleUses DEF Used
  <1>2. DOMAIN uses = 1..Len(uses)
    BY <1>1, SeqShape
  <1>3. Names(mod) = Folded("name", 0, Empty, uses)
    <2> HIDE DEF uses
    <2>1. FoldLeft(AddName, <<>>, uses) = Folded("name", 0, Empty, uses)
      BY <1>2 DEF FoldLeft, MapThenFoldSet, IsFold, Folded, Step, Empty
    <2> QED
      BY <2>1 DEF Names, uses
  <1> HIDE DEF uses
  <1>4. PICK H : Runs("name", 0, H, Empty, uses, Len(uses)) /\ Folded("name", 0, Empty, uses) = H[Len(uses)]
    BY <1>1, FoldRuns
  <1>5. NamesUpTo(H, uses, Len(uses))
    BY <1>4 DEF Runs, NamesUpTo, Step
  <1> QED
    BY <1>3, <1>4, <1>5 DEF uses

\* A name is added to a list that has it not.
Extends(got, names, use) ==
  /\ IsSeq(got)
  /\ \A i \in 1..Len(names) : \E j \in 1..Len(got) : got[j] = names[i]
  /\ \A i \in 1..Len(got) :
       (\E j \in 1..Len(names) : got[i] = names[j]) \/ (got[i] = use /\ use[2] # Empty)
  /\ use[2] # Empty => \E i \in 1..Len(got) : got[i] = use

LEMMA AddedName ==
    ASSUME NEW names, IsSeq(names), NEW use
    PROVE  Extends(AddName(names, use), names, use)
  <1> DEFINE new == Append(names, use)
  <1>0. PICK got : got = AddName(names, use)
    OBVIOUS
  <1> SUFFICES Extends(got, names, use)
    BY <1>0
  <1>1. Len(names) \in Nat
    BY SeqShape
  <1>2. IsSeq(new) /\ Len(new) = Len(names) + 1 /\ new[Len(names) + 1] = use
    BY AppendShape
  <1>3. \A k \in 1..Len(names) : new[k] = names[k]
    BY AppendShape
  <1>4. CASE use[2] = Empty \/ Contains(names, use)
    <2>1. got = names
      BY <1>0, <1>4 DEF AddName, Empty
    <2>2. use[2] # Empty => \E i \in 1..Len(names) : names[i] = use
      BY <1>4 DEF Contains
    <2> QED
      BY <2>1, <2>2 DEF Extends
  <1>5. CASE ~(use[2] = Empty \/ Contains(names, use))
    <2>1. got = new /\ use[2] # Empty
      BY <1>0, <1>5 DEF AddName, Empty
    <2> HIDE DEF new
    <2>2. \A i \in 1..Len(names) : i \in 1..Len(new) /\ new[i] = names[i]
      BY <1>1, <1>2, <1>3
    <2>3. \A i \in 1..Len(new) : i \in 1..Len(names) \/ i = Len(names) + 1
      BY <1>1, <1>2
    <2>4. Len(names) + 1 \in 1..Len(new)
      BY <1>1, <1>2
    <2>5. \A i \in 1..Len(new) : (\E j \in 1..Len(names) : new[i] = names[j]) \/ new[i] = use
      BY <1>2, <2>2, <2>3
    <2> QED
      BY <1>2, <2>1, <2>2, <2>4, <2>5 DEF Extends
  <1> QED
    BY <1>4, <1>5

LEMMA NamesAre ==
    ASSUME NEW mod, IsModule(mod)
    PROVE  Named(Names(mod), Uses(mod), Len(Uses(mod)))
  <1> DEFINE uses == Uses(mod)
             n == Len(uses)
  <1>1. PICK H : NamesUpTo(H, uses, n) /\ Names(mod) = H[n]
    BY NamesRun
  <1>2. n \in Nat
    <2>1. IsSeq(uses)
      BY ModuleUses DEF Used
    <2> QED
      BY <2>1, SeqShape
  <1> HIDE DEF uses, n
  <1> DEFINE S == {k \in Nat : k <= n => Named(H[k], uses, k)}
  <1>3. 0 \in S
    <2>1. H[0] = Empty
      BY <1>1 DEF NamesUpTo
    <2> QED
      BY <2>1, NoneSeq DEF Named
  <1>4. ASSUME NEW k \in Nat, k \in S PROVE k + 1 \in S
    <2> SUFFICES ASSUME k + 1 <= n PROVE Named(H[k + 1], uses, k + 1)
      OBVIOUS
    <2>1. PICK i \in 1..n : i = k + 1
      BY <1>2
    <2>2. H[i] = AddName(H[i - 1], uses[i])
      BY <1>1 DEF NamesUpTo
    <2>3. Named(H[k], uses, k) /\ i - 1 = k
      <3>1. k <= n /\ i - 1 = k
        BY <1>2, <2>1
      <3> QED
        BY <1>4, <3>1
    <2>4. PICK a : a = H[k]
      OBVIOUS
    <2>5. PICK use : use = uses[k + 1]
      OBVIOUS
    <2>6. PICK b : b = AddName(a, use)
      OBVIOUS
    <2>7. H[k + 1] = b
      BY <2>1, <2>2, <2>3, <2>4, <2>5, <2>6
    <2>8. IsSeq(a) /\ (\A g \in 1..Len(a) : \E j \in 1..k : a[g] = uses[j] /\ uses[j][2] # Empty)
          /\ (\A j \in 1..k : uses[j][2] # Empty => \E g \in 1..Len(a) : a[g] = uses[j])
      BY <2>3, <2>4 DEF Named
    <2>9. /\ IsSeq(b)
          /\ \A g \in 1..Len(a) : \E j \in 1..Len(b) : b[j] = a[g]
          /\ \A g \in 1..Len(b) :
               (\E j \in 1..Len(a) : b[g] = a[j]) \/ (b[g] = use /\ use[2] # Empty)
          /\ use[2] # Empty => \E g \in 1..Len(b) : b[g] = use
      <3>1. Extends(b, a, use)
        BY <2>6, <2>8, AddedName
      <3> QED
        BY <3>1 DEF Extends
    <2>10. (\A j \in 1..k : j \in 1..(k + 1)) /\ k + 1 \in 1..(k + 1)
           /\ \A j \in 1..(k + 1) : j \in 1..k \/ j = k + 1
      BY <1>4
    <2>11. ASSUME NEW g \in 1..Len(b) PROVE \E j \in 1..(k + 1) : b[g] = uses[j] /\ uses[j][2] # Empty
      <3>1. CASE \E j \in 1..Len(a) : b[g] = a[j]
        BY <2>8, <2>10, <3>1
      <3>2. CASE b[g] = use /\ use[2] # Empty
        BY <2>5, <2>10, <3>2
      <3> QED
        BY <2>9, <3>1, <3>2
    <2>12. ASSUME NEW j \in 1..(k + 1), uses[j][2] # Empty PROVE \E g \in 1..Len(b) : b[g] = uses[j]
      <3>1. CASE j = k + 1
        BY <2>5, <2>9, <2>12, <3>1
      <3>2. CASE j \in 1..k
        <4>1. PICK g \in 1..Len(a) : a[g] = uses[j]
          BY <2>8, <2>12, <3>2
        <4> QED
          BY <2>9, <4>1
      <3> QED
        BY <2>10, <3>1, <3>2
    <2> QED
      BY <2>7, <2>9, <2>11, <2>12 DEF Named
  <1>5. \A k \in Nat : k \in S
    <2> HIDE DEF S
    <2> QED
      BY <1>3, <1>4, NatSetInduction
  <1>6. Named(H[n], uses, n)
    BY <1>2, <1>5
  <1> QED
    BY <1>1, <1>6 DEF uses, n

OfCode(names, c) == FlattenSeq([k \in DOMAIN names |-> IF names[k][1] = c THEN <<names[k]>> ELSE Empty])
Seconds(s) == [i \in DOMAIN s |-> s[i][2]]
NameRecord(use) == WriteStringRecord(use[1], use[2], 0)

LEMMA NumberIs ==
    ASSUME NEW mod, NEW c, NEW name
    PROVE  Number(mod, c, name) =
             IF name = Empty THEN 0
             ELSE CHOOSE k \in DOMAIN OfCode(Names(mod), c) : OfCode(Names(mod), c)[k][2] = name
  BY DEF Number, Kept, Flat, Map, One, OfCode, Empty

LEMMA SecondsShape ==
    ASSUME NEW s, IsSeq(s)
    PROVE  /\ IsSeq(Seconds(s)) /\ Len(Seconds(s)) = Len(s)
           /\ \A k \in 1..Len(s) : Seconds(s)[k] = s[k][2]
  <1> DEFINE t == Seconds(s)
  <1>1. DOMAIN t = DOMAIN s /\ t = [k \in DOMAIN t |-> t[k]]
    BY DEF Seconds
  <1>2. DOMAIN s = 1..Len(s)
    BY SeqShape
  <1>3. \A k \in 1..Len(s) : t[k] = s[k][2]
    BY <1>2 DEF Seconds
  <1> HIDE DEF t
  <1>4. IsSeq(t) /\ Len(t) = Len(s)
    BY <1>1, MapShape
  <1> QED
    BY <1>3, <1>4 DEF t

LEMMA SecondsAppend ==
    ASSUME NEW s, IsSeq(s), NEW x
    PROVE  Seconds(Append(s, x)) = Append(Seconds(s), x[2])
  <1>1. PICK t : t = Append(s, x)
    OBVIOUS
  <1>2. PICK a : a = Seconds(s)
    OBVIOUS
  <1>3. PICK y : y = x[2]
    OBVIOUS
  <1>4. PICK b : b = Append(a, y)
    OBVIOUS
  <1>5. IsSeq(t) /\ Len(t) = Len(s) + 1 /\ t[Len(s) + 1] = x /\ \A k \in 1..Len(s) : t[k] = s[k]
    BY <1>1, AppendShape
  <1>6. IsSeq(a) /\ Len(a) = Len(s) /\ \A k \in 1..Len(s) : a[k] = s[k][2]
    BY <1>2, SecondsShape
  <1>7. IsSeq(b) /\ Len(b) = Len(a) + 1 /\ b[Len(a) + 1] = y /\ \A k \in 1..Len(a) : b[k] = a[k]
    <2>1. IsSeq(a)
      BY <1>6
    <2>2. IsSeq(Append(a, y)) /\ Len(Append(a, y)) = Len(a) + 1
      BY <2>1, AppendShape
    <2>3. Append(a, y)[Len(a) + 1] = y /\ \A k \in 1..Len(a) : Append(a, y)[k] = a[k]
      BY <2>1, AppendShape
    <2> QED
      BY <1>4, <2>2, <2>3
  <1>8. PICK d : d = Seconds(t)
    OBVIOUS
  <1>9. IsSeq(d) /\ Len(d) = Len(t) /\ \A k \in 1..Len(t) : d[k] = t[k][2]
    BY <1>5, <1>8, SecondsShape
  <1>10. Len(s) \in Nat
    BY SeqShape
  <1>11. \A k \in 1..Len(d) : d[k] = b[k]
    BY <1>3, <1>5, <1>6, <1>7, <1>9, <1>10
  <1>12. Len(d) = Len(b)
    BY <1>5, <1>6, <1>7, <1>9
  <1>13. d = b
    BY <1>7, <1>9, <1>11, <1>12, SameSeq
  <1> QED
    BY <1>1, <1>2, <1>3, <1>4, <1>8, <1>13

CodeAt(names, c) == {k \in 1..Len(names) : names[k][1] = c}

LEMMA OfCodeKept ==
    ASSUME NEW names, IsSeq(names), NEW c
    PROVE  \E P : /\ KeptUpTo(P, names, CodeAt(names, c), Len(names))
                  /\ OfCode(names, c) = P[Len(names)]
  <1> DEFINE n == Len(names)
             T == CodeAt(names, c)
             ss == [k \in DOMAIN names |-> IF names[k][1] = c THEN <<names[k]>> ELSE Empty]
  <1>1. DOMAIN names = 1..n /\ n \in Nat
    BY SeqShape
  <1>2. DOMAIN ss = DOMAIN names /\ ss = [k \in DOMAIN ss |-> ss[k]]
    OBVIOUS
  <1>3. \A k \in 1..n : ss[k] = IF k \in T THEN <<names[k]>> ELSE Empty
    BY <1>1 DEF CodeAt
  <1>4. OfCode(names, c) = FlattenSeq(ss)
    BY DEF OfCode
  <1> HIDE DEF ss, T
  <1>5. IsSeq(ss) /\ Len(ss) = n
    BY <1>2, MapShape
  <1>6. \E P : KeptUpTo(P, names, T, Len(ss)) /\ FlattenSeq(ss) = P[Len(ss)]
    BY <1>3, <1>5, KeptJoined
  <1> QED
    BY <1>4, <1>5, <1>6 DEF T

LEMMA NumberReads ==
    ASSUME NEW mod, IsModule(mod), NEW c, NEW name,
           \E j \in 1..Len(Uses(mod)) : Uses(mod)[j] = <<c, name>>
    PROVE  NameOf(Seconds(OfCode(Names(mod), c)), Number(mod, c, name)) = name
  <1> DEFINE k == Number(mod, c, name)
  <1>0. PICK names : names = Names(mod)
    OBVIOUS
  <1>1. PICK list : list = OfCode(names, c)
    OBVIOUS
  <1>2. k = IF name = Empty THEN 0 ELSE CHOOSE i \in DOMAIN list : list[i][2] = name
    BY <1>0, <1>1, NumberIs
  <1> HIDE DEF k
  <1>3. CASE name = Empty
    <2>1. k = 0
      BY <1>2, <1>3
    <2> QED
      BY <1>3, <2>1 DEF NameOf, Empty, k
  <1>4. CASE name # Empty
    <2>1. Named(names, Uses(mod), Len(Uses(mod)))
      BY <1>0, NamesAre
    <2>2. PICK j \in 1..Len(Uses(mod)) : Uses(mod)[j] = <<c, name>>
      OBVIOUS
    <2>3. IsSeq(names) /\ \E i \in 1..Len(names) : names[i] = <<c, name>>
      <3>1. Uses(mod)[j][2] # Empty
        BY <1>4, <2>2
      <3> QED
        BY <2>1, <2>2, <3>1 DEF Named
    <2>4. PICK i \in 1..Len(names) : names[i] = <<c, name>>
      BY <2>3
    <2>5. names[i][1] = c /\ names[i][2] = name
      BY <2>4
    <2> DEFINE T == CodeAt(names, c)
    <2>6. PICK P : KeptUpTo(P, names, T, Len(names)) /\ list = P[Len(names)]
      BY <1>1, <2>3, OfCodeKept
    <2>7. Len(names) \in Nat
      BY <2>3, SeqShape
    <2>8. KeptFrom(P, names, T, Len(names)) /\ IsSeq(list)
      <3>1. KeptFrom(P, names, T, Len(names))
        BY <2>6, <2>7, KeptShape
      <3>2. IsSeq(list)
        BY <2>6, <2>7 DEF KeptUpTo
      <3> QED
        BY <3>1, <3>2
    <2>9. i \in T
      BY <2>5 DEF CodeAt
    <2>10. \E g \in 1..Len(list) : list[g] = names[i]
      <3>1. PICK n : n = Len(names)
        OBVIOUS
      <3>2. n \in 0..n /\ i \in 1..n
        BY <2>7, <3>1
      <3> HIDE DEF T
      <3>3. \A g \in 1..n : g \in T => Len(P[g - 1]) + 1 \in 1..Len(P[n]) /\ P[n][Len(P[g - 1]) + 1] = names[g]
        BY <2>8, <3>1, <3>2 DEF KeptFrom
      <3>4. Len(P[i - 1]) + 1 \in 1..Len(P[n]) /\ P[n][Len(P[i - 1]) + 1] = names[i]
        BY <2>9, <3>2, <3>3
      <3> QED
        BY <2>6, <3>1, <3>4
    <2>11. DOMAIN list = 1..Len(list) /\ Len(list) \in Nat
      BY <2>8, SeqShape
    <2>12. \E g \in DOMAIN list : list[g][2] = name
      BY <2>5, <2>10, <2>11
    <2>13. k = CHOOSE g \in DOMAIN list : list[g][2] = name
      BY <1>2, <1>4
    <2>14. k \in DOMAIN list /\ list[k][2] = name
      BY <2>12, <2>13
    <2>15. k # 0 /\ k \in DOMAIN Seconds(list) /\ Seconds(list)[k] = name
      BY <2>11, <2>14 DEF Seconds
    <2>16. NameOf(Seconds(list), k) = name
      BY <2>15 DEF NameOf
    <2> QED
      BY <1>0, <1>1, <2>16 DEF k
  <1> QED
    BY <1>3, <1>4

LEMMA TextRecord ==
    ASSUME NEW c, NEW str \in Texts, NEW ab
    PROVE  /\ WriteStringRecord(c, str, ab).item = "record" /\ WriteStringRecord(c, str, ab).code = c
           /\ ToBytes(WriteStringRecord(c, str, ab).vals) = str
  <1> DEFINE x == WriteStringRecord(c, str, ab)
  <1>1. x.item = "record" /\ x.code = c /\ x.vals = Chars(str, Width)
    BY RecordFields DEF WriteStringRecord
  <1>2. ToBytes(x.vals) = str
    BY <1>1, TextReads, WidthIs
  <1> HIDE DEF x
  <1> QED
    BY <1>1, <1>2 DEF x

\* A record of the module block.
LEMMA InModule ==
    ASSUME NEW r, In(r, 8), NEW u, Like(u, r), NEW x
    PROVE  Took(u, x) = ReadModule(u, x)
  BY InTop, TookIs

LEMMA TextSet ==
    ASSUME NEW r, In(r, 8), NEW c, NEW f, <<c, f>> \in {<<2, "triple">>, <<3, "layout">>, <<4, "asm">>},
           NEW str \in Texts
    PROVE  Reads(r, <<WriteStringRecord(c, str, 0)>>, Set(r, f, str))
  <1> DEFINE x == WriteStringRecord(c, str, 0)
  <1>f. f \in Apart /\ f \in Fields /\ IsReader(r)
    BY ApartAre, FieldsAre DEF In
  <1>1. x.item = "record" /\ x.code = c /\ ToBytes(x.vals) = str
    BY TextRecord
  <1> HIDE DEF x
  <1>2. ASSUME NEW u, Like(u, r) PROVE Took(u, x) = Set(u, f, str)
    <2>1. Took(u, x) = ReadModule(u, x)
      BY <1>2, InModule
    <2>2. ReadModule(u, x) = Set(u, f, ToBytes(x.vals))
      BY <1>1 DEF ReadModule, ModuleCodes
    <2> QED
      BY <1>1, <2>1, <2>2
  <1>3. Reads(r, <<x>>, Set(r, f, str))
    BY <1>1, <1>f, <1>2, ReadsSets
  <1> QED
    BY <1>3 DEF x

\* A text is written unless another is empty.
Text(when, str) == IF when = Empty THEN Empty ELSE str

LEMMA TextSets ==
    ASSUME NEW r, In(r, 8), NEW c, NEW f, <<c, f>> \in {<<2, "triple">>, <<3, "layout">>, <<4, "asm">>},
           NEW str \in Texts, r[f] = Empty, NEW when
    PROVE  Reads(r, One(when # <<>>, WriteStringRecord(c, str, 0)), Set(r, f, Text(when, str)))
  <1>f. f \in Fields /\ IsReader(r)
    BY FieldsAre DEF In
  <1>1. CASE when = Empty
    <2>1. One(when # <<>>, WriteStringRecord(c, str, 0)) = Empty /\ Text(when, str) = Empty
      BY <1>1 DEF One, Empty, Text
    <2>2. Set(r, f, r[f]) = r
      BY <1>f, SetFields
    <2> QED
      BY <2>1, <2>2, ReadsNone
  <1>2. CASE when # Empty
    <2>1. One(when # <<>>, WriteStringRecord(c, str, 0)) = <<WriteStringRecord(c, str, 0)>> /\ Text(when, str) = str
      BY <1>2 DEF One, Text, Empty
    <2>2. Reads(r, <<WriteStringRecord(c, str, 0)>>, Set(r, f, str))
      BY TextSet
    <2> QED
      BY <2>1, <2>2
  <1> QED
    BY <1>1, <1>2

LEMMA SectionReads ==
    ASSUME NEW r, In(r, 8), NEW c, NEW f, <<c, f>> \in {<<5, "sections">>, <<11, "gcs">>}, NEW str \in Texts
    PROVE  Reads(r, <<WriteStringRecord(c, str, 0)>>, Set(r, f, Append(r[f], str)))
  <1> DEFINE x == WriteStringRecord(c, str, 0)
  <1>f. f \in Apart /\ f \in Fields /\ IsReader(r)
    BY ApartAre, FieldsAre DEF In
  <1>1. x.item = "record" /\ x.code = c /\ ToBytes(x.vals) = str
    BY TextRecord
  <1> HIDE DEF x
  <1>2. ASSUME NEW u, Like(u, r) PROVE Took(u, x) = Add(u, f, str)
    <2>1. Took(u, x) = ReadModule(u, x)
      BY <1>2, InModule
    <2>2. ReadModule(u, x) = Add(u, f, ToBytes(x.vals))
      BY <1>1 DEF ReadModule, ModuleCodes
    <2> QED
      BY <1>1, <2>1, <2>2
  <1> QED
    BY <1>1, <1>2, <1>f, ReadsAppends DEF x

Tables(q, a, b) == Set(Set(q, "sections", a), "gcs", b)

LEMMA TablesAre ==
    ASSUME NEW q, In(q, 8), NEW a, NEW b
    PROVE  /\ In(Tables(q, a, b), 8) /\ IsReader(Tables(q, a, b))
           /\ Tables(q, a, b).sections = a /\ Tables(q, a, b).gcs = b
           /\ \A f \in Fields : f \notin {"sections", "gcs"} => Tables(q, a, b)[f] = q[f]
           /\ \A c : Set(Tables(q, a, b), "sections", c) = Tables(q, c, b)
           /\ \A c : Set(Tables(q, a, b), "gcs", c) = Tables(q, a, c)
  <1>f. "sections" \in Fields /\ "gcs" \in Fields /\ "sections" \in Apart /\ "gcs" \in Apart /\ IsReader(q)
        /\ "sections" # "open" /\ "gcs" # "open" /\ "sections" # "gcs"
    BY ApartAre, FieldsAre DEF In
  <1>1. PICK p : p = Set(q, "sections", a)
    OBVIOUS
  <1>2. PICK t : t = Set(p, "gcs", b)
    OBVIOUS
  <1>3. In(p, 8) /\ IsReader(p) /\ p.sections = a /\ \A f \in Fields : f # "sections" => p[f] = q[f]
    BY <1>1, <1>f, InSet, SetFields
  <1>4. In(t, 8) /\ IsReader(t) /\ t.gcs = b /\ \A f \in Fields : f # "gcs" => t[f] = p[f]
    BY <1>2, <1>3, <1>f, InSet, SetFields
  <1>5. t = Tables(q, a, b)
    BY <1>1, <1>2 DEF Tables
  <1>6. \A c : Set(t, "gcs", c) = Tables(q, a, c)
    BY <1>1, <1>2, SetSet DEF Tables
  <1>7. ASSUME NEW c PROVE Set(t, "sections", c) = Tables(q, c, b)
    <2>1. Set(t, "sections", c) = Set(Set(p, "sections", c), "gcs", b)
      BY <1>2, <1>f, SetApart
    <2>2. Set(p, "sections", c) = Set(q, "sections", c)
      BY <1>1, SetSet
    <2> QED
      BY <2>1, <2>2 DEF Tables
  <1> QED
    BY <1>3, <1>4, <1>5, <1>6, <1>7, <1>f

LEMMA ReadsNames ==
    ASSUME NEW mod, IsModule(mod), NEW q, In(q, 8), q.sections = Empty, q.gcs = Empty
    PROVE  Reads(q, Map(NameRecord, Names(mod)),
                 Tables(q, Seconds(OfCode(Names(mod), 5)), Seconds(OfCode(Names(mod), 11))))
  <1>0. PICK names : names = Names(mod)
    OBVIOUS
  <1> DEFINE items == Map(NameRecord, names)
             n == Len(names)
  <1>1. Named(names, Uses(mod), Len(Uses(mod))) /\ Used(mod, Uses(mod))
    BY <1>0, NamesAre, ModuleUses
  <1>2. IsSeq(names) /\ n \in Nat /\ DOMAIN names = 1..n
    <2>1. IsSeq(names)
      BY <1>1 DEF Named
    <2> QED
      BY <2>1, SeqShape
  <1>3. ASSUME NEW k \in 1..n PROVE IsUse(names[k])
    BY <1>1 DEF Named, Used
  <1>4. IsSeq(items) /\ Len(items) = n /\ \A k \in 1..n : items[k] = NameRecord(names[k])
    <2>1. DOMAIN items = DOMAIN names /\ items = [k \in DOMAIN items |-> items[k]]
      BY DEF Map
    <2>2. \A k \in 1..n : items[k] = NameRecord(names[k])
      BY <1>2 DEF Map
    <2> HIDE DEF items
    <2> QED
      BY <1>2, <2>1, <2>2, MapShape
  <1> HIDE DEF items, n
  <1>5. PICK P : KeptUpTo(P, names, CodeAt(names, 5), n) /\ OfCode(names, 5) = P[n]
    BY <1>2, OfCodeKept DEF n
  <1>6. PICK Q : KeptUpTo(Q, names, CodeAt(names, 11), n) /\ OfCode(names, 11) = Q[n]
    BY <1>2, OfCodeKept DEF n
  <1> DEFINE G == [k \in 0..n |-> Tables(q, Seconds(P[k]), Seconds(Q[k]))]
  <1>7. ASSUME NEW k \in 1..n PROVE Reads(G[k - 1], <<items[k]>>, G[k])
    <2>0. k - 1 \in 0..n /\ k \in 0..n
      BY <1>2
    <2>1. PICK x : x = names[k]
      OBVIOUS
    <2>2. PICK a : a = P[k - 1]
      OBVIOUS
    <2>3. PICK b : b = Q[k - 1]
      OBVIOUS
    <2>4. G[k - 1] = Tables(q, Seconds(a), Seconds(b)) /\ G[k] = Tables(q, Seconds(P[k]), Seconds(Q[k]))
      BY <2>0, <2>2, <2>3
    <2>5. IsSeq(a) /\ IsSeq(b)
      BY <1>5, <1>6, <2>0, <2>2, <2>3 DEF KeptUpTo
    <2>6. PICK r : r = Tables(q, Seconds(a), Seconds(b))
      OBVIOUS
    <2>7. In(r, 8) /\ r.sections = Seconds(a) /\ r.gcs = Seconds(b)
      BY <2>6, TablesAre
    <2>8. x[1] \in {5, 11} /\ x[2] \in Texts /\ items[k] = WriteStringRecord(x[1], x[2], 0)
      <3>1. IsUse(x)
        BY <1>3, <2>1
      <3> QED
        BY <1>4, <2>1, <3>1 DEF IsUse, NameRecord
    <2> HIDE DEF G
    <2>9. CASE x[1] = 5
      <3>1. k \in CodeAt(names, 5) /\ k \notin CodeAt(names, 11)
        BY <2>1, <2>9 DEF CodeAt, n
      <3>2. P[k] = Append(a, x) /\ Q[k] = b
        BY <1>5, <1>6, <2>1, <2>2, <2>3, <3>1 DEF KeptUpTo
      <3>3. Seconds(P[k]) = Append(Seconds(a), x[2])
        BY <2>5, <3>2, SecondsAppend
      <3>4. Reads(r, <<items[k]>>, Set(r, "sections", Append(r.sections, x[2])))
        BY <2>7, <2>8, <2>9, SectionReads
      <3>5. Set(r, "sections", Append(r.sections, x[2])) = Tables(q, Seconds(P[k]), Seconds(b))
        BY <2>6, <2>7, <3>3, TablesAre
      <3> QED
        BY <2>4, <2>6, <3>2, <3>4, <3>5
    <2>10. CASE x[1] = 11
      <3>1. k \in CodeAt(names, 11) /\ k \notin CodeAt(names, 5)
        BY <2>1, <2>10 DEF CodeAt, n
      <3>2. Q[k] = Append(b, x) /\ P[k] = a
        BY <1>5, <1>6, <2>1, <2>2, <2>3, <3>1 DEF KeptUpTo
      <3>3. Seconds(Q[k]) = Append(Seconds(b), x[2])
        BY <2>5, <3>2, SecondsAppend
      <3>4. Reads(r, <<items[k]>>, Set(r, "gcs", Append(r.gcs, x[2])))
        BY <2>7, <2>8, <2>10, SectionReads
      <3>5. Set(r, "gcs", Append(r.gcs, x[2])) = Tables(q, Seconds(a), Seconds(Q[k]))
        BY <2>6, <2>7, <3>3, TablesAre
      <3> QED
        BY <2>4, <2>6, <3>2, <3>4, <3>5
    <2> QED
      BY <2>8, <2>9, <2>10
  <1>8. G[0] = q /\ G[n] = Tables(q, Seconds(OfCode(names, 5)), Seconds(OfCode(names, 11)))
    <2>1. P[0] = Empty /\ Q[0] = Empty
      BY <1>5, <1>6 DEF KeptUpTo
    <2>2. Seconds(Empty) = Empty
      <3>1. IsSeq(Seconds(Empty)) /\ Len(Seconds(Empty)) = 0
        BY NoneSeq, SecondsShape
      <3> QED
        BY <3>1, NoneSeq, SameSeq
    <2>3. G[0] = Tables(q, Empty, Empty)
      BY <1>2, <2>1, <2>2
    <2>4. Set(q, "sections", q.sections) = q /\ Set(q, "gcs", q.gcs) = q
      <3>1. IsReader(q) /\ "sections" \in Fields /\ "gcs" \in Fields
        BY FieldsAre DEF In
      <3> QED
        BY <3>1, SetFields
    <2>5. Tables(q, Empty, Empty) = q
      BY <2>4 DEF Tables
    <2> QED
      BY <1>2, <1>5, <1>6, <2>3, <2>5
  <1> HIDE DEF G
  <1>9. Reads(G[0], items, G[n])
    BY <1>4, <1>7, ReadsEach
  <1> QED
    BY <1>0, <1>8, <1>9 DEF items

------------------------------------------------------------------------------
(* Globals, functions and aliases.                                         *)

LEMMA LinkageReads ==
    ASSUME NEW mod, NEW l \in DOMAIN getEncodedLinkage(mod)
    PROVE  Meaning(Linkages, getEncodedLinkage(mod)[l]) = l
  <1>1. CASE mod.llvm = 34
    <2>1. getEncodedLinkage(mod) = getEncodedLinkage34
      BY <1>1 DEF getEncodedLinkage
    <2> QED
      BY <2>1 DEF getEncodedLinkage34, Meaning, At, Linkages
  <1>2. CASE mod.llvm # 34
    <2>1. getEncodedLinkage(mod) = getEncodedLinkage35
      BY <1>2 DEF getEncodedLinkage
    <2> QED
      BY <2>1 DEF getEncodedLinkage35, Meaning, At, Linkages
  <1> QED
    BY <1>1, <1>2

LEMMA VisibilityReads ==
    /\ \A l \in DOMAIN getEncodedVisibility : Meaning(Visibilities, getEncodedVisibility[l]) = l
    /\ Meaning(Visibilities, 0) = "Default"
  BY DEF getEncodedVisibility, Meaning, At, Visibilities

LEMMA ThreadLocalReads ==
    /\ \A l \in DOMAIN getEncodedThreadLocalMode : Meaning(TLSModels, getEncodedThreadLocalMode[l]) = l
    /\ Meaning(TLSModels, 0) = "NotThreadLocal"
  BY DEF getEncodedThreadLocalMode, Meaning, At, TLSModels

LEMMA SixSeq ==
    ASSUME NEW a, NEW b, NEW c, NEW d, NEW e, NEW f, NEW s, s = <<a, b, c, d, e, f>>
    PROVE  /\ IsSeq(s) /\ Len(s) = 6
           /\ s[1] = a /\ s[2] = b /\ s[3] = c /\ s[4] = d /\ s[5] = e /\ s[6] = f
  BY DEF IsSeq

LEMMA ThreeSeq ==
    ASSUME NEW a, NEW b, NEW c, NEW s, s = <<a, b, c>>
    PROVE  IsSeq(s) /\ Len(s) = 3 /\ s[1] = a /\ s[2] = b /\ s[3] = c
  BY DEF IsSeq

\* What the reader makes of the numbers of a global, a function and an alias.
GlobalOf(sections, v) ==
  [ty |-> v[1], isconst |-> v[2], init |-> v[3] - 1, linkage |-> Meaning(Linkages, v[4]),
   align |-> Alignment(v[5]), section |-> NameOf(sections, v[6]),
   visibility |-> Meaning(Visibilities, At(v, 7, 0)),
   threadlocal |-> Meaning(TLSModels, At(v, 8, 0)), unnamed |-> At(v, 9, 0)]
FunctionOf(sections, gcs, v) ==
  [ty |-> v[1], cc |-> v[2], isproto |-> v[3], linkage |-> Meaning(Linkages, v[4]),
   attrs |-> v[5], align |-> Alignment(v[6]), section |-> NameOf(sections, v[7]),
   visibility |-> Meaning(Visibilities, v[8]), gc |-> NameOf(gcs, v[9]), unnamed |-> v[10]]
AliasOf(v) ==
  [ty |-> v[1], aliasee |-> v[2], linkage |-> Meaning(Linkages, v[3]),
   visibility |-> Meaning(Visibilities, v[4])]
\* The names as the reader has them.
HasNames(mod, sections, gcs) ==
  /\ \A k \in 1..Len(mod.globals) :
       NameOf(sections, Number(mod, 5, mod.globals[k].section)) = mod.globals[k].section
  /\ \A k \in 1..Len(mod.functions) :
       /\ NameOf(sections, Number(mod, 5, mod.functions[k].section)) = mod.functions[k].section
       /\ NameOf(gcs, Number(mod, 11, mod.functions[k].gc)) = mod.functions[k].gc

LEMMA NamesRead ==
    ASSUME NEW mod, IsModule(mod)
    PROVE  HasNames(mod, Seconds(OfCode(Names(mod), 5)), Seconds(OfCode(Names(mod), 11)))
  <1>1. Used(mod, Uses(mod))
    BY ModuleUses
  <1>2. ASSUME NEW k \in 1..Len(mod.globals)
        PROVE  NameOf(Seconds(OfCode(Names(mod), 5)), Number(mod, 5, mod.globals[k].section)) = mod.globals[k].section
    <2>1. \E j \in 1..Len(Uses(mod)) : Uses(mod)[j] = <<5, mod.globals[k].section>>
      BY <1>1 DEF Used, GlobalUse
    <2> QED
      BY <2>1, NumberReads
  <1>3. ASSUME NEW k \in 1..Len(mod.functions)
        PROVE  NameOf(Seconds(OfCode(Names(mod), 5)), Number(mod, 5, mod.functions[k].section)) = mod.functions[k].section
    <2>1. \E j \in 1..Len(Uses(mod)) : Uses(mod)[j] = <<5, mod.functions[k].section>>
      BY <1>1 DEF Used, SectionUse
    <2> QED
      BY <2>1, NumberReads
  <1>4. ASSUME NEW k \in 1..Len(mod.functions)
        PROVE  NameOf(Seconds(OfCode(Names(mod), 11)), Number(mod, 11, mod.functions[k].gc)) = mod.functions[k].gc
    <2>1. \E j \in 1..Len(Uses(mod)) : Uses(mod)[j] = <<11, mod.functions[k].gc>>
      BY <1>1 DEF Used, GCUse
    <2> QED
      BY <2>1, NumberReads
  <1> QED
    BY <1>2, <1>3, <1>4 DEF HasNames

LEMMA GlobalReads ==
    ASSUME NEW mod, IsModule(mod), NEW g \in GlobalVars(mod), NEW sections,
           NameOf(sections, Number(mod, 5, g.section)) = g.section,
           NEW v, v = WriteGlobalVar(mod, g).vals
    PROVE  GlobalOf(sections, v) = g
  <1> DEFINE l == getEncodedLinkage(mod)[g.linkage]
             a == Log2_32(g.align) + 1
             s == Number(mod, 5, g.section)
             vis == getEncodedVisibility[g.visibility]
             tls == getEncodedThreadLocalMode[g.threadlocal]
  <1>1. PICK six : six = <<g.ty, g.isconst, g.init + 1, l, a, s>>
    OBVIOUS
  <1>2. PICK three : three = <<vis, tls, g.unnamed>>
    OBVIOUS
  <1>3. v = six \o (IF Simple(g) THEN Empty ELSE three)
    <2> DEFINE x == <<g.ty, g.isconst, g.init + 1, l, a, s>>
                      \o (IF Simple(g) THEN <<>> ELSE <<vis, tls, g.unnamed>>)
               ab == IF Simple(g) THEN NthAbbrev(0, 1) ELSE 0
    <2>1. WriteGlobalVar(mod, g) = Record(7, x, ab)
      <3>1. ModuleCodes.SECTIONNAME = 5 /\ ModuleCodes.GLOBALVAR = 7
        BY DEF ModuleCodes
      <3> QED
        BY <3>1 DEF WriteGlobalVar
    <2>2. v = x
      <3> HIDE DEF x, ab
      <3> QED
        BY <2>1, RecordFields
    <2>3. (IF Simple(g) THEN <<>> ELSE <<vis, tls, g.unnamed>>) = IF Simple(g) THEN Empty ELSE three
      BY <1>2 DEF Empty
    <2> HIDE DEF l, a, s, vis, tls
    <2> QED
      BY <1>1, <2>2, <2>3
  <1>4. /\ g = [ty |-> g.ty, isconst |-> g.isconst, init |-> g.init, linkage |-> g.linkage,
                align |-> g.align, section |-> g.section, visibility |-> g.visibility,
                threadlocal |-> g.threadlocal, unnamed |-> g.unnamed]
        /\ g.init \in Int /\ g.linkage \in DOMAIN getEncodedLinkage(mod) /\ g.align \in Alignments
        /\ g.visibility \in DOMAIN getEncodedVisibility /\ g.threadlocal \in DOMAIN getEncodedThreadLocalMode
    BY DEF GlobalVars, NoInit
  <1>5. /\ Meaning(Linkages, l) = g.linkage /\ Alignment(a) = g.align
        /\ Meaning(Visibilities, vis) = g.visibility /\ Meaning(TLSModels, tls) = g.threadlocal
        /\ (g.init + 1) - 1 = g.init
    BY <1>4, LinkageReads, AlignmentReads, VisibilityReads, ThreadLocalReads
  <1> HIDE DEF l, a, s, vis, tls
  <1>6. /\ IsSeq(six) /\ Len(six) = 6
        /\ six[1] = g.ty /\ six[2] = g.isconst /\ six[3] = g.init + 1 /\ six[4] = l /\ six[5] = a /\ six[6] = s
    BY <1>1, SixSeq
  <1>7. IsSeq(three) /\ Len(three) = 3 /\ three[1] = vis /\ three[2] = tls /\ three[3] = g.unnamed
    BY <1>2, ThreeSeq
  <1>8. v[1] = g.ty /\ v[2] = g.isconst /\ v[3] = g.init + 1 /\ v[4] = l /\ v[5] = a /\ v[6] = s
        /\ Meaning(Visibilities, At(v, 7, 0)) = g.visibility
        /\ Meaning(TLSModels, At(v, 8, 0)) = g.threadlocal /\ At(v, 9, 0) = g.unnamed
    <2>1. CASE Simple(g)
      <3>1. v = six
        BY <1>3, <1>6, <2>1, NoneJoined
      <3>2. At(v, 7, 0) = 0 /\ At(v, 8, 0) = 0 /\ At(v, 9, 0) = 0
        <4>1. Len(v) = 6
          BY <1>6, <3>1
        <4> QED
          BY <4>1 DEF At
      <3>3. g.threadlocal = "NotThreadLocal" /\ g.visibility = "Default" /\ g.unnamed = 0
        BY <2>1 DEF Simple
      <3> QED
        BY <1>6, <3>1, <3>2, <3>3, VisibilityReads, ThreadLocalReads
    <2>2. CASE ~Simple(g)
      <3>1. v = six \o three
        BY <1>3, <2>2
      <3>9. IsSeq(six) /\ IsSeq(three)
        BY <1>6, <1>7
      <3>2. IsSeq(six \o three) /\ Len(six \o three) = Len(six) + Len(three)
        BY <3>9, JoinShape
      <3>3. \A k \in 1..Len(six) : (six \o three)[k] = six[k]
        BY <3>9, JoinShape
      <3>4. \A k \in 1..Len(three) : (six \o three)[Len(six) + k] = three[k]
        BY <3>9, JoinShape
      <3>5. Len(v) = 9 /\ (\A k \in 1..6 : v[k] = six[k]) /\ \A k \in 1..3 : v[6 + k] = three[k]
        BY <1>6, <1>7, <3>1, <3>2, <3>3, <3>4
      <3>6. v[1] = g.ty /\ v[2] = g.isconst /\ v[3] = g.init + 1 /\ v[4] = l /\ v[5] = a /\ v[6] = s
        BY <1>6, <3>5
      <3>7. v[7] = vis /\ v[8] = tls /\ v[9] = g.unnamed
        BY <1>7, <3>5
      <3>8. At(v, 7, 0) = vis /\ At(v, 8, 0) = tls /\ At(v, 9, 0) = g.unnamed
        BY <3>5, <3>7 DEF At
      <3> QED
        BY <1>5, <3>6, <3>8
    <2> QED
      BY <2>1, <2>2
  <1>9. NameOf(sections, v[6]) = g.section
    BY <1>8 DEF s
  <1> QED
    BY <1>4, <1>5, <1>8, <1>9 DEF GlobalOf

LEMMA FunctionReads ==
    ASSUME NEW mod, IsModule(mod), NEW f \in Functions(mod), NEW sections, NEW gcs,
           NameOf(sections, Number(mod, 5, f.section)) = f.section,
           NameOf(gcs, Number(mod, 11, f.gc)) = f.gc,
           NEW v, v = WriteFunctionProto(mod, f).vals
    PROVE  FunctionOf(sections, gcs, v) = f
  <1> DEFINE l == getEncodedLinkage(mod)[f.linkage]
             a == Log2_32(f.align) + 1
             s == Number(mod, 5, f.section)
             c == Number(mod, 11, f.gc)
             vis == getEncodedVisibility[f.visibility]
  <1>1. v = <<f.ty, f.cc, f.isproto, l, f.attrs, a, s, vis, c, f.unnamed>>
    BY RecordFields DEF WriteFunctionProto, ModuleCodes
  <1>2. /\ f = [ty |-> f.ty, cc |-> f.cc, isproto |-> f.isproto, linkage |-> f.linkage, attrs |-> f.attrs,
                align |-> f.align, section |-> f.section, visibility |-> f.visibility,
                gc |-> f.gc, unnamed |-> f.unnamed]
        /\ f.linkage \in DOMAIN getEncodedLinkage(mod) /\ f.align \in Alignments
        /\ f.visibility \in DOMAIN getEncodedVisibility
    BY DEF Functions
  <1>3. /\ Meaning(Linkages, l) = f.linkage /\ Alignment(a) = f.align
        /\ Meaning(Visibilities, vis) = f.visibility
    BY <1>2, LinkageReads, AlignmentReads, VisibilityReads
  <1> HIDE DEF l, a, s, c, vis
  <1>4. /\ v[1] = f.ty /\ v[2] = f.cc /\ v[3] = f.isproto /\ v[4] = l /\ v[5] = f.attrs /\ v[6] = a
        /\ v[7] = s /\ v[8] = vis /\ v[9] = c /\ v[10] = f.unnamed
    BY <1>1
  <1>5. NameOf(sections, v[7]) = f.section /\ NameOf(gcs, v[9]) = f.gc
    BY <1>4 DEF s, c
  <1> QED
    BY <1>2, <1>3, <1>4, <1>5 DEF FunctionOf

LEMMA AliasReads ==
    ASSUME NEW mod, NEW a \in Aliases(mod), NEW v, v = WriteAlias(mod, a).vals
    PROVE  AliasOf(v) = a
  <1> DEFINE l == getEncodedLinkage(mod)[a.linkage]
             vis == getEncodedVisibility[a.visibility]
  <1>1. v = <<a.ty, a.aliasee, l, vis>>
    BY RecordFields DEF WriteAlias, ModuleCodes
  <1>2. /\ a = [ty |-> a.ty, aliasee |-> a.aliasee, linkage |-> a.linkage, visibility |-> a.visibility]
        /\ a.linkage \in DOMAIN getEncodedLinkage(mod) /\ a.visibility \in DOMAIN getEncodedVisibility
    BY DEF Aliases
  <1>3. Meaning(Linkages, l) = a.linkage /\ Meaning(Visibilities, vis) = a.visibility
    BY <1>2, LinkageReads, VisibilityReads
  <1> HIDE DEF l, vis
  <1>4. v[1] = a.ty /\ v[2] = a.aliasee /\ v[3] = l /\ v[4] = vis
    BY <1>1
  <1> QED
    BY <1>2, <1>3, <1>4 DEF AliasOf

\* A record that adds an element to a field and another to a second one.
AppendsTwo(p, f, g, x, e, t) ==
  /\ x.item = "record"
  /\ \A u : (\E n, c : Like(u, Set(Set(p, g, c), f, n))) => Took(u, x) = Add(Add(u, g, t), f, e)

LEMMA AppendsTwoAdds ==
    ASSUME NEW p, IsReader(p), NEW f \in Apart, NEW g \in Apart, f # g, NEW items, NEW es, NEW ts,
           \A k \in 1..Len(es) : AppendsTwo(p, f, g, items[k], es[k], ts[k])
    PROVE  AddsTwo(p, f, g, items, es, ts)
  <1> SUFFICES ASSUME NEW k \in 1..Len(es), NEW n, NEW t
               PROVE  Reads(Set(Set(p, g, t), f, n), <<items[k]>>,
                            Set(Set(p, g, Append(t, ts[k])), f, Append(n, es[k])))
    BY DEF AddsTwo
  <1>1. PICK x : x = items[k]
    OBVIOUS
  <1>2. PICK e : e = es[k]
    OBVIOUS
  <1>3. PICK d : d = ts[k]
    OBVIOUS
  <1>4. PICK a : a = Set(p, g, t)
    OBVIOUS
  <1>5. PICK r : r = Set(a, f, n)
    OBVIOUS
  <1>f. f \in Fields /\ g \in Fields
    BY DEF Apart
  <1>6. IsReader(a) /\ a[g] = t
    BY <1>4, <1>f, SetFields
  <1>7. IsReader(r) /\ r[f] = n /\ r[g] = t
    BY <1>5, <1>6, <1>f, SetFields
  <1>8. AppendsTwo(p, f, g, x, e, d)
    BY <1>1, <1>2, <1>3
  <1>9. PICK v : v = Append(n, e)
    OBVIOUS
  <1>10. PICK w : w = Append(t, d)
    OBVIOUS
  <1>11. ASSUME NEW u, Like(u, r) PROVE Took(u, x) = Set(Set(u, g, w), f, v)
    <2>1. Took(u, x) = Add(Add(u, g, d), f, e)
      BY <1>4, <1>5, <1>8, <1>11 DEF AppendsTwo
    <2>2. IsReader(u) /\ u[f] = n /\ u[g] = t
      BY <1>7, <1>11 DEF Like, Apart
    <2>3. Add(u, g, d) = Set(u, g, w)
      BY <1>10, <1>f, <2>2, AddIs
    <2>4. PICK y : y = Set(u, g, w)
      OBVIOUS
    <2>5. IsReader(y) /\ y[f] = n
      BY <1>f, <2>2, <2>4, SetFields
    <2>6. Add(y, f, e) = Set(y, f, v)
      BY <1>9, <1>f, <2>5, AddIs
    <2> QED
      BY <2>1, <2>3, <2>4, <2>6
  <1>12. Reads(r, <<x>>, Set(Set(r, g, w), f, v))
    <2>1. x.item = "record"
      BY <1>8 DEF AppendsTwo
    <2> QED
      BY <1>7, <1>11, <2>1, ReadsSetsTwo
  <1>13. Set(Set(r, g, w), f, v) = Set(Set(p, g, w), f, v)
    <2>1. Set(r, g, w) = Set(Set(a, g, w), f, n)
      BY <1>5, SetApart
    <2>2. Set(a, g, w) = Set(p, g, w)
      BY <1>4, SetSet
    <2> QED
      BY <2>1, <2>2, SetSet
  <1> QED
    BY <1>1, <1>2, <1>3, <1>4, <1>5, <1>9, <1>10, <1>12, <1>13

TyOf(v) == v.ty
Tys(list) == Map(TyOf, list)

LEMMA TysShape ==
    ASSUME NEW s, IsSeq(s)
    PROVE  IsSeq(Tys(s)) /\ Len(Tys(s)) = Len(s) /\ \A k \in 1..Len(s) : Tys(s)[k] = s[k].ty
  <1> DEFINE t == Tys(s)
  <1>1. DOMAIN t = DOMAIN s /\ t = [k \in DOMAIN t |-> t[k]]
    BY DEF Tys, Map
  <1>2. \A k \in DOMAIN s : t[k] = s[k].ty
    BY DEF Tys, Map, TyOf
  <1> HIDE DEF t
  <1>3. IsSeq(t) /\ Len(t) = Len(s) /\ DOMAIN s = 1..Len(s)
    BY <1>1, MapShape
  <1> QED
    BY <1>2, <1>3 DEF t

\* The values of a kind, each with its type.
LEMMA ReadsValues ==
    ASSUME NEW q, IsReader(q), NEW f \in Apart, f # "tys", IsSeq(q[f]), IsSeq(q.tys), NEW items, IsSeq(items),
           NEW es, IsSeq(es), Len(items) = Len(es),
           \A k \in 1..Len(es) : AppendsTwo(q, f, "tys", items[k], es[k], es[k].ty)
    PROVE  Reads(q, items, Set(Set(q, "tys", q.tys \o Tys(es)), f, q[f] \o es))
  <1>1. PICK ts : ts = Tys(es)
    OBVIOUS
  <1>2. IsSeq(ts) /\ Len(ts) = Len(es) /\ \A k \in 1..Len(es) : ts[k] = es[k].ty
    BY <1>1, TysShape
  <1>3. "tys" \in Apart /\ "tys" \in Fields /\ f \in Fields
    BY ApartAre, FieldsAre
  <1>4. \A k \in 1..Len(es) : AppendsTwo(q, f, "tys", items[k], es[k], ts[k])
    BY <1>2
  <1>5. AddsTwo(q, f, "tys", items, es, ts)
    BY <1>3, <1>4, AppendsTwoAdds
  <1>6. Reads(q, items, Set(Set(q, "tys", q["tys"] \o ts), f, q[f] \o es))
    BY <1>2, <1>3, <1>5, ReadsAddsTwo
  <1> QED
    BY <1>1, <1>6

LEMMA ReadsGlobal ==
    ASSUME NEW mod, IsModule(mod), NEW g \in GlobalVars(mod), NEW p, In(p, 8),
           NameOf(p.sections, Number(mod, 5, g.section)) = g.section
    PROVE  AppendsTwo(p, "globals", "tys", WriteGlobalVar(mod, g), g, g.ty)
  <1>1. PICK x : x = WriteGlobalVar(mod, g)
    OBVIOUS
  <1>2. x.item = "record" /\ x.code = 7
    BY <1>1, RecordFields DEF WriteGlobalVar, ModuleCodes
  <1>3. GlobalOf(p.sections, x.vals) = g
    BY <1>1, GlobalReads
  <1>4. ASSUME NEW u, NEW n, NEW c, Like(u, Set(Set(p, "tys", c), "globals", n))
        PROVE  Took(u, x) = Add(Add(u, "tys", g.ty), "globals", g)
    <2>1. PICK a : a = Set(p, "tys", c)
      OBVIOUS
    <2>2. PICK r : r = Set(a, "globals", n)
      OBVIOUS
    <2>f. "tys" \in Apart /\ "globals" \in Apart /\ "tys" \in Fields /\ "globals" \in Fields /\ "sections" \in Fields
          /\ "tys" # "open" /\ "globals" # "open" /\ "sections" # "tys" /\ "sections" # "globals" /\ IsReader(p)
      BY ApartAre, FieldsAre DEF In
    <2>3. In(a, 8) /\ IsReader(a) /\ a.sections = p.sections
      BY <2>1, <2>f, InSet, SetFields
    <2>4. In(r, 8) /\ r.sections = p.sections
      BY <2>2, <2>3, <2>f, InSet, SetFields
    <2>5. Took(u, x) = ReadModule(u, x) /\ u.sections = p.sections
      BY <1>4, <2>1, <2>2, <2>4, InModule, LikeFields
    <2>6. ReadModule(u, x) = Add(Add(u, "tys", GlobalOf(u.sections, x.vals).ty), "globals", GlobalOf(u.sections, x.vals))
      BY <1>2 DEF ReadModule, ModuleCodes, GlobalOf
    <2> QED
      BY <1>3, <2>5, <2>6
  <1> QED
    BY <1>1, <1>2, <1>4 DEF AppendsTwo

LEMMA ReadsFunction ==
    ASSUME NEW mod, IsModule(mod), NEW g \in Functions(mod), NEW p, In(p, 8),
           NameOf(p.sections, Number(mod, 5, g.section)) = g.section,
           NameOf(p.gcs, Number(mod, 11, g.gc)) = g.gc
    PROVE  AppendsTwo(p, "functions", "tys", WriteFunctionProto(mod, g), g, g.ty)
  <1>1. PICK x : x = WriteFunctionProto(mod, g)
    OBVIOUS
  <1>2. x.item = "record" /\ x.code = 8
    BY <1>1, RecordFields DEF WriteFunctionProto, ModuleCodes
  <1>3. FunctionOf(p.sections, p.gcs, x.vals) = g
    BY <1>1, FunctionReads
  <1>4. ASSUME NEW u, NEW n, NEW c, Like(u, Set(Set(p, "tys", c), "functions", n))
        PROVE  Took(u, x) = Add(Add(u, "tys", g.ty), "functions", g)
    <2>1. PICK a : a = Set(p, "tys", c)
      OBVIOUS
    <2>2. PICK r : r = Set(a, "functions", n)
      OBVIOUS
    <2>f. "tys" \in Apart /\ "functions" \in Apart /\ "tys" \in Fields /\ "functions" \in Fields
          /\ "sections" \in Fields /\ "gcs" \in Fields /\ IsReader(p)
      BY ApartAre, FieldsAre DEF In
    <2>3. In(a, 8) /\ IsReader(a) /\ a.sections = p.sections /\ a.gcs = p.gcs
      BY <2>1, <2>f, InSet, SetFields
    <2>4. In(r, 8) /\ r.sections = p.sections /\ r.gcs = p.gcs
      BY <2>2, <2>3, <2>f, InSet, SetFields
    <2>5. Took(u, x) = ReadModule(u, x) /\ u.sections = p.sections /\ u.gcs = p.gcs
      BY <1>4, <2>1, <2>2, <2>4, InModule, LikeFields
    <2>6. ReadModule(u, x) = Add(Add(u, "tys", FunctionOf(u.sections, u.gcs, x.vals).ty), "functions",
                                 FunctionOf(u.sections, u.gcs, x.vals))
      BY <1>2 DEF ReadModule, ModuleCodes, FunctionOf
    <2> QED
      BY <1>3, <2>5, <2>6
  <1> QED
    BY <1>1, <1>2, <1>4 DEF AppendsTwo

LEMMA ReadsAlias ==
    ASSUME NEW mod, NEW g \in Aliases(mod), NEW p, In(p, 8)
    PROVE  AppendsTwo(p, "aliases", "tys", WriteAlias(mod, g), g, g.ty)
  <1>1. PICK x : x = WriteAlias(mod, g)
    OBVIOUS
  <1>2. x.item = "record" /\ x.code = 9
    BY <1>1, RecordFields DEF WriteAlias, ModuleCodes
  <1>3. AliasOf(x.vals) = g
    BY <1>1, AliasReads
  <1>4. ASSUME NEW u, NEW n, NEW c, Like(u, Set(Set(p, "tys", c), "aliases", n))
        PROVE  Took(u, x) = Add(Add(u, "tys", g.ty), "aliases", g)
    <2>1. PICK a : a = Set(p, "tys", c)
      OBVIOUS
    <2>2. PICK r : r = Set(a, "aliases", n)
      OBVIOUS
    <2>f. "tys" \in Apart /\ "aliases" \in Apart
      BY ApartAre
    <2>3. In(a, 8)
      BY <2>1, <2>f, InSet
    <2>4. In(r, 8)
      BY <2>2, <2>3, <2>f, InSet
    <2>5. Took(u, x) = ReadModule(u, x)
      BY <1>4, <2>1, <2>2, <2>4, InModule
    <2>6. ReadModule(u, x) = Add(Add(u, "tys", AliasOf(x.vals).ty), "aliases", AliasOf(x.vals))
      BY <1>2 DEF ReadModule, ModuleCodes, AliasOf
    <2> QED
      BY <1>3, <2>5, <2>6
  <1> QED
    BY <1>1, <1>2, <1>4 DEF AppendsTwo

LEMMA DataLayoutIs ==
    ASSUME NEW mod, IsModule(mod)
    PROVE  DataLayoutOf(mod) \in Texts
  <1>1. mod.layout \in Texts
    BY DEF IsModule
  <1>2. SPIR64_DATALAYOUT \in Texts /\ SPIR32_DATALAYOUT \in Texts
    BY DEF SPIR64_DATALAYOUT, SPIR32_DATALAYOUT, Texts
  <1> QED
    BY <1>1, <1>2 DEF DataLayoutOf

GlobalItems(mod) == Map(LAMBDA g : WriteGlobalVar(mod, g), mod.globals)
FunctionItems(mod) == Map(LAMBDA f : WriteFunctionProto(mod, f), mod.functions)
AliasItems(mod) == Map(LAMBDA a : WriteAlias(mod, a), mod.aliases)

LEMMA GlobalItemsAre ==
    ASSUME NEW mod, IsModule(mod)
    PROVE  /\ IsSeq(GlobalItems(mod)) /\ Len(GlobalItems(mod)) = Len(mod.globals)
           /\ \A k \in 1..Len(mod.globals) : GlobalItems(mod)[k] = WriteGlobalVar(mod, mod.globals[k])
  <1> DEFINE t == GlobalItems(mod)
             s == mod.globals
  <1>1. IsSeq(s) /\ DOMAIN s = 1..Len(s)
    BY ModuleLists
  <1>2. DOMAIN t = DOMAIN s /\ t = [k \in DOMAIN t |-> t[k]]
    BY DEF GlobalItems, Map
  <1>3. \A k \in 1..Len(s) : t[k] = WriteGlobalVar(mod, s[k])
    BY <1>1 DEF GlobalItems, Map
  <1> HIDE DEF t, s
  <1>4. IsSeq(t) /\ Len(t) = Len(s)
    BY <1>1, <1>2, MapShape
  <1> QED
    BY <1>3, <1>4 DEF t, s

LEMMA FunctionItemsAre ==
    ASSUME NEW mod, IsModule(mod)
    PROVE  /\ IsSeq(FunctionItems(mod)) /\ Len(FunctionItems(mod)) = Len(mod.functions)
           /\ \A k \in 1..Len(mod.functions) : FunctionItems(mod)[k] = WriteFunctionProto(mod, mod.functions[k])
  <1> DEFINE t == FunctionItems(mod)
             s == mod.functions
  <1>1. IsSeq(s) /\ DOMAIN s = 1..Len(s)
    BY ModuleLists
  <1>2. DOMAIN t = DOMAIN s /\ t = [k \in DOMAIN t |-> t[k]]
    BY DEF FunctionItems, Map
  <1>3. \A k \in 1..Len(s) : t[k] = WriteFunctionProto(mod, s[k])
    BY <1>1 DEF FunctionItems, Map
  <1> HIDE DEF t, s
  <1>4. IsSeq(t) /\ Len(t) = Len(s)
    BY <1>1, <1>2, MapShape
  <1> QED
    BY <1>3, <1>4 DEF t, s

LEMMA AliasItemsAre ==
    ASSUME NEW mod, IsModule(mod)
    PROVE  /\ IsSeq(AliasItems(mod)) /\ Len(AliasItems(mod)) = Len(mod.aliases)
           /\ \A k \in 1..Len(mod.aliases) : AliasItems(mod)[k] = WriteAlias(mod, mod.aliases[k])
  <1> DEFINE t == AliasItems(mod)
             s == mod.aliases
  <1>1. IsSeq(s) /\ DOMAIN s = 1..Len(s)
    BY ModuleLists
  <1>2. DOMAIN t = DOMAIN s /\ t = [k \in DOMAIN t |-> t[k]]
    BY DEF AliasItems, Map
  <1>3. \A k \in 1..Len(s) : t[k] = WriteAlias(mod, s[k])
    BY <1>1 DEF AliasItems, Map
  <1> HIDE DEF t, s
  <1>4. IsSeq(t) /\ Len(t) = Len(s)
    BY <1>1, <1>2, MapShape
  <1> QED
    BY <1>3, <1>4 DEF t, s

\* The reader with more values of a kind.
Valued2(q, f, es) == Set(Set(q, "tys", q.tys \o Tys(es)), f, q[f] \o es)

LEMMA ReadsGlobals ==
    ASSUME NEW mod, IsModule(mod), NEW q, In(q, 8), IsSeq(q.globals), IsSeq(q.tys),
           HasNames(mod, q.sections, q.gcs)
    PROVE  Reads(q, GlobalItems(mod), Valued2(q, "globals", mod.globals))
  <1>1. IsSeq(mod.globals) /\ \A k \in 1..Len(mod.globals) : mod.globals[k] \in GlobalVars(mod)
    BY ModuleLists
  <1>2. ASSUME NEW k \in 1..Len(mod.globals)
        PROVE  AppendsTwo(q, "globals", "tys", GlobalItems(mod)[k], mod.globals[k], mod.globals[k].ty)
    <2>1. NameOf(q.sections, Number(mod, 5, mod.globals[k].section)) = mod.globals[k].section
      BY DEF HasNames
    <2>2. AppendsTwo(q, "globals", "tys", WriteGlobalVar(mod, mod.globals[k]), mod.globals[k], mod.globals[k].ty)
      BY <1>1, <2>1, ReadsGlobal
    <2>3. GlobalItems(mod)[k] = WriteGlobalVar(mod, mod.globals[k])
      BY GlobalItemsAre
    <2> QED
      BY <2>2, <2>3
  <1>3. "globals" \in Apart /\ IsReader(q) /\ IsSeq(q["globals"])
    BY ApartAre DEF In
  <1>4. IsSeq(GlobalItems(mod)) /\ Len(GlobalItems(mod)) = Len(mod.globals)
    BY GlobalItemsAre
  <1>5. PICK items : items = GlobalItems(mod)
    OBVIOUS
  <1>6. PICK es : es = mod.globals
    OBVIOUS
  <1>7. Reads(q, items, Set(Set(q, "tys", q.tys \o Tys(es)), "globals", q["globals"] \o es))
    BY <1>1, <1>2, <1>3, <1>4, <1>5, <1>6, ReadsValues
  <1> QED
    BY <1>5, <1>6, <1>7 DEF Valued2

LEMMA ReadsFunctions ==
    ASSUME NEW mod, IsModule(mod), NEW q, In(q, 8), IsSeq(q.functions), IsSeq(q.tys),
           HasNames(mod, q.sections, q.gcs)
    PROVE  Reads(q, FunctionItems(mod), Valued2(q, "functions", mod.functions))
  <1>1. IsSeq(mod.functions) /\ \A k \in 1..Len(mod.functions) : mod.functions[k] \in Functions(mod)
    BY ModuleLists
  <1>2. ASSUME NEW k \in 1..Len(mod.functions)
        PROVE  AppendsTwo(q, "functions", "tys", FunctionItems(mod)[k], mod.functions[k], mod.functions[k].ty)
    <2>1. NameOf(q.sections, Number(mod, 5, mod.functions[k].section)) = mod.functions[k].section
          /\ NameOf(q.gcs, Number(mod, 11, mod.functions[k].gc)) = mod.functions[k].gc
      BY DEF HasNames
    <2>2. AppendsTwo(q, "functions", "tys", WriteFunctionProto(mod, mod.functions[k]), mod.functions[k],
                     mod.functions[k].ty)
      BY <1>1, <2>1, ReadsFunction
    <2>3. FunctionItems(mod)[k] = WriteFunctionProto(mod, mod.functions[k])
      BY FunctionItemsAre
    <2> QED
      BY <2>2, <2>3
  <1>3. "functions" \in Apart /\ IsReader(q) /\ IsSeq(q["functions"])
    BY ApartAre DEF In
  <1>4. IsSeq(FunctionItems(mod)) /\ Len(FunctionItems(mod)) = Len(mod.functions)
    BY FunctionItemsAre
  <1>5. PICK items : items = FunctionItems(mod)
    OBVIOUS
  <1>6. PICK es : es = mod.functions
    OBVIOUS
  <1>7. Reads(q, items, Set(Set(q, "tys", q.tys \o Tys(es)), "functions", q["functions"] \o es))
    BY <1>1, <1>2, <1>3, <1>4, <1>5, <1>6, ReadsValues
  <1> QED
    BY <1>5, <1>6, <1>7 DEF Valued2

LEMMA ReadsAliases ==
    ASSUME NEW mod, IsModule(mod), NEW q, In(q, 8), IsSeq(q.aliases), IsSeq(q.tys)
    PROVE  Reads(q, AliasItems(mod), Valued2(q, "aliases", mod.aliases))
  <1>1. IsSeq(mod.aliases) /\ \A k \in 1..Len(mod.aliases) : mod.aliases[k] \in Aliases(mod)
    BY ModuleLists
  <1>2. ASSUME NEW k \in 1..Len(mod.aliases)
        PROVE  AppendsTwo(q, "aliases", "tys", AliasItems(mod)[k], mod.aliases[k], mod.aliases[k].ty)
    <2>2. AppendsTwo(q, "aliases", "tys", WriteAlias(mod, mod.aliases[k]), mod.aliases[k], mod.aliases[k].ty)
      BY <1>1, ReadsAlias
    <2>3. AliasItems(mod)[k] = WriteAlias(mod, mod.aliases[k])
      BY AliasItemsAre
    <2> QED
      BY <2>2, <2>3
  <1>3. "aliases" \in Apart /\ IsReader(q) /\ IsSeq(q["aliases"])
    BY ApartAre DEF In
  <1>4. IsSeq(AliasItems(mod)) /\ Len(AliasItems(mod)) = Len(mod.aliases)
    BY AliasItemsAre
  <1>5. PICK items : items = AliasItems(mod)
    OBVIOUS
  <1>6. PICK es : es = mod.aliases
    OBVIOUS
  <1>7. Reads(q, items, Set(Set(q, "tys", q.tys \o Tys(es)), "aliases", q["aliases"] \o es))
    BY <1>1, <1>2, <1>3, <1>4, <1>5, <1>6, ReadsValues
  <1> QED
    BY <1>5, <1>6, <1>7 DEF Valued2

\* The reader is in the block of the module, and in no other.
AtModule(r) == IsReader(r) /\ \E a : IsSeq(a) /\ r.open = Append(Empty, Frame(8, 3, a, NoType))
\* The reader but for some fields.
Same(q, s, X) == \A f \in Fields : f \notin X => s[f] = q[f]

LEMMA AtModuleIn ==
    ASSUME NEW r, AtModule(r)
    PROVE  In(r, 8) /\ IsReader(r) /\ IsSeq(r.open)
  <1>1. PICK a : IsSeq(a) /\ r.open = Append(Empty, Frame(8, 3, a, NoType))
    BY DEF AtModule
  <1>2. IsSeq(Empty)
    BY NoneSeq
  <1>3. IsSeq(r.open)
    <2>1. PICK t : t = Frame(8, 3, a, NoType)
      OBVIOUS
    <2>2. IsSeq(Append(Empty, t))
      BY <1>2, AppendShape
    <2> QED
      BY <1>1, <2>1, <2>2
  <1>4. In(r, 8)
    BY <1>1, <1>2 DEF In, AtModule
  <1> QED
    BY <1>3, <1>4 DEF AtModule

LEMMA AtModuleSet ==
    ASSUME NEW r, AtModule(r), NEW f \in Fields, f # "open", NEW x
    PROVE  /\ AtModule(Set(r, f, x)) /\ Set(r, f, x)[f] = x /\ Same(r, Set(r, f, x), {f})
  <1>1. IsReader(r)
    BY DEF AtModule
  <1>2. "open" \in Fields
    BY FieldsAre
  <1>3. PICK s : s = Set(r, f, x)
    OBVIOUS
  <1>4. IsReader(s) /\ s[f] = x /\ \A g \in Fields : g # f => s[g] = r[g]
    BY <1>1, <1>3, SetFields
  <1>5. s.open = r.open
    BY <1>2, <1>4
  <1>6. AtModule(s)
    BY <1>4, <1>5 DEF AtModule
  <1> QED
    BY <1>3, <1>4, <1>6 DEF Same

HasMore(r, f, es, s) ==
  AtModule(s) /\ s[f] = r[f] \o es /\ s.tys = r.tys \o Tys(es) /\ Same(r, s, {f, "tys"})

LEMMA AtModuleValued ==
    ASSUME NEW r, AtModule(r), NEW f \in Fields, f \notin {"open", "tys"}, NEW es
    PROVE  HasMore(r, f, es, Valued2(r, f, es))
  <1>1. PICK t : t = r.tys \o Tys(es)
    OBVIOUS
  <1>2. PICK v : v = r[f] \o es
    OBVIOUS
  <1>3. PICK p : p = Set(r, "tys", t)
    OBVIOUS
  <1>4. "tys" \in Fields /\ "tys" # "open"
    BY FieldsAre
  <1>5. AtModule(p) /\ p.tys = t /\ Same(r, p, {"tys"})
    BY <1>3, <1>4, AtModuleSet
  <1>6. PICK s : s = Set(p, f, v)
    OBVIOUS
  <1>7. AtModule(s) /\ s[f] = v /\ Same(p, s, {f})
    BY <1>5, <1>6, AtModuleSet
  <1>8. s = Valued2(r, f, es)
    BY <1>1, <1>2, <1>3, <1>6 DEF Valued2
  <1>9. s.tys = t
    BY <1>4, <1>5, <1>7 DEF Same
  <1>10. Same(r, s, {f, "tys"})
    BY <1>5, <1>7 DEF Same
  <1> QED
    BY <1>1, <1>2, <1>7, <1>8, <1>9, <1>10 DEF HasMore

ModuleInfoFields ==
  {"open", "triple", "layout", "asm", "sections", "gcs", "globals", "functions", "aliases", "tys"}
\* The reader s has what the module block itself says of the module, else it is q.
Informed(q, mod, s) ==
  /\ AtModule(s) /\ Same(q, s, ModuleInfoFields)
  /\ s.triple = mod.triple /\ s.asm = mod.asm
  /\ s.layout = Text(mod.layout, DataLayoutOf(mod))
  /\ s.globals = mod.globals /\ s.functions = mod.functions /\ s.aliases = mod.aliases
  /\ s.tys = (Tys(mod.globals) \o Tys(mod.functions)) \o Tys(mod.aliases)
\* The reader before.
Uninformed(q) ==
  /\ AtModule(q)
  /\ \A f \in ModuleInfoFields : f # "open" => q[f] = Empty

LEMMA TextOfNone ==
    ASSUME NEW str
    PROVE  Text(str, str) = str
  BY DEF Text

LEMMA ReadsTexts ==
    ASSUME NEW mod, IsModule(mod), NEW q, Uninformed(q)
    PROVE  \E s : /\ Reads(q, One(mod.triple # <<>>, WriteStringRecord(2, mod.triple, 0))
                               \o One(mod.layout # <<>>, WriteStringRecord(3, DataLayoutOf(mod), 0))
                               \o One(mod.asm # <<>>, WriteStringRecord(4, mod.asm, 0)), s)
                  /\ AtModule(s) /\ Same(q, s, {"triple", "layout", "asm"})
                  /\ s.triple = mod.triple /\ s.asm = mod.asm
                  /\ s.layout = Text(mod.layout, DataLayoutOf(mod))
  <1>f. /\ "triple" \in Fields /\ "layout" \in Fields /\ "asm" \in Fields
        /\ "triple" # "open" /\ "layout" # "open" /\ "asm" # "open"
    BY FieldsAre
  <1>q. AtModule(q) /\ q.triple = Empty /\ q.layout = Empty /\ q.asm = Empty
    BY DEF Uninformed, ModuleInfoFields
  <1>m. mod.triple \in Texts /\ mod.asm \in Texts /\ DataLayoutOf(mod) \in Texts
    BY DataLayoutIs DEF IsModule
  <1>1. PICK r : r = Set(q, "triple", mod.triple)
    OBVIOUS
  <1>2. AtModule(r) /\ r.triple = mod.triple /\ Same(q, r, {"triple"}) /\ r.layout = Empty /\ r.asm = Empty
    <2>1. AtModule(r) /\ r.triple = mod.triple /\ Same(q, r, {"triple"})
      BY <1>1, <1>f, <1>q, AtModuleSet
    <2> QED
      BY <1>f, <1>q, <2>1 DEF Same
  <1>3. Reads(q, One(mod.triple # <<>>, WriteStringRecord(2, mod.triple, 0)), r)
    <2>1. In(q, 8)
      BY <1>q, AtModuleIn
    <2>2. <<2, "triple">> \in {<<2, "triple">>, <<3, "layout">>, <<4, "asm">>}
      OBVIOUS
    <2>3. q["triple"] = Empty
      BY <1>q
    <2>4. Reads(q, One(mod.triple # <<>>, WriteStringRecord(2, mod.triple, 0)),
                Set(q, "triple", Text(mod.triple, mod.triple)))
      BY <1>m, <2>1, <2>2, <2>3, TextSets
    <2> QED
      BY <1>1, <2>4, TextOfNone
  <1>4. PICK s : s = Set(r, "layout", Text(mod.layout, DataLayoutOf(mod)))
    OBVIOUS
  <1>5. AtModule(s) /\ s.layout = Text(mod.layout, DataLayoutOf(mod)) /\ Same(r, s, {"layout"}) /\ s.asm = Empty
        /\ s.triple = mod.triple
    <2>1. AtModule(s) /\ s.layout = Text(mod.layout, DataLayoutOf(mod)) /\ Same(r, s, {"layout"})
      BY <1>4, <1>f, <1>2, AtModuleSet
    <2> QED
      BY <1>f, <1>2, <2>1 DEF Same
  <1>6. Reads(r, One(mod.layout # <<>>, WriteStringRecord(3, DataLayoutOf(mod), 0)), s)
    <2>1. In(r, 8)
      BY <1>2, AtModuleIn
    <2>2. <<3, "layout">> \in {<<2, "triple">>, <<3, "layout">>, <<4, "asm">>}
      OBVIOUS
    <2>3. r["layout"] = Empty
      BY <1>2
    <2>4. Reads(r, One(mod.layout # <<>>, WriteStringRecord(3, DataLayoutOf(mod), 0)),
                Set(r, "layout", Text(mod.layout, DataLayoutOf(mod))))
      BY <1>m, <2>1, <2>2, <2>3, TextSets
    <2> QED
      BY <1>4, <2>4, TextOfNone
  <1>7. PICK t : t = Set(s, "asm", mod.asm)
    OBVIOUS
  <1>8. AtModule(t) /\ t.asm = mod.asm /\ Same(s, t, {"asm"}) /\ t.triple = mod.triple
        /\ t.layout = Text(mod.layout, DataLayoutOf(mod))
    <2>1. AtModule(t) /\ t.asm = mod.asm /\ Same(s, t, {"asm"})
      BY <1>7, <1>f, <1>5, AtModuleSet
    <2> QED
      BY <1>f, <1>5, <2>1 DEF Same
  <1>9. Reads(s, One(mod.asm # <<>>, WriteStringRecord(4, mod.asm, 0)), t)
    <2>1. In(s, 8)
      BY <1>5, AtModuleIn
    <2>2. <<4, "asm">> \in {<<2, "triple">>, <<3, "layout">>, <<4, "asm">>}
      OBVIOUS
    <2>3. s["asm"] = Empty
      BY <1>5
    <2>4. Reads(s, One(mod.asm # <<>>, WriteStringRecord(4, mod.asm, 0)),
                Set(s, "asm", Text(mod.asm, mod.asm)))
      BY <1>m, <2>1, <2>2, <2>3, TextSets
    <2> QED
      BY <1>7, <2>4, TextOfNone
  <1>10. Same(q, t, {"triple", "layout", "asm"})
    BY <1>2, <1>5, <1>8 DEF Same
  <1>11. Reads(q, One(mod.triple # <<>>, WriteStringRecord(2, mod.triple, 0))
                    \o One(mod.layout # <<>>, WriteStringRecord(3, DataLayoutOf(mod), 0)), s)
    BY <1>3, <1>6, ReadsJoin
  <1>12. Reads(q, One(mod.triple # <<>>, WriteStringRecord(2, mod.triple, 0))
                    \o One(mod.layout # <<>>, WriteStringRecord(3, DataLayoutOf(mod), 0))
                    \o One(mod.asm # <<>>, WriteStringRecord(4, mod.asm, 0)), t)
    BY <1>9, <1>11, ReadsJoin
  <1> QED
    BY <1>8, <1>10, <1>12

LEMMA ReadsNamed ==
    ASSUME NEW mod, IsModule(mod), NEW q, AtModule(q), q.sections = Empty, q.gcs = Empty
    PROVE  \E s : /\ Reads(q, Map(NameRecord, Names(mod)), s)
                  /\ AtModule(s) /\ Same(q, s, {"sections", "gcs"}) /\ HasNames(mod, s.sections, s.gcs)
  <1>1. PICK a : a = Seconds(OfCode(Names(mod), 5))
    OBVIOUS
  <1>2. PICK b : b = Seconds(OfCode(Names(mod), 11))
    OBVIOUS
  <1>3. PICK p : p = Set(q, "sections", a)
    OBVIOUS
  <1>4. PICK s : s = Set(p, "gcs", b)
    OBVIOUS
  <1>f. "sections" \in Fields /\ "gcs" \in Fields /\ "sections" # "open" /\ "gcs" # "open"
    BY FieldsAre
  <1>5. AtModule(p) /\ p.sections = a /\ Same(q, p, {"sections"})
    BY <1>3, <1>f, AtModuleSet
  <1>6. AtModule(s) /\ s.gcs = b /\ Same(p, s, {"gcs"})
    BY <1>4, <1>5, <1>f, AtModuleSet
  <1>7. s.sections = a
    BY <1>5, <1>6, <1>f DEF Same
  <1>8. Same(q, s, {"sections", "gcs"})
    BY <1>5, <1>6 DEF Same
  <1>9. Reads(q, Map(NameRecord, Names(mod)), Tables(q, a, b))
    <2>1. In(q, 8)
      BY AtModuleIn
    <2> QED
      BY <1>1, <1>2, <2>1, ReadsNames
  <1>10. Tables(q, a, b) = s
    BY <1>3, <1>4 DEF Tables
  <1>11. HasNames(mod, s.sections, s.gcs)
    BY <1>1, <1>2, <1>6, <1>7, NamesRead
  <1> QED
    BY <1>6, <1>8, <1>9, <1>10, <1>11

LEMMA ReadsGlobalAbbrev ==
    ASSUME NEW cond \in BOOLEAN, NEW ops, NEW q, AtModule(q)
    PROVE  \E s : Reads(q, One(cond, Define(ops)), s) /\ AtModule(s) /\ Same(q, s, {"open"})
  <1>1. CASE ~cond
    <2>1. Reads(q, Empty, q)
      BY ReadsNone
    <2>2. One(cond, Define(ops)) = Empty
      BY <1>1 DEF One, Empty
    <2> QED
      BY <2>1, <2>2 DEF Same
  <1>2. CASE cond
    <2>1. PICK a : IsSeq(a) /\ q.open = Append(Empty, Frame(8, 3, a, NoType))
      BY DEF AtModule
    <2>2. IsReader(q) /\ IsSeq(Empty)
      BY NoneSeq DEF AtModule
    <2>3. PICK b : b = Append(a, ops)
      OBVIOUS
    <2>4. IsSeq(b)
      BY <2>1, <2>3, AppendShape
    <2>5. PICK o : o = Append(Empty, Frame(8, 3, b, NoType))
      OBVIOUS
    <2>6. PICK s : s = Set(q, "open", o)
      OBVIOUS
    <2>7. Reads(q, <<Define(ops)>>, s)
      BY <2>1, <2>2, <2>3, <2>5, <2>6, ReadsDefine
    <2>8. IsReader(s) /\ s.open = o /\ \A g \in Fields : g # "open" => s[g] = q[g]
      <3>1. "open" \in Fields
        BY FieldsAre
      <3> QED
        BY <2>2, <2>6, <3>1, SetFields
    <2>9. AtModule(s) /\ Same(q, s, {"open"})
      BY <2>4, <2>5, <2>8 DEF AtModule, Same
    <2>10. One(cond, Define(ops)) = <<Define(ops)>>
      BY <1>2 DEF One
    <2> QED
      BY <2>7, <2>9, <2>10
  <1> QED
    BY <1>1, <1>2

LEMMA WriteModuleInfoIs ==
    ASSUME NEW mod
    PROVE  WriteModuleInfo(mod) =
             One(mod.triple # <<>>, WriteStringRecord(2, mod.triple, 0))
               \o One(mod.layout # <<>>, WriteStringRecord(3, DataLayoutOf(mod), 0))
               \o One(mod.asm # <<>>, WriteStringRecord(4, mod.asm, 0))
               \o Map(NameRecord, Names(mod))
               \o One(mod.globals # <<>>, Define(SimpleGVarAbbrev(mod)))
               \o GlobalItems(mod) \o FunctionItems(mod) \o AliasItems(mod)
  <1>1. /\ ModuleCodes.TRIPLE = 2 /\ ModuleCodes.DATALAYOUT = 3 /\ ModuleCodes.ASM = 4
    BY DEF ModuleCodes
  <1> QED
    BY <1>1 DEF WriteModuleInfo, GlobalItems, FunctionItems, AliasItems, NameRecord, Map

LEMMA ReadsValuesOfModule ==
    ASSUME NEW mod, IsModule(mod), NEW q, AtModule(q), HasNames(mod, q.sections, q.gcs),
           q.globals = Empty, q.functions = Empty, q.aliases = Empty, q.tys = Empty
    PROVE  \E s : /\ Reads(q, GlobalItems(mod), s[1]) /\ Reads(s[1], FunctionItems(mod), s[2])
                  /\ Reads(s[2], AliasItems(mod), s[3])
                  /\ AtModule(s[3]) /\ Same(q, s[3], {"globals", "functions", "aliases", "tys"})
                  /\ s[3].globals = mod.globals /\ s[3].functions = mod.functions /\ s[3].aliases = mod.aliases
                  /\ s[3].tys = (Tys(mod.globals) \o Tys(mod.functions)) \o Tys(mod.aliases)
  <1>f. /\ "globals" \in Fields /\ "functions" \in Fields /\ "aliases" \in Fields /\ "tys" \in Fields
        /\ "sections" \in Fields /\ "gcs" \in Fields
    BY FieldsAre
  <1>m. IsSeq(mod.globals) /\ IsSeq(mod.functions) /\ IsSeq(mod.aliases)
    BY ModuleLists
  <1>t. IsSeq(Tys(mod.globals)) /\ IsSeq(Tys(mod.functions)) /\ IsSeq(Tys(mod.aliases))
    BY <1>m, TysShape
  <1>e. IsSeq(Empty) /\ \A s : IsSeq(s) => Empty \o s = s
    BY NoneSeq, NoneJoined
  <1>1. PICK a : a = Valued2(q, "globals", mod.globals)
    OBVIOUS
  <1>2. Reads(q, GlobalItems(mod), a)
    <2>1. In(q, 8) /\ IsSeq(q.globals) /\ IsSeq(q.tys)
      BY <1>e, AtModuleIn
    <2> QED
      BY <1>1, <2>1, ReadsGlobals
  <1>3. /\ AtModule(a) /\ a.globals = mod.globals /\ a.tys = Tys(mod.globals)
        /\ Same(q, a, {"globals", "tys"}) /\ a.functions = Empty /\ a.aliases = Empty
        /\ HasNames(mod, a.sections, a.gcs)
    <2>1. AtModule(a) /\ a["globals"] = q["globals"] \o mod.globals /\ a.tys = q.tys \o Tys(mod.globals)
          /\ Same(q, a, {"globals", "tys"})
      <3>1. "globals" \notin {"open", "tys"}
        OBVIOUS
      <3>2. HasMore(q, "globals", mod.globals, a)
        BY <1>1, <1>f, <3>1, AtModuleValued
      <3> QED
        BY <3>2 DEF HasMore
    <2>2. a.sections = q.sections /\ a.gcs = q.gcs /\ a.functions = Empty /\ a.aliases = Empty
      BY <1>f, <2>1 DEF Same
    <2> QED
      BY <1>e, <1>m, <1>t, <2>1, <2>2
  <1>4. PICK b : b = Valued2(a, "functions", mod.functions)
    OBVIOUS
  <1>5. Reads(a, FunctionItems(mod), b)
    <2>1. In(a, 8) /\ IsSeq(a.functions) /\ IsSeq(a.tys)
      BY <1>e, <1>t, <1>3, AtModuleIn
    <2> QED
      BY <1>3, <1>4, <2>1, ReadsFunctions
  <1>6. /\ AtModule(b) /\ b.functions = mod.functions /\ b.tys = Tys(mod.globals) \o Tys(mod.functions)
        /\ Same(a, b, {"functions", "tys"}) /\ b.globals = mod.globals /\ b.aliases = Empty
    <2>1. AtModule(b) /\ b["functions"] = a["functions"] \o mod.functions /\ b.tys = a.tys \o Tys(mod.functions)
          /\ Same(a, b, {"functions", "tys"})
      <3>1. "functions" \notin {"open", "tys"}
        OBVIOUS
      <3>2. HasMore(a, "functions", mod.functions, b)
        BY <1>3, <1>4, <1>f, <3>1, AtModuleValued
      <3> QED
        BY <3>2 DEF HasMore
    <2>2. b.globals = a.globals /\ b.aliases = Empty
      BY <1>f, <1>3, <2>1 DEF Same
    <2> QED
      BY <1>e, <1>m, <1>t, <1>3, <2>1, <2>2
  <1>7. PICK c : c = Valued2(b, "aliases", mod.aliases)
    OBVIOUS
  <1>8. Reads(b, AliasItems(mod), c)
    <2>1. IsSeq(Tys(mod.globals) \o Tys(mod.functions))
      BY <1>t, JoinShape
    <2>2. In(b, 8) /\ IsSeq(b.aliases) /\ IsSeq(b.tys)
      BY <1>e, <1>6, <2>1, AtModuleIn
    <2> QED
      BY <1>7, <2>2, ReadsAliases
  <1>9. /\ AtModule(c) /\ c.aliases = mod.aliases
        /\ c.tys = (Tys(mod.globals) \o Tys(mod.functions)) \o Tys(mod.aliases)
        /\ Same(b, c, {"aliases", "tys"}) /\ c.globals = mod.globals /\ c.functions = mod.functions
    <2>1. AtModule(c) /\ c["aliases"] = b["aliases"] \o mod.aliases /\ c.tys = b.tys \o Tys(mod.aliases)
          /\ Same(b, c, {"aliases", "tys"})
      <3>1. "aliases" \notin {"open", "tys"}
        OBVIOUS
      <3>2. HasMore(b, "aliases", mod.aliases, c)
        BY <1>6, <1>7, <1>f, <3>1, AtModuleValued
      <3> QED
        BY <3>2 DEF HasMore
    <2>2. c.globals = b.globals /\ c.functions = b.functions
      BY <1>f, <2>1 DEF Same
    <2> QED
      BY <1>e, <1>m, <1>t, <1>6, <2>1, <2>2
  <1>10. Same(q, c, {"globals", "functions", "aliases", "tys"})
    BY <1>3, <1>6, <1>9 DEF Same
  <1>11. PICK s : s = <<a, b, c>>
    OBVIOUS
  <1>12. s[1] = a /\ s[2] = b /\ s[3] = c
    BY <1>11
  <1> QED
    BY <1>2, <1>5, <1>8, <1>9, <1>10, <1>12

LEMMA ReadsModuleInfo ==
    ASSUME NEW mod, IsModule(mod), NEW q, Uninformed(q)
    PROVE  \E s : Reads(q, WriteModuleInfo(mod), s) /\ Informed(q, mod, s)
  <1>f. \A f \in ModuleInfoFields : f \in Fields
    BY FieldsAre DEF ModuleInfoFields
  <1>q. \A f \in ModuleInfoFields : f # "open" => q[f] = Empty
    BY DEF Uninformed
  <1>1. PICK texts : texts = One(mod.triple # <<>>, WriteStringRecord(2, mod.triple, 0))
                               \o One(mod.layout # <<>>, WriteStringRecord(3, DataLayoutOf(mod), 0))
                               \o One(mod.asm # <<>>, WriteStringRecord(4, mod.asm, 0))
    OBVIOUS
  <1>2. PICK names : names = Map(NameRecord, Names(mod))
    OBVIOUS
  <1>3. PICK ab : ab = One(mod.globals # <<>>, Define(SimpleGVarAbbrev(mod)))
    OBVIOUS
  <1>4. PICK a : Reads(q, texts, a) /\ AtModule(a) /\ Same(q, a, {"triple", "layout", "asm"})
                 /\ a.triple = mod.triple /\ a.asm = mod.asm /\ a.layout = Text(mod.layout, DataLayoutOf(mod))
    BY <1>1, ReadsTexts
  <1>5. a.sections = Empty /\ a.gcs = Empty
    BY <1>4, <1>f, <1>q DEF Same, ModuleInfoFields
  <1>6. PICK b : Reads(a, names, b) /\ AtModule(b) /\ Same(a, b, {"sections", "gcs"})
                 /\ HasNames(mod, b.sections, b.gcs)
    BY <1>2, <1>4, <1>5, ReadsNamed
  <1>7. PICK c : Reads(b, ab, c) /\ AtModule(c) /\ Same(b, c, {"open"})
    <2>1. (mod.globals # <<>>) \in BOOLEAN
      OBVIOUS
    <2> QED
      BY <1>3, <1>6, <2>1, ReadsGlobalAbbrev
  <1>8. c.globals = Empty /\ c.functions = Empty /\ c.aliases = Empty /\ c.tys = Empty
        /\ c.sections = b.sections /\ c.gcs = b.gcs
    BY <1>4, <1>6, <1>7, <1>f, <1>q DEF Same, ModuleInfoFields
  <1>9. PICK s : /\ Reads(c, GlobalItems(mod), s[1]) /\ Reads(s[1], FunctionItems(mod), s[2])
                 /\ Reads(s[2], AliasItems(mod), s[3])
                 /\ AtModule(s[3]) /\ Same(c, s[3], {"globals", "functions", "aliases", "tys"})
                 /\ s[3].globals = mod.globals /\ s[3].functions = mod.functions /\ s[3].aliases = mod.aliases
                 /\ s[3].tys = (Tys(mod.globals) \o Tys(mod.functions)) \o Tys(mod.aliases)
    BY <1>6, <1>7, <1>8, ReadsValuesOfModule
  <1>10. PICK t : t = s[3]
    OBVIOUS
  <1>11. t.triple = mod.triple /\ t.asm = mod.asm /\ t.layout = Text(mod.layout, DataLayoutOf(mod))
    BY <1>4, <1>6, <1>7, <1>9, <1>10, <1>f DEF Same, ModuleInfoFields
  <1>12. Same(q, t, ModuleInfoFields)
    BY <1>4, <1>6, <1>7, <1>9, <1>10 DEF Same, ModuleInfoFields
  <1>13. Informed(q, mod, t)
    BY <1>9, <1>10, <1>11, <1>12 DEF Informed
  <1>14. Reads(q, texts \o names, b)
    BY <1>4, <1>6, ReadsJoin
  <1>15. Reads(q, (texts \o names) \o ab, c)
    BY <1>7, <1>14, ReadsJoin
  <1>16. Reads(q, ((texts \o names) \o ab) \o GlobalItems(mod), s[1])
    BY <1>9, <1>15, ReadsJoin
  <1>17. Reads(q, (((texts \o names) \o ab) \o GlobalItems(mod)) \o FunctionItems(mod), s[2])
    BY <1>9, <1>16, ReadsJoin
  <1>18. Reads(q, ((((texts \o names) \o ab) \o GlobalItems(mod)) \o FunctionItems(mod)) \o AliasItems(mod), t)
    BY <1>9, <1>10, <1>17, ReadsJoin
  <1>19. WriteModuleInfo(mod) = ((((texts \o names) \o ab) \o GlobalItems(mod)) \o FunctionItems(mod)) \o AliasItems(mod)
    BY <1>1, <1>2, <1>3, WriteModuleInfoIs
  <1> QED
    BY <1>13, <1>18, <1>19

------------------------------------------------------------------------------
(* Lists of the module and of the body that is read.                       *)

BodyFields == {"args", "blocks", "consts", "local", "insts", "names", "told", "lastloc"}
IsBodyRead(t) == IsRecord(t) /\ DOMAIN t = BodyFields
\* The lists are the module's, or those of the body that is read.
Where(r, w) ==
  \/ w = "module" /\ ~InFunction(r)
  \/ w = "body" /\ InFunction(r) /\ \E o, t : IsSeq(o) /\ IsBodyRead(t) /\ r.bodies = Append(o, t)
Got(r, w, f) == IF w = "module" THEN r[f] ELSE Last(r.bodies)[f]
PutField(w, f) == IF w = "module" THEN f ELSE "bodies"
PutValue(r, w, f, x) ==
  IF w = "module" THEN x ELSE Append(Front(r.bodies), Updated(Last(r.bodies), f, x))
Put(r, w, f, x) == Set(r, PutField(w, f), PutValue(r, w, f, x))
Lists == {"consts", "local", "names", "mds"}
ListOf(w, f) == f \in Lists /\ (w = "module" => f # "local") /\ (w = "body" => f # "mds")

LEMMA UpdatedShape ==
    ASSUME NEW t, IsBodyRead(t), NEW f \in BodyFields, NEW x
    PROVE  /\ IsBodyRead(Updated(t, f, x)) /\ Updated(t, f, x)[f] = x
           /\ \A g \in BodyFields : g # f => Updated(t, f, x)[g] = t[g]
           /\ \A y : Updated(Updated(t, f, x), f, y) = Updated(t, f, y)
           /\ Updated(t, f, t[f]) = t
  BY DEF IsBodyRead, Updated, IsRecord

LEMMA EndsAre ==
    ASSUME NEW s, NEW o, IsSeq(o), NEW t, s = Append(o, t)
    PROVE  Front(s) = o /\ Last(s) = t
  <1>1. Front(Append(o, t)) = o /\ Last(Append(o, t)) = t
    BY AppendShape
  <1> QED
    BY <1>1

LEMMA LikeWhere ==
    ASSUME NEW u, NEW r, Like(u, r), NEW w, Where(r, w)
    PROVE  /\ Where(u, w) /\ (InFunction(u) <=> w = "body")
           /\ \A f : ListOf(w, f) => Got(u, w, f) = Got(r, w, f)
           /\ \A f, x : PutValue(u, w, f, x) = PutValue(r, w, f, x)
  <1>1. u.open = r.open /\ u.bodies = r.bodies
    BY LikeFields
  <1>2. Where(u, w)
    BY <1>1 DEF Where, InFunction
  <1>3. InFunction(u) <=> w = "body"
    BY <1>2 DEF Where
  <1>4. ASSUME NEW f, ListOf(w, f) PROVE Got(u, w, f) = Got(r, w, f)
    <2>1. CASE w = "module"
      <3>1. f \in {"consts", "names", "mds"}
        BY <1>4, <2>1 DEF ListOf, Lists
      <3>2. u.consts = r.consts /\ u.names = r.names /\ u.mds = r.mds
        BY LikeFields
      <3> QED
        BY <2>1, <3>1, <3>2 DEF Got
    <2>2. CASE w # "module"
      BY <1>1, <2>2 DEF Got
    <2> QED
      BY <2>1, <2>2
  <1>5. \A f, x : PutValue(u, w, f, x) = PutValue(r, w, f, x)
    BY <1>1 DEF PutValue
  <1> QED
    BY <1>2, <1>3, <1>4, <1>5

LEMMA PutShape ==
    ASSUME NEW r, IsReader(r), NEW w, Where(r, w), NEW f, ListOf(w, f), NEW x
    PROVE  /\ IsReader(Put(r, w, f, x)) /\ Where(Put(r, w, f, x), w) /\ Got(Put(r, w, f, x), w, f) = x
           /\ PutField(w, f) \in Apart \ {"open", "tys", "told", "types"}
           /\ \A g \in Fields : g # PutField(w, f) => Put(r, w, f, x)[g] = r[g]
           /\ \A y : Put(Put(r, w, f, x), w, f, y) = Put(r, w, f, y)
           /\ Put(r, w, f, Got(r, w, f)) = r
  <1> DEFINE g == PutField(w, f)
             s == Put(r, w, f, x)
  <1>0. w \in {"module", "body"}
    BY DEF Where
  <1>1. g \in Apart \ {"open", "tys", "told", "types"} /\ g \in Fields
    BY <1>0, ApartAre, FieldsAre DEF ListOf, Lists, PutField
  <1>2. \A v : IsReader(Set(r, g, v)) /\ Set(r, g, v)[g] = v
    BY <1>1, SetReader, SetFields
  <1>3. \A v : \A h \in Fields : h # g => Set(r, g, v)[h] = r[h]
    BY <1>1, SetFields
  <1>4. IsReader(s)
    BY <1>2 DEF Put
  <1>5. \A h \in Fields : h # g => s[h] = r[h]
    BY <1>3 DEF Put
  <1>6. s.open = r.open
    BY <1>1, <1>5, FieldsAre
  <1>7. s[g] = PutValue(r, w, f, x)
    BY <1>2 DEF Put
  <1>8. \A y, z : Set(Set(r, g, y), g, z) = Set(r, g, z)
    BY SetSet
  <1>9. \A y : Set(s, g, y) = Set(r, g, y)
    BY <1>8 DEF Put
  <1>10. Set(r, g, r[g]) = r
    BY <1>1, SetFields
  <1> HIDE DEF s
  <1>11. CASE w = "module"
    <2>1. Where(s, w)
      BY <1>6, <1>11 DEF Where, InFunction
    <2>2. Got(s, w, f) = x
      BY <1>7, <1>11 DEF Got, PutValue, PutField
    <2>3. \A y : Put(s, w, f, y) = Put(r, w, f, y)
      BY <1>9, <1>11 DEF Put, PutValue
    <2>4. Put(r, w, f, Got(r, w, f)) = r
      BY <1>10, <1>11 DEF Got, Put, PutValue, PutField
    <2> QED
      BY <1>1, <1>4, <1>5, <2>1, <2>2, <2>3, <2>4 DEF s
  <1>12. CASE w = "body"
    <2>0. g = "bodies"
      BY <1>12 DEF PutField
    <2>1. PICK o, t : IsSeq(o) /\ IsBodyRead(t) /\ r.bodies = Append(o, t)
      BY <1>12 DEF Where
    <2>f. f \in BodyFields
      BY <1>12 DEF ListOf, Lists, BodyFields
    <2>2. Front(r.bodies) = o /\ Last(r.bodies) = t
      BY <2>1, EndsAre
    <2>3. PICK v : v = Updated(t, f, x)
      OBVIOUS
    <2>4. IsBodyRead(v) /\ v[f] = x
      BY <2>1, <2>3, <2>f, UpdatedShape
    <2>5. s.bodies = Append(o, v)
      BY <1>7, <1>12, <2>0, <2>2, <2>3 DEF PutValue
    <2>6. Front(s.bodies) = o /\ Last(s.bodies) = v
      BY <2>1, <2>5, EndsAre
    <2>7. Where(s, w)
      <3>1. InFunction(s)
        BY <1>6, <1>12 DEF Where, InFunction
      <3> QED
        BY <1>12, <2>1, <2>4, <2>5, <3>1 DEF Where
    <2>8. Got(s, w, f) = x
      BY <1>12, <2>4, <2>6 DEF Got
    <2>9. ASSUME NEW y PROVE Put(s, w, f, y) = Put(r, w, f, y)
      <3>1. Updated(v, f, y) = Updated(t, f, y)
        BY <2>1, <2>3, <2>f, UpdatedShape
      <3>2. PutValue(s, w, f, y) = PutValue(r, w, f, y)
        BY <1>12, <2>2, <2>6, <3>1 DEF PutValue
      <3> QED
        BY <1>9, <3>2 DEF Put
    <2>10. Put(r, w, f, Got(r, w, f)) = r
      <3>1. Updated(t, f, t[f]) = t
        BY <2>1, <2>f, UpdatedShape
      <3>2. PutValue(r, w, f, Got(r, w, f)) = r.bodies
        BY <1>12, <2>1, <2>2, <3>1 DEF PutValue, Got
      <3> QED
        BY <1>10, <2>0, <3>2 DEF Put
    <2> QED
      BY <1>1, <1>4, <1>5, <2>7, <2>8, <2>9, <2>10 DEF s
  <1> QED
    BY <1>0, <1>11, <1>12

\* A record that adds an element to a list, of the module or of the body.
AddTo(r, f, e) == IF InFunction(r) THEN AddBody(r, f, e) ELSE Add(r, f, e)

LEMMA AddToIs ==
    ASSUME NEW r, IsReader(r), NEW w, Where(r, w), NEW f, ListOf(w, f), NEW e
    PROVE  AddTo(r, f, e) = Put(r, w, f, Append(Got(r, w, f), e))
  <1>0. w \in {"module", "body"}
    BY DEF Where
  <1>1. CASE w = "module"
    <2>1. ~InFunction(r)
      BY <1>1 DEF Where
    <2>2. f \in Fields
      BY <1>1, FieldsAre DEF ListOf, Lists
    <2>3. Add(r, f, e) = Set(r, f, Append(r[f], e))
      BY <2>2, AddIs
    <2> QED
      BY <1>1, <2>1, <2>3 DEF AddTo, Put, PutField, PutValue, Got
  <1>2. CASE w = "body"
    <2>1. PICK o, t : IsSeq(o) /\ IsBodyRead(t) /\ r.bodies = Append(o, t)
      BY <1>2 DEF Where
    <2>2. Front(r.bodies) = o /\ Last(r.bodies) = t
      BY <2>1, EndsAre
    <2>3. PICK v : v = Updated(t, f, Append(t[f], e))
      OBVIOUS
    <2>4. AddBody(r, f, e) = Set(r, "bodies", Append(o, v))
      BY <2>1, <2>3, AddBodyIs
    <2>5. InFunction(r)
      BY <1>2 DEF Where
    <2>6. PutValue(r, w, f, Append(Got(r, w, f), e)) = Append(o, v)
      BY <1>2, <2>2, <2>3 DEF PutValue, Got
    <2>7. PutField(w, f) = "bodies"
      BY <1>2 DEF PutField
    <2> QED
      BY <2>4, <2>5, <2>6, <2>7 DEF AddTo, Put
  <1> QED
    BY <1>0, <1>1, <1>2

\* Whatever the list holds, the record adds the element to it.
AddsTo(q, w, f, x, e) ==
  x.item = "record" /\ \A u : (\E n : Like(u, Put(q, w, f, n))) => Took(u, x) = AddTo(u, f, e)

LEMMA ReadsAddsTo ==
    ASSUME NEW q, IsReader(q), NEW w, Where(q, w), NEW f, ListOf(w, f), NEW n, NEW x, NEW e,
           AddsTo(q, w, f, x, e)
    PROVE  Reads(Put(q, w, f, n), <<x>>, Put(q, w, f, Append(n, e)))
  <1>1. PICK r : r = Put(q, w, f, n)
    OBVIOUS
  <1>2. IsReader(r) /\ Where(r, w) /\ Got(r, w, f) = n /\ PutField(w, f) \in Apart
        /\ \A y : Put(r, w, f, y) = Put(q, w, f, y)
    BY <1>1, PutShape
  <1>3. PICK v : v = PutValue(r, w, f, Append(n, e))
    OBVIOUS
  <1>4. ASSUME NEW u, Like(u, r) PROVE Took(u, x) = Set(u, PutField(w, f), v)
    <2>1. Took(u, x) = AddTo(u, f, e)
      BY <1>1, <1>4 DEF AddsTo
    <2>2. Where(u, w) /\ Got(u, w, f) = n /\ PutValue(u, w, f, Append(n, e)) = v
      BY <1>2, <1>3, <1>4, LikeWhere
    <2>3. IsReader(u)
      BY <1>4, LikeFields
    <2>4. AddTo(u, f, e) = Put(u, w, f, Append(n, e))
      BY <2>2, <2>3, AddToIs
    <2> QED
      BY <2>1, <2>2, <2>4 DEF Put
  <1>5. x.item = "record"
    BY DEF AddsTo
  <1>6. \A u : Like(u, r) => Took(u, x) = Set(u, PutField(w, f), v)
    BY <1>4
  <1>7. Reads(r, <<x>>, Set(r, PutField(w, f), v))
    BY <1>2, <1>5, <1>6, ReadsSets
  <1>8. Set(r, PutField(w, f), v) = Put(q, w, f, Append(n, e))
    BY <1>2, <1>3 DEF Put
  <1> QED
    BY <1>1, <1>7, <1>8

\* A list of such records, read one after the other.
LEMMA ReadsListTo ==
    ASSUME NEW q, IsReader(q), NEW w, Where(q, w), NEW f, ListOf(w, f), IsSeq(Got(q, w, f)),
           NEW items, IsSeq(items), NEW es, IsSeq(es), Len(items) = Len(es),
           \A k \in 1..Len(es) : AddsTo(q, w, f, items[k], es[k])
    PROVE  Reads(q, items, Put(q, w, f, Got(q, w, f) \o es))
  <1>1. PICK b : b = Got(q, w, f)
    OBVIOUS
  <1>2. Grows(b, es)
    BY <1>1, GrownShape
  <1>3. PICK G : G = [k \in 0..Len(es) |-> Put(q, w, f, Grown(b, es, k))]
    OBVIOUS
  <1>4. Len(es) \in Nat
    BY SeqShape
  <1>5. \A k \in 0..Len(es) : G[k] = Put(q, w, f, Grown(b, es, k))
    BY <1>3
  <1>6. ASSUME NEW k \in 1..Len(items) PROVE Reads(G[k - 1], <<items[k]>>, G[k])
    <2>1. k \in 1..Len(es) /\ k - 1 \in 0..Len(es) /\ k \in 0..Len(es)
      BY <1>4
    <2>2. PICK n : n = Grown(b, es, k - 1)
      OBVIOUS
    <2>3. AddsTo(q, w, f, items[k], es[k])
      BY <2>1
    <2>4. Reads(Put(q, w, f, n), <<items[k]>>, Put(q, w, f, Append(n, es[k])))
      BY <2>3, ReadsAddsTo
    <2>5. Grown(b, es, k) = Append(n, es[k])
      BY <1>2, <2>1, <2>2 DEF Grows
    <2>6. G[k - 1] = Put(q, w, f, n) /\ G[k] = Put(q, w, f, Append(n, es[k]))
      BY <1>5, <2>1, <2>2, <2>5
    <2> QED
      BY <2>4, <2>6
  <1>7. Reads(G[0], items, G[Len(items)])
    BY <1>6, ReadsEach
  <1>8. G[0] = q
    <2>1. G[0] = Put(q, w, f, Grown(b, es, 0))
      BY <1>4, <1>5
    <2>2. Grown(b, es, 0) = b
      BY <1>2 DEF Grows
    <2>3. Put(q, w, f, Got(q, w, f)) = q
      BY PutShape
    <2> QED
      BY <1>1, <2>1, <2>2, <2>3
  <1>9. G[Len(items)] = Put(q, w, f, b \o es)
    <2>1. PICK e : e = b \o es
      OBVIOUS
    <2>2. Grown(b, es, Len(es)) = e
      BY <1>2, <2>1 DEF Grows
    <2>3. Len(items) \in 0..Len(es) /\ Len(items) = Len(es)
      BY <1>4
    <2>4. G[Len(items)] = Put(q, w, f, Grown(b, es, Len(items)))
      BY <1>5, <2>3
    <2> QED
      BY <2>1, <2>2, <2>3, <2>4
  <1> QED
    BY <1>1, <1>7, <1>8, <1>9

LEMMA EnteredWhere ==
    ASSUME NEW q, IsReader(q), IsSeq(q.open), NEW w, Where(q, w), NEW id, id # 12, NEW cl, NEW ab, NEW ty,
           NEW p, IsReader(p), p.open = Append(q.open, Frame(id, cl, ab, ty)), p.bodies = q.bodies
    PROVE  Where(p, w)
  <1>1. PICK o, t : o = q.open /\ t = Frame(id, cl, ab, ty)
    OBVIOUS
  <1>2. IsSeq(o) /\ p.open = Append(o, t) /\ t.id = id
    BY <1>1, FrameFields
  <1>3. PICK z : z = Append(o, t)
    OBVIOUS
  <1>4. /\ IsSeq(z) /\ Len(z) = Len(o) + 1 /\ z[Len(o) + 1] = t /\ \A k \in 1..Len(o) : z[k] = o[k]
    <2>1. IsSeq(Append(o, t)) /\ Len(Append(o, t)) = Len(o) + 1 /\ Append(o, t)[Len(o) + 1] = t
      BY <1>2, AppendShape
    <2>2. \A k \in 1..Len(o) : Append(o, t)[k] = o[k]
      BY <1>2, AppendShape
    <2> QED
      BY <1>3, <2>1, <2>2
  <1>5. Len(o) \in Nat /\ DOMAIN o = 1..Len(o) /\ DOMAIN z = 1..(Len(o) + 1)
    BY <1>2, <1>4, SeqShape
  <1>6. (\E k \in DOMAIN z : z[k].id = 12) <=> (\E k \in DOMAIN o : o[k].id = 12)
    BY <1>2, <1>4, <1>5
  <1>7. InFunction(p) <=> InFunction(q)
    BY <1>1, <1>2, <1>3, <1>6 DEF InFunction, BlockIDs
  <1> QED
    BY <1>7 DEF Where

\* A block of such records, of the module or of the body.
LEMMA ReadsListBlockTo ==
    ASSUME NEW q, IsReader(q), IsSeq(q.open), NEW id, id # 12, NEW cl, NEW w, Where(q, w), NEW f, ListOf(w, f),
           IsSeq(Got(q, w, f)), NEW items, IsSeq(items), NEW es, IsSeq(es), Len(items) = Len(es),
           \A k \in 1..Len(es) : AddsTo(Entered(q, id, cl), w, f, items[k], es[k])
    PROVE  Reads(q, InBlock(id, cl, items), Put(q, w, f, Got(q, w, f) \o es))
  <1>1. PICK b : b = Got(q, w, f)
    OBVIOUS
  <1>2. CASE items = Empty
    <2>1. InBlock(id, cl, items) = Empty
      BY <1>2 DEF InBlock, Empty
    <2>2. es = Empty
      <3>1. Len(es) = 0
        BY <1>2, NoneSeq
      <3> QED
        BY <3>1, NoneSeq, SameSeq
    <2>3. b \o es = b
      BY <1>1, <2>2, NoneJoined
    <2>4. Put(q, w, f, Got(q, w, f)) = q
      BY PutShape
    <2> QED
      BY <1>1, <2>1, <2>3, <2>4, ReadsNone
  <1>3. CASE items # Empty
    <2>1. PICK p : p = Entered(q, id, cl)
      OBVIOUS
    <2>2. IsReader(p) /\ p.open = Append(q.open, Frame(id, cl, Infos(q, id), NoType))
          /\ \A g \in Fields : g # "open" => p[g] = q[g]
      BY <2>1, EnteredIs
    <2>3. p.bodies = q.bodies
      BY <2>2, FieldsAre
    <2>4. Where(p, w)
      BY <2>2, <2>3, EnteredWhere
    <2>5. Got(p, w, f) = b
      BY <1>1, <2>2, <2>3, FieldsAre DEF Got, Where, ListOf, Lists
    <2>6. Reads(p, items, Put(p, w, f, b \o es))
      BY <1>1, <2>1, <2>2, <2>4, <2>5, ReadsListTo
    <2>7. PICK s : s = Put(p, w, f, b \o es)
      OBVIOUS
    <2>8. IsReader(s) /\ s.open = p.open
      BY <2>2, <2>4, <2>7, PutShape, FieldsAre
    <2>9. PICK t : t = Frame(id, cl, Infos(q, id), NoType)
      OBVIOUS
    <2>10. t.id # 12 /\ s.open = Append(q.open, t)
      BY <2>2, <2>8, <2>9, FrameFields
    <2>11. Reads(q, <<Enter(id, cl)>> \o items \o <<Exit>>, Set(s, "open", q.open))
      BY <2>1, <2>6, <2>7, <2>8, <2>10, ReadsBlock
    <2>12. Set(s, "open", q.open) = Put(q, w, f, b \o es)
      <3>1. PICK g, v : g = PutField(w, f) /\ v = PutValue(q, w, f, b \o es)
        OBVIOUS
      <3>2. PutValue(p, w, f, b \o es) = v
        BY <2>3, <3>1 DEF PutValue
      <3>3. s = Set(Set(q, "open", Append(q.open, t)), g, v)
        BY <2>1, <2>7, <2>9, <3>1, <3>2 DEF Put, Entered
      <3>4. g # "open" /\ g \in Fields
        BY <3>1, PutShape, ApartAre, FieldsAre
      <3>5. PICK a : a = Append(q.open, t)
        OBVIOUS
      <3>6. Set(Set(q, "open", a), g, v) = Set(Set(q, g, v), "open", a)
        BY <3>4, SetApart
      <3>7. Set(Set(Set(q, g, v), "open", a), "open", q.open) = Set(Set(q, g, v), "open", q.open)
        BY SetSet
      <3>8. PICK z : z = Set(q, g, v)
        OBVIOUS
      <3>9. IsReader(z) /\ z.open = q.open
        BY <3>4, <3>8, SetFields, FieldsAre
      <3>10. Set(z, "open", z.open) = z
        BY <3>9, FieldsAre, SetFields
      <3> QED
        BY <3>1, <3>3, <3>5, <3>6, <3>7, <3>8, <3>9, <3>10 DEF Put
    <2>13. InBlock(id, cl, items) = <<Enter(id, cl)>> \o items \o <<Exit>>
      BY <1>3 DEF InBlock, Empty
    <2> QED
      BY <1>1, <2>11, <2>12, <2>13
  <1> QED
    BY <1>2, <1>3

------------------------------------------------------------------------------
(* Names.                                                                  *)

NameItem(e) ==
  Record(IF e.bb THEN ValueSymtabCodes.BBENTRY ELSE ValueSymtabCodes.ENTRY, <<e.of>> \o e.name, NameAbbrev(e))

LEMMA FromSecond ==
    ASSUME NEW x, NEW s, IsSeq(s)
    PROVE  /\ (<<x>> \o s)[1] = x /\ From(<<x>> \o s, 2) = s
  <1>1. PICK o : o = <<x>>
    OBVIOUS
  <1>2. IsSeq(o) /\ Len(o) = 1 /\ o[1] = x
    BY <1>1, OneSeq
  <1>3. PICK v : v = o \o s
    OBVIOUS
  <1>4. IsSeq(v)
    BY <1>2, <1>3, JoinShape
  <1>5. Len(v) = Len(o) + Len(s) /\ (\A k \in 1..Len(o) : v[k] = o[k]) /\ (\A k \in 1..Len(s) : v[Len(o) + k] = s[k])
    <2>0. IsSeq(o) /\ IsSeq(s)
      BY <1>2
    <2>1. Len(o \o s) = Len(o) + Len(s)
      BY <2>0, JoinShape
    <2>2. \A k \in 1..Len(o) : (o \o s)[k] = o[k]
      BY <2>0, JoinShape
    <2>3. \A k \in 1..Len(s) : (o \o s)[Len(o) + k] = s[k]
      BY <2>0, JoinShape
    <2> QED
      BY <1>3, <2>1, <2>2, <2>3
  <1>6. Len(s) \in Nat /\ v \in Seq(Elements(v))
    BY <1>4, SeqShape
  <1>7. Len(SubSeq(v, 2, Len(v))) = Len(s) /\ \A k \in 1..Len(s) : SubSeq(v, 2, Len(v))[k] = v[2 + k - 1]
    BY <1>2, <1>5, <1>6, SubSeqProperties
  <1>8. PICK f : f = SubSeq(v, 2, Len(v))
    OBVIOUS
  <1>9. f \in Seq(Elements(v))
    BY <1>2, <1>5, <1>6, <1>8, SubSeqProperties
  <1>10. IsSeq(f)
    BY <1>9, SeqIs
  <1>11. \A k \in 1..Len(s) : f[k] = s[k]
    <2> TAKE k \in 1..Len(s)
    <2>1. 2 + k - 1 = Len(o) + k
      BY <1>2, <1>6
    <2> QED
      BY <1>5, <1>7, <1>8, <2>1
  <1>12. f = s
    BY <1>7, <1>8, <1>10, <1>11, SameSeq
  <1>13. v[1] = x
    BY <1>2, <1>5
  <1> QED
    BY <1>1, <1>3, <1>8, <1>12, <1>13 DEF From

LEMMA ReadsNameItem ==
    ASSUME NEW p, In(p, 14), NEW w, Where(p, w), NEW e \in NameEntries
    PROVE  AddsTo(p, w, "names", NameItem(e), e)
  <1> DEFINE vs == <<e.of>> \o e.name
             ab == NameAbbrev(e)
             code == IF e.bb THEN 2 ELSE 1
  <1>1. NameItem(e) = Record(code, vs, ab)
    BY DEF NameItem, ValueSymtabCodes
  <1>2. e = [of |-> e.of, name |-> e.name, bb |-> e.bb] /\ e.bb \in BOOLEAN /\ e.name \in Texts
    BY DEF NameEntries
  <1>3. IsSeq(e.name)
    BY <1>2, SeqIs DEF Texts
  <1>4. vs[1] = e.of /\ From(vs, 2) = e.name
    BY <1>3, FromSecond
  <1>5. (code = 2) = e.bb
    BY <1>2
  <1> HIDE DEF vs, ab, code
  <1>6. PICK x : x = NameItem(e)
    OBVIOUS
  <1>7. x.item = "record" /\ x.code = code /\ x.vals = vs
    BY <1>1, <1>6, RecordFields
  <1>8. ASSUME NEW u, NEW n, Like(u, Put(p, w, "names", n))
        PROVE  Took(u, x) = AddTo(u, "names", e)
    <2>1. ListOf(w, "names")
      BY DEF ListOf, Lists
    <2>2. PICK r : r = Put(p, w, "names", n)
      OBVIOUS
    <2>3. In(r, 14)
      <3>1. PutField(w, "names") \in Apart /\ PutField(w, "names") # "open"
        BY <2>1, PutShape DEF In
      <3> QED
        BY <2>2, <3>1, InSet DEF Put
    <2>4. Took(u, x) = ReadName(u, x)
      BY <1>8, <2>2, <2>3, InTop, TookIs
    <2>5. [of |-> x.vals[1], name |-> From(x.vals, 2), bb |-> x.code = 2] = e
      BY <1>2, <1>4, <1>5, <1>7
    <2> QED
      BY <2>4, <2>5 DEF ReadName, AddTo, ValueSymtabCodes
  <1> QED
    BY <1>6, <1>7, <1>8 DEF AddsTo

LEMMA ReadsSymbolTable ==
    ASSUME NEW q, IsReader(q), IsSeq(q.open), NEW w, Where(q, w), NEW names \in Seq(NameEntries),
           Got(q, w, "names") = Empty
    PROVE  Reads(q, WriteValueSymbolTable(names), Put(q, w, "names", names))
  <1>1. PICK items : items = Map(NameItem, names)
    OBVIOUS
  <1>2. WriteValueSymbolTable(names) = InBlock(14, 4, items)
    BY <1>1 DEF WriteValueSymbolTable, NameItem, Map, BlockIDs
  <1>3. IsSeq(names) /\ DOMAIN names = 1..Len(names)
    BY SeqIs
  <1>4. DOMAIN items = DOMAIN names /\ items = [k \in DOMAIN items |-> items[k]]
        /\ \A k \in DOMAIN names : items[k] = NameItem(names[k])
    BY <1>1 DEF Map
  <1>5. IsSeq(items) /\ Len(items) = Len(names)
    BY <1>3, <1>4, MapShape
  <1>6. ListOf(w, "names")
    BY DEF ListOf, Lists
  <1>7. PICK p : p = Entered(q, 14, 4)
    OBVIOUS
  <1>8. In(p, 14) /\ Where(p, w)
    <2>1. IsReader(p) /\ p.open = Append(q.open, Frame(14, 4, Infos(q, 14), NoType)) /\ p.bodies = q.bodies
      BY <1>7, EnteredIs, FieldsAre
    <2>2. Where(p, w)
      BY <2>1, EnteredWhere
    <2> QED
      BY <1>7, <2>2, InEntered
  <1>9. \A k \in 1..Len(names) : AddsTo(p, w, "names", items[k], names[k])
    <2> TAKE k \in 1..Len(names)
    <2>1. names[k] \in NameEntries
      BY <1>3
    <2>2. AddsTo(p, w, "names", NameItem(names[k]), names[k])
      BY <1>8, <2>1, ReadsNameItem
    <2> QED
      BY <1>3, <1>4, <2>2
  <1>10. IsSeq(Got(q, w, "names")) /\ Got(q, w, "names") \o names = names
    BY <1>3, NoneSeq, NoneJoined
  <1>11. PICK g : g = Got(q, w, "names")
    OBVIOUS
  <1>12. Reads(q, InBlock(14, 4, items), Put(q, w, "names", Got(q, w, "names") \o names))
    BY <1>3, <1>5, <1>6, <1>7, <1>9, <1>10, ReadsListBlockTo
  <1> QED
    BY <1>2, <1>10, <1>12

------------------------------------------------------------------------------
(* Metadata.                                                               *)

WrittenOperand(mod, op) == IF op = <<>> THEN <<VoidType(mod), 0>> ELSE op
NodeOperand(types, p) == IF types[p[1] + 1].id = "Void" THEN <<>> ELSE p
NodeCode(local) == IF local THEN 9 ELSE 8

LEMMA PairSeq ==
    ASSUME NEW a, NEW b, NEW s, s = <<a, b>>
    PROVE  IsSeq(s) /\ Len(s) = 2 /\ s[1] = a /\ s[2] = b
  <1>1. IsSeq(<<a, b>>) /\ Len(<<a, b>>) = 2 /\ <<a, b>>[1] = a /\ <<a, b>>[2] = b
    BY TwoSeq
  <1> QED
    BY <1>1

LEMMA WriteNodeIs ==
    ASSUME NEW mod, NEW node
    PROVE  WriteMDNode(mod, node) =
             Record(NodeCode(node.local), FlattenSeq([k \in DOMAIN node.ops |-> WrittenOperand(mod, node.ops[k])]), 0)
  BY DEF WriteMDNode, Flat, Map, WrittenOperand, NodeCode, MetadataCodes

LEMMA OperandReads ==
    ASSUME NEW mod, IsSeq(mod.types), NEW op,
           IF op = <<>> THEN \E t \in DOMAIN mod.types : mod.types[t].id = "Void"
           ELSE op \in Nat \X Nat /\ mod.types[op[1] + 1].id # "Void",
           NEW p, p = WrittenOperand(mod, op)
    PROVE  IsSeq(p) /\ Len(p) = 2 /\ NodeOperand(mod.types, <<p[1], p[2]>>) = op
  <1>1. CASE op = <<>>
    <2>1. PICK v : v = VoidType(mod)
      OBVIOUS
    <2>2. v + 1 \in DOMAIN mod.types /\ mod.types[v + 1].id = "Void"
      <3>1. PICK c : c = CHOOSE k \in DOMAIN mod.types : mod.types[k].id = "Void"
        OBVIOUS
      <3>2. c \in DOMAIN mod.types /\ mod.types[c].id = "Void"
        BY <1>1, <3>1
      <3>3. c \in Nat
        BY <3>2, SeqShape
      <3>4. v = c - 1
        BY <2>1, <3>1 DEF VoidType
      <3>5. v + 1 = c
        BY <3>3, <3>4
      <3> QED
        BY <3>2, <3>5
    <2>3. p = <<v, 0>>
      BY <1>1, <2>1 DEF WrittenOperand
    <2>4. IsSeq(p) /\ Len(p) = 2 /\ p[1] = v
      BY <2>3, PairSeq
    <2>5. <<p[1], p[2]>>[1] = p[1]
      OBVIOUS
    <2> QED
      BY <1>1, <2>2, <2>4, <2>5 DEF NodeOperand
  <1>2. CASE op # <<>>
    <2>1. op \in Nat \X Nat /\ mod.types[op[1] + 1].id # "Void"
      BY <1>2
    <2>2. op = <<op[1], op[2]>> /\ p = op
      BY <1>2, <2>1 DEF WrittenOperand
    <2>3. PICK a, b : a = op[1] /\ b = op[2] /\ op = <<a, b>>
      BY <2>2
    <2>4. IsSeq(p) /\ Len(p) = 2 /\ <<p[1], p[2]>> = op
      <3>1. p = <<a, b>>
        BY <2>2, <2>3
      <3>2. IsSeq(p) /\ Len(p) = 2 /\ p[1] = a /\ p[2] = b
        BY <3>1, PairSeq
      <3> QED
        BY <2>3, <3>2
    <2>5. <<p[1], p[2]>>[1] = op[1]
      BY <2>4
    <2> QED
      BY <2>1, <2>4, <2>5 DEF NodeOperand
  <1> QED
    BY <1>1, <1>2

LEMMA NodeReads ==
    ASSUME NEW mod, IsSeq(mod.types), NEW local \in BOOLEAN, NEW node, IsNode(mod, node, local),
           NEW vs, vs = FlattenSeq([k \in DOMAIN node.ops |-> WrittenOperand(mod, node.ops[k])])
    PROVE  [k \in DOMAIN Pairs(vs) |-> NodeOperand(mod.types, Pairs(vs)[k])] = node.ops
  <1>1. IsSeq(node.ops)
    BY DEF IsNode
  <1>2. PICK ss : ss = [k \in DOMAIN node.ops |-> WrittenOperand(mod, node.ops[k])]
    OBVIOUS
  <1>3. DOMAIN node.ops = 1..Len(node.ops) /\ Len(node.ops) \in Nat
    BY <1>1, SeqShape
  <1>4. IsSeq(ss) /\ Len(ss) = Len(node.ops) /\ \A k \in 1..Len(ss) : ss[k] = WrittenOperand(mod, node.ops[k])
    <2>1. DOMAIN ss = DOMAIN node.ops /\ ss = [k \in DOMAIN ss |-> ss[k]]
      BY <1>2
    <2>2. IsSeq(ss) /\ Len(ss) = Len(node.ops)
      BY <1>1, <2>1, MapShape
    <2> QED
      BY <1>2, <1>3, <2>2
  <1>5. ASSUME NEW k \in 1..Len(ss)
        PROVE  IsSeq(ss[k]) /\ Len(ss[k]) = 2 /\ NodeOperand(mod.types, <<ss[k][1], ss[k][2]>>) = node.ops[k]
    <2>1. PICK op, p : op = node.ops[k] /\ p = ss[k]
      OBVIOUS
    <2>2. p = WrittenOperand(mod, op)
      BY <1>4, <2>1
    <2>3. k \in DOMAIN node.ops
      BY <1>3, <1>4
    <2>4. IF op = <<>> THEN \E t \in DOMAIN mod.types : mod.types[t].id = "Void"
          ELSE op \in Nat \X Nat /\ mod.types[op[1] + 1].id # "Void"
      BY <2>1, <2>3 DEF IsNode
    <2>5. IsSeq(p) /\ Len(p) = 2 /\ NodeOperand(mod.types, <<p[1], p[2]>>) = op
      BY <2>2, <2>4, OperandReads
    <2> QED
      BY <2>1, <2>5
  <1>6. /\ DOMAIN Pairs(FlattenSeq(ss)) = 1..Len(ss)
        /\ \A k \in 1..Len(ss) : Pairs(FlattenSeq(ss))[k] = <<ss[k][1], ss[k][2]>>
    BY <1>4, <1>5, PairsRead
  <1>7. PICK ps : ps = Pairs(FlattenSeq(ss))
    OBVIOUS
  <1>8. DOMAIN ps = 1..Len(ss) /\ \A k \in 1..Len(ss) : ps[k] = <<ss[k][1], ss[k][2]>>
    BY <1>6, <1>7
  <1>9. PICK t : t = [k \in DOMAIN ps |-> NodeOperand(mod.types, ps[k])]
    OBVIOUS
  <1>10. t = [k \in 1..Len(ss) |-> node.ops[k]]
    BY <1>5, <1>8, <1>9
  <1>11. node.ops = [k \in 1..Len(node.ops) |-> node.ops[k]]
    BY <1>1 DEF IsSeq
  <1>12. t = node.ops
    BY <1>4, <1>10, <1>11
  <1>13. Pairs(vs) = ps
    BY <1>2, <1>7
  <1> QED
    BY <1>9, <1>12, <1>13

\* The field a record of a node adds to.
NodeList(local) == IF local THEN "local" ELSE "mds"
NodeOf(types, v, local) == [ops |-> [k \in DOMAIN Pairs(v) |-> NodeOperand(types, Pairs(v)[k])], local |-> local]

LEMMA MetadataCodesAre ==
    /\ MetadataCodes.STRING = 1 /\ MetadataCodes.NAME = 4 /\ MetadataCodes.KIND = 6 /\ MetadataCodes.NODE = 8
    /\ MetadataCodes.FN_NODE = 9 /\ MetadataCodes.NAMED_NODE = 10 /\ MetadataCodes.ATTACHMENT = 11
  BY DEF MetadataCodes

LEMMA MetadataStringIs ==
    ASSUME NEW r, NEW x, x.code = 1
    PROVE  ReadMetadata(r, x) = Add(r, "mds", [str |-> ToBytes(x.vals)])
  BY MetadataCodesAre DEF ReadMetadata, Map

LEMMA MetadataNodeIs ==
    ASSUME NEW r, NEW x, x.code \in {8, 9}
    PROVE  ReadMetadata(r, x) = IF InFunction(r) THEN AddBody(r, "local", NodeOf(r.types, x.vals, x.code = 9))
                                ELSE Add(r, "mds", NodeOf(r.types, x.vals, x.code = 9))
  <1>1. CASE x.code = 8
    BY <1>1 DEF ReadMetadata, MetadataCodes, Map, NodeOperand, NodeOf
  <1>2. CASE x.code = 9
    BY <1>2 DEF ReadMetadata, MetadataCodes, Map, NodeOperand, NodeOf
  <1> QED
    BY <1>1, <1>2

LEMMA MetadataNameIs ==
    ASSUME NEW r, NEW x, x.code = 4
    PROVE  ReadMetadata(r, x) = Add(r, "named", [name |-> ToBytes(x.vals), ops |-> <<>>])
  BY MetadataCodesAre DEF ReadMetadata, Map

LEMMA MetadataNamedIs ==
    ASSUME NEW r, NEW x, x.code = 10
    PROVE  ReadMetadata(r, x) = [r EXCEPT !.named[Len(r.named)].ops = x.vals]
  BY MetadataCodesAre DEF ReadMetadata, Map

LEMMA MetadataKindIs ==
    ASSUME NEW r, NEW x, x.code = 6
    PROVE  ReadMetadata(r, x) = Add(r, "kinds", <<x.vals[1], ToBytes(From(x.vals, 2))>>)
  BY MetadataCodesAre DEF ReadMetadata, Map

LEMMA MetadataAttachmentIs ==
    ASSUME NEW r, NEW x, x.code = 11
    PROVE  ReadMetadata(r, x) =
             SetBody(r, "insts", [Last(r.bodies).insts EXCEPT ![x.vals[1] + 1].mds = Pairs(From(x.vals, 2))])
  BY MetadataCodesAre DEF ReadMetadata, Map

LEMMA ReadsNode ==
    ASSUME NEW mod, IsSeq(mod.types), NEW local \in BOOLEAN, NEW node, IsNode(mod, node, local),
           NEW p, In(p, 15), NEW w, Where(p, w), local <=> w = "body", p.types = mod.types
    PROVE  AddsTo(p, w, NodeList(local), WriteMDNode(mod, node), node)
  <1>1. PICK vs : vs = FlattenSeq([k \in DOMAIN node.ops |-> WrittenOperand(mod, node.ops[k])])
    OBVIOUS
  <1>2. node = [ops |-> node.ops, local |-> local] /\ node.local = local
    BY DEF IsNode
  <1>3. PICK x : x = WriteMDNode(mod, node)
    OBVIOUS
  <1>4. x = Record(NodeCode(local), vs, 0)
    BY <1>1, <1>2, <1>3, WriteNodeIs
  <1>5. PICK c : c = NodeCode(local)
    OBVIOUS
  <1>6. x.item = "record" /\ x.code = c /\ x.vals = vs
    BY <1>4, <1>5, RecordFields
  <1>7. c \in {8, 9} /\ ((c = 9) <=> local)
    BY <1>5 DEF NodeCode
  <1>8. PICK f : f = NodeList(local)
    OBVIOUS
  <1>9. ListOf(w, f)
    BY <1>8 DEF ListOf, Lists, NodeList, Where
  <1>10. ASSUME NEW u, NEW n, Like(u, Put(p, w, f, n))
         PROVE  Took(u, x) = AddTo(u, f, node)
    <2>1. PICK r : r = Put(p, w, f, n)
      OBVIOUS
    <2>2. IsReader(p) /\ PutField(w, f) \in Apart \ {"open", "tys", "told", "types"}
          /\ IsReader(r) /\ Where(r, w) /\ \A g \in Fields : g # PutField(w, f) => r[g] = p[g]
      BY <1>9, <2>1, PutShape DEF In
    <2>3. r.types = mod.types
      BY <2>2, FieldsAre
    <2>4. In(r, 15)
      BY <2>1, <2>2, InSet DEF Put
    <2>5. Took(u, x) = ReadMetadata(u, x)
      BY <1>10, <2>1, <2>4, InTop, TookIs
    <2>6. u.types = mod.types /\ (InFunction(u) <=> local)
      BY <1>10, <2>1, <2>2, <2>3, LikeFields, LikeWhere
    <2>7. NodeOf(u.types, x.vals, x.code = 9) = node
      <3>1. PICK ops : ops = [k \in DOMAIN Pairs(vs) |-> NodeOperand(mod.types, Pairs(vs)[k])]
        OBVIOUS
      <3>2. ops = node.ops
        BY <1>1, <3>1, NodeReads
      <3>3. (c = 9) = local
        BY <1>7
      <3>4. NodeOf(mod.types, vs, local) = [ops |-> ops, local |-> local]
        BY <3>1 DEF NodeOf
      <3>5. NodeOf(u.types, x.vals, x.code = 9) = NodeOf(mod.types, vs, local)
        BY <1>6, <2>6, <3>3
      <3> QED
        BY <1>2, <3>2, <3>4, <3>5
    <2>8. ReadMetadata(u, x) = IF InFunction(u) THEN AddBody(u, "local", node) ELSE Add(u, "mds", node)
      BY <1>6, <1>7, <2>7, MetadataNodeIs
    <2> QED
      BY <1>8, <2>5, <2>6, <2>8 DEF AddTo, NodeList
  <1> QED
    BY <1>3, <1>6, <1>8, <1>10 DEF AddsTo

\* The local metadata of a body.
LEMMA ReadsLocalMetadata ==
    ASSUME NEW mod, IsSeq(mod.types), NEW body, IsSeq(body.local),
           \A k \in 1..Len(body.local) : IsNode(mod, body.local[k], TRUE),
           NEW q, IsReader(q), IsSeq(q.open), Where(q, "body"), q.types = mod.types,
           Got(q, "body", "local") = Empty
    PROVE  Reads(q, WriteFunctionLocalMetadata(mod, body), Put(q, "body", "local", body.local))
  <1>1. PICK es, items : es = body.local /\ items = [k \in DOMAIN body.local |-> WriteMDNode(mod, body.local[k])]
    OBVIOUS
  <1>2. WriteFunctionLocalMetadata(mod, body) = InBlock(15, 3, items)
    BY <1>1 DEF WriteFunctionLocalMetadata, Map, BlockIDs
  <1>3. IsSeq(es) /\ DOMAIN es = 1..Len(es)
    BY <1>1, SeqShape
  <1>4. IsSeq(items) /\ Len(items) = Len(es) /\ \A k \in 1..Len(es) : items[k] = WriteMDNode(mod, es[k])
    <2>1. DOMAIN items = DOMAIN es /\ items = [k \in DOMAIN items |-> items[k]]
      BY <1>1
    <2>2. IsSeq(items) /\ Len(items) = Len(es)
      BY <1>3, <2>1, MapShape
    <2> QED
      BY <1>1, <1>3, <2>2
  <1>5. PICK p : p = Entered(q, 15, 3)
    OBVIOUS
  <1>6. In(p, 15) /\ Where(p, "body") /\ p.types = mod.types
    <2>1. IsReader(p) /\ p.open = Append(q.open, Frame(15, 3, Infos(q, 15), NoType)) /\ p.bodies = q.bodies
          /\ p.types = q.types
      BY <1>5, EnteredIs, FieldsAre
    <2>2. Where(p, "body")
      BY <2>1, EnteredWhere
    <2> QED
      BY <1>5, <2>1, <2>2, InEntered
  <1>7. \A k \in 1..Len(es) : AddsTo(p, "body", "local", items[k], es[k])
    <2> TAKE k \in 1..Len(es)
    <2>1. IsNode(mod, es[k], TRUE)
      BY <1>1
    <2>2. AddsTo(p, "body", NodeList(TRUE), WriteMDNode(mod, es[k]), es[k])
      BY <1>6, <2>1, ReadsNode
    <2> QED
      BY <1>4, <2>2 DEF NodeList
  <1>8. IsSeq(Got(q, "body", "local")) /\ Got(q, "body", "local") \o es = es
    BY <1>3, NoneSeq, NoneJoined
  <1>9. ListOf("body", "local")
    BY DEF ListOf, Lists
  <1>10. Reads(q, InBlock(15, 3, items), Put(q, "body", "local", Got(q, "body", "local") \o es))
    BY <1>3, <1>4, <1>5, <1>7, <1>8, <1>9, ReadsListBlockTo
  <1> QED
    BY <1>1, <1>2, <1>8, <1>10

LEMMA AtModuleWhere ==
    ASSUME NEW r, AtModule(r)
    PROVE  Where(r, "module") /\ IsReader(r) /\ IsSeq(r.open) /\ ~InFunction(r)
  <1>1. PICK a : r.open = Append(Empty, Frame(8, 3, a, NoType))
    BY DEF AtModule
  <1>2. PICK z, t : z = r.open /\ t = Frame(8, 3, a, NoType)
    OBVIOUS
  <1>3. t.id = 8
    BY <1>2, FrameFields
  <1>4. IsSeq(z) /\ Len(z) = 1 /\ z[1] = t
    <2>1. IsSeq(Append(Empty, t)) /\ Len(Append(Empty, t)) = Len(Empty) + 1 /\ Append(Empty, t)[Len(Empty) + 1] = t
      BY NoneSeq, AppendShape
    <2>2. Len(Empty) + 1 = 1
      BY NoneSeq
    <2> QED
      BY <1>1, <1>2, <2>1, <2>2
  <1>5. DOMAIN z = 1..1
    BY <1>4, SeqShape
  <1>6. ~InFunction(r)
    BY <1>2, <1>3, <1>4, <1>5 DEF InFunction, BlockIDs
  <1>7. IsReader(r)
    BY DEF AtModule
  <1> QED
    BY <1>2, <1>4, <1>6, <1>7 DEF Where

\* A block, left out when it is empty.
LEMMA ReadsInBlock ==
    ASSUME NEW q, IsReader(q), IsSeq(q.open), NEW id, id # 12, NEW cl, NEW items, NEW s, IsReader(s),
           NEW t, t.id # 12, s.open = Append(q.open, t), Reads(Entered(q, id, cl), items, s)
    PROVE  Reads(q, InBlock(id, cl, items), Set(s, "open", q.open))
  <1>1. CASE items # Empty
    BY <1>1, ReadsBlock DEF InBlock, Empty
  <1>2. CASE items = Empty
    <2>1. PICK p : p = Entered(q, id, cl)
      OBVIOUS
    <2>2. IsReader(p) /\ Set(p, "open", q.open) = q
      <3>1. PICK a : p = Set(q, "open", a)
        BY <2>1 DEF Entered
      <3>2. Set(Set(q, "open", a), "open", q.open) = Set(q, "open", q.open)
        BY SetSet
      <3>3. Set(q, "open", q["open"]) = q
        BY FieldsAre, SetFields
      <3>4. IsReader(p)
        BY <3>1, SetReader
      <3> QED
        BY <3>1, <3>2, <3>3, <3>4
    <2>3. PICK z : z = Set(s, "open", q.open)
      OBVIOUS
    <2>4. ASSUME NEW m, NEW b PROVE \E n : ReadAll(With(q, m, b), Empty) = With(z, n, b)
      <3>1. PICK n : ReadAll(With(p, m, b), items) = With(s, n, b)
        BY <2>1 DEF Reads
      <3>2. With(p, m, b) = With(s, n, b)
        BY <1>2, <3>1, ReadNone
      <3>3. Set(With(p, m, b), "open", q.open) = With(q, m, b)
        BY <2>2, WithSet
      <3>4. Set(With(s, n, b), "open", q.open) = With(z, n, b)
        BY <2>3, WithSet
      <3>5. ReadAll(With(q, m, b), Empty) = With(q, m, b)
        BY ReadNone
      <3> QED
        BY <3>2, <3>3, <3>4, <3>5
    <2>5. Reads(q, Empty, z)
      BY <2>4, NoneSeq DEF Reads
    <2>6. InBlock(id, cl, items) = Empty
      BY <1>2 DEF InBlock, Empty
    <2> QED
      BY <2>3, <2>5, <2>6
  <1> QED
    BY <1>1, <1>2

------------------------------------------------------------------------------
(* The kinds of metadata.                                                  *)

KindItem(k, name) == Record(MetadataCodes.KIND, <<k - 1>> \o Chars(name, 2 * Width), 0)
KindItems(kinds) == [k \in DOMAIN kinds |-> KindItem(k, kinds[k])]
KindsRead(kinds) == [k \in DOMAIN kinds |-> <<k - 1, kinds[k]>>]

LEMMA WriteKindsIs ==
    ASSUME NEW mod
    PROVE  WriteModuleMetadataStore(mod) = InBlock(15, 3, KindItems(mod.kinds))
  BY DEF WriteModuleMetadataStore, KindItems, KindItem, Map, BlockIDs

LEMMA ReadsKind ==
    ASSUME NEW p, In(p, 15), NEW k \in Nat, NEW name \in Texts
    PROVE  Appends(p, "kinds", KindItem(k, name), <<k - 1, name>>)
  <1>1. PICK c : c = Chars(name, 2 * Width)
    OBVIOUS
  <1>2. IsSeq(c) /\ ToBytes(c) = name
    BY <1>1, TextReads, WidthIs
  <1>3. PICK v : v = <<k - 1>> \o c
    OBVIOUS
  <1>4. v[1] = k - 1 /\ From(v, 2) = c
    BY <1>2, <1>3, FromSecond
  <1>5. PICK x : x = KindItem(k, name)
    OBVIOUS
  <1>6. x = Record(6, v, 0)
    BY <1>1, <1>3, <1>5 DEF KindItem, MetadataCodes
  <1>7. x.item = "record" /\ x.code = 6 /\ x.vals = v
    BY <1>6, RecordFields
  <1>8. ASSUME NEW u, NEW n, Like(u, Set(p, "kinds", n)) PROVE Took(u, x) = Add(u, "kinds", <<k - 1, name>>)
    <2>1. In(Set(p, "kinds", n), 15)
      BY ApartAre, InSet
    <2>2. Took(u, x) = ReadMetadata(u, x)
      BY <1>8, <2>1, InTop, TookIs
    <2>3. ReadMetadata(u, x) = Add(u, "kinds", <<x.vals[1], ToBytes(From(x.vals, 2))>>)
      BY <1>7, MetadataKindIs
    <2> QED
      BY <1>2, <1>4, <1>7, <2>2, <2>3
  <1> QED
    BY <1>5, <1>7, <1>8 DEF Appends

LEMMA ReadsKinds ==
    ASSUME NEW mod, IsModule(mod), NEW q, IsReader(q), IsSeq(q.open), q.kinds = Empty
    PROVE  Reads(q, WriteModuleMetadataStore(mod), Set(q, "kinds", KindsRead(mod.kinds)))
  <1>1. PICK ks, items, es : ks = mod.kinds /\ items = KindItems(ks) /\ es = KindsRead(ks)
    OBVIOUS
  <1>2. ks \in Seq(Texts)
    BY <1>1 DEF IsModule
  <1>3. IsSeq(ks) /\ DOMAIN ks = 1..Len(ks) /\ Len(ks) \in Nat
    BY <1>2, SeqIs
  <1>4. IsSeq(items) /\ Len(items) = Len(ks) /\ IsSeq(es) /\ Len(es) = Len(ks)
    <2>1. DOMAIN items = DOMAIN ks /\ items = [k \in DOMAIN items |-> items[k]]
      BY <1>1 DEF KindItems
    <2>2. DOMAIN es = DOMAIN ks /\ es = [k \in DOMAIN es |-> es[k]]
      BY <1>1 DEF KindsRead
    <2> QED
      BY <1>3, <2>1, <2>2, MapShape
  <1>5. PICK p : p = Entered(q, 15, 3)
    OBVIOUS
  <1>6. In(p, 15) /\ IsReader(p)
    BY <1>5, InEntered, EnteredIs
  <1>7. \A k \in 1..Len(es) : Appends(p, "kinds", items[k], es[k])
    <2> TAKE k \in 1..Len(es)
    <2>1. k \in DOMAIN ks /\ k \in Nat
      BY <1>3, <1>4
    <2>2. ks[k] \in Texts
      BY <1>2, <1>3, <2>1
    <2>3. items[k] = KindItem(k, ks[k]) /\ es[k] = <<k - 1, ks[k]>>
      BY <1>1, <2>1 DEF KindItems, KindsRead
    <2> QED
      BY <1>6, <2>1, <2>2, <2>3, ReadsKind
  <1>8. Adds(p, "kinds", items, es)
    BY <1>6, <1>7, ApartAre, AppendsAdds
  <1>9. IsSeq(q.kinds) /\ q.kinds \o es = es
    BY <1>4, NoneSeq, NoneJoined
  <1>10. "kinds" \in Apart /\ "kinds" # "open"
    BY ApartAre
  <1>11. Reads(q, InBlock(15, 3, items), Set(q, "kinds", q["kinds"] \o es))
    BY <1>4, <1>5, <1>8, <1>9, <1>10, ReadsListBlock
  <1> QED
    BY <1>1, <1>9, <1>11, WriteKindsIs

------------------------------------------------------------------------------
(* The metadata of the module.                                             *)

LEMMA ReadsMetadataItem ==
    ASSUME NEW mod, IsModule(mod), NEW md, IsMetadata(mod, md),
           NEW p, In(p, 15), Where(p, "module"), p.types = mod.types
    PROVE  AddsTo(p, "module", "mds", WriteMD(mod, md), md)
  <1>1. CASE isString(md)
    <2>1. md \in [str : Texts]
      BY <1>1 DEF IsMetadata
    <2>2. PICK c : c = Chars(md.str, 2 * Width)
      OBVIOUS
    <2>3. md.str \in Texts /\ md = [str |-> md.str]
      BY <2>1
    <2>4. ToBytes(c) = md.str
      BY <2>2, <2>3, TextReads, WidthIs
    <2>5. PICK ab : ab = IF StringStarts(mod) THEN NthAbbrev(0, 1) ELSE 0
      OBVIOUS
    <2>6. PICK x : x = WriteMD(mod, md)
      OBVIOUS
    <2>7. x = Record(1, c, ab)
      BY <1>1, <2>2, <2>5, <2>6 DEF WriteMD, MetadataCodes
    <2>8. x.item = "record" /\ x.code = 1 /\ x.vals = c
      BY <2>7, RecordFields
    <2>9. ASSUME NEW u, NEW n, Like(u, Put(p, "module", "mds", n)) PROVE Took(u, x) = AddTo(u, "mds", md)
      <3>1. PICK r : r = Put(p, "module", "mds", n)
        OBVIOUS
      <3>2. ListOf("module", "mds")
        BY DEF ListOf, Lists
      <3>3. Where(r, "module")
        BY <3>1, <3>2, PutShape DEF In
      <3>4. In(r, 15)
        BY <3>1, ApartAre, InSet DEF Put, PutField
      <3>5. Took(u, x) = ReadMetadata(u, x)
        BY <2>9, <3>1, <3>4, InTop, TookIs
      <3>6. ~InFunction(u)
        BY <2>9, <3>1, <3>3, LikeWhere
      <3>7. ReadMetadata(u, x) = Add(u, "mds", [str |-> ToBytes(x.vals)])
        BY <2>8, MetadataStringIs
      <3>8. [str |-> ToBytes(x.vals)] = md
        BY <2>3, <2>4, <2>8
      <3> QED
        BY <3>5, <3>6, <3>7, <3>8 DEF AddTo
    <2> QED
      BY <2>6, <2>8, <2>9 DEF AddsTo
  <1>2. CASE ~isString(md)
    <2>1. IsNode(mod, md, FALSE)
      BY <1>2 DEF IsMetadata
    <2>2. IsSeq(mod.types)
      BY ModuleLists
    <2>3. AddsTo(p, "module", NodeList(FALSE), WriteMDNode(mod, md), md)
      BY <2>1, <2>2, ReadsNode
    <2>4. WriteMD(mod, md) = WriteMDNode(mod, md)
      BY <1>2 DEF WriteMD
    <2> QED
      BY <2>3, <2>4 DEF NodeList
  <1> QED
    BY <1>1, <1>2

NamedMetadata == [name : Texts, ops : Seq(Nat)]

LEMMA ReadsNamedItem ==
    ASSUME NEW p, In(p, 15), NEW e \in NamedMetadata, NEW n, IsSeq(n)
    PROVE  Reads(Set(p, "named", n), WriteNamedMD(e), Set(p, "named", Append(n, e)))
  <1>1. e = [name |-> e.name, ops |-> e.ops] /\ e.name \in Texts
    BY DEF NamedMetadata
  <1>2. PICK c : c = Chars(e.name, 2 * Width)
    OBVIOUS
  <1>3. ToBytes(c) = e.name
    BY <1>1, <1>2, TextReads, WidthIs
  <1>4. PICK x, y : x = Record(4, c, 0) /\ y = Record(10, e.ops, 0)
    OBVIOUS
  <1>5. /\ x.item = "record" /\ x.code = 4 /\ x.vals = c
        /\ y.item = "record" /\ y.code = 10 /\ y.vals = e.ops
    BY <1>4, RecordFields
  <1>6. WriteNamedMD(e) = <<x>> \o <<y>>
    <2>1. WriteNamedMD(e) = <<x, y>>
      BY <1>2, <1>4 DEF WriteNamedMD, MetadataCodes
    <2>2. <<x>> \o <<y>> = <<x, y>>
      BY TwoSeq
    <2> QED
      BY <2>1, <2>2
  <1>7. PICK h : h = [name |-> e.name, ops |-> <<>>]
    OBVIOUS
  <1>8. PICK a, b, d : a = Set(p, "named", n) /\ b = Set(p, "named", Append(n, h)) /\ d = Set(p, "named", Append(n, e))
    OBVIOUS
  <1>9. IsReader(p) /\ "named" \in Fields /\ "named" \in Apart
    BY ApartAre, FieldsAre DEF In
  <1>10. /\ IsReader(a) /\ a.named = n /\ In(a, 15) /\ IsReader(b) /\ b.named = Append(n, h) /\ In(b, 15)
         /\ \A v : Set(a, "named", v) = Set(p, "named", v)
         /\ \A v : Set(b, "named", v) = Set(p, "named", v)
    <2>1. IsReader(a) /\ a["named"] = n /\ In(a, 15)
      BY <1>8, <1>9, SetFields, InSet
    <2>2. IsReader(b) /\ b["named"] = Append(n, h) /\ In(b, 15)
      <3>1. PICK g : g = Append(n, h)
        OBVIOUS
      <3>2. b = Set(p, "named", g)
        BY <1>8, <3>1
      <3>3. IsReader(b) /\ b["named"] = g
        BY <1>9, <3>2, SetFields
      <3>4. In(b, 15)
        BY <1>9, <3>2, InSet
      <3> QED
        BY <3>1, <3>3, <3>4
    <2>3. \A v : Set(a, "named", v) = Set(p, "named", v)
      BY <1>8, SetSet
    <2>4. \A v : Set(b, "named", v) = Set(p, "named", v)
      BY <1>8, SetSet
    <2> QED
      BY <2>1, <2>2, <2>3, <2>4
  <1>11. Reads(a, <<x>>, b)
    <2>1. ASSUME NEW u, Like(u, a) PROVE Took(u, x) = Add(u, "named", h)
      <3>1. Took(u, x) = ReadMetadata(u, x)
        BY <1>10, <2>1, InTop, TookIs
      <3>2. ReadMetadata(u, x) = Add(u, "named", [name |-> ToBytes(x.vals), ops |-> <<>>])
        BY <1>5, MetadataNameIs
      <3> QED
        BY <1>3, <1>5, <1>7, <3>1, <3>2
    <2>2. Reads(a, <<x>>, Set(a, "named", Append(a["named"], h)))
      BY <1>5, <1>9, <1>10, <2>1, ReadsAppends
    <2>3. Set(a, "named", Append(a["named"], h)) = b
      BY <1>8, <1>10
    <2> QED
      BY <2>2, <2>3
  <1>12. Reads(b, <<y>>, d)
    <2>1. PICK z : z = Append(n, e)
      OBVIOUS
    <2>2. ASSUME NEW u, Like(u, b) PROVE Took(u, y) = Set(u, "named", z)
      <3>1. Took(u, y) = ReadMetadata(u, y)
        BY <1>10, <2>2, InTop, TookIs
      <3>2. ReadMetadata(u, y) = [u EXCEPT !.named[Len(u.named)].ops = y.vals]
        BY <1>5, MetadataNamedIs
      <3>3. u.named = Append(n, h) /\ IsReader(u)
        BY <1>10, <2>2, LikeFields
      <3>4. PICK k, l : k = Append(n, h) /\ l = Len(n) + 1
        OBVIOUS
      <3>5. Len(k) = l /\ k[l] = h
        BY <3>4, AppendShape
      <3>6. [h EXCEPT !.ops = e.ops] = e
        BY <1>1, <1>7
      <3>7. [k EXCEPT ![l] = [k[l] EXCEPT !.ops = e.ops]] = Replaced(k, l, e)
        BY <3>5, <3>6 DEF Replaced
      <3>8. Replaced(k, l, e) = z
        BY <2>1, <3>4, ReplaceLast
      <3>9. "named" \in DOMAIN u
        BY <1>9, <3>3 DEF IsReader
      <3>10. [u EXCEPT !.named[l].ops = e.ops] = Set(u, "named", [k EXCEPT ![l] = [k[l] EXCEPT !.ops = e.ops]])
        BY <3>3, <3>4, <3>9 DEF Set
      <3>11. ReadMetadata(u, y) = [u EXCEPT !.named[l].ops = e.ops]
        BY <1>5, <3>2, <3>3, <3>4, <3>5
      <3> QED
        BY <3>1, <3>7, <3>8, <3>10, <3>11
    <2>3. Reads(b, <<y>>, Set(b, "named", z))
      BY <1>5, <1>9, <1>10, <2>2, ReadsSets
    <2>4. Set(b, "named", z) = d
      BY <1>8, <1>10, <2>1
    <2> QED
      BY <2>3, <2>4
  <1>13. Reads(a, <<x>> \o <<y>>, d)
    BY <1>11, <1>12, ReadsJoin
  <1> QED
    BY <1>6, <1>8, <1>13

LEMMA ReadsNamedMetadata ==
    ASSUME NEW mod, IsModule(mod), NEW p, In(p, 15), p.named = Empty
    PROVE  Reads(p, Flat(WriteNamedMD, mod.named), Set(p, "named", mod.named))
  <1>1. PICK es, ss : es = mod.named /\ ss = [k \in DOMAIN es |-> WriteNamedMD(es[k])]
    OBVIOUS
  <1>2. es \in Seq(NamedMetadata)
    BY <1>1 DEF IsModule, NamedMetadata
  <1>3. IsSeq(es) /\ DOMAIN es = 1..Len(es)
    BY <1>2, SeqIs
  <1>4. IsSeq(ss) /\ Len(ss) = Len(es)
    <2>1. DOMAIN ss = DOMAIN es /\ ss = [k \in DOMAIN ss |-> ss[k]]
      BY <1>1
    <2> QED
      BY <1>3, <2>1, MapShape
  <1>5. AddsEach(p, "named", ss, es)
    <2>1. ASSUME NEW k \in 1..Len(es), NEW n, IsSeq(n)
          PROVE  Reads(Set(p, "named", n), ss[k], Set(p, "named", Append(n, es[k])))
      <3>1. es[k] \in NamedMetadata /\ ss[k] = WriteNamedMD(es[k])
        BY <1>1, <1>2, <1>3
      <3> QED
        BY <2>1, <3>1, ReadsNamedItem
    <2> QED
      BY <2>1 DEF AddsEach
  <1>6. IsReader(p) /\ "named" \in Fields
    BY FieldsAre DEF In
  <1>7. IsSeq(p["named"]) /\ p["named"] \o es = es
    BY <1>3, NoneSeq, NoneJoined
  <1>8. Reads(p, FlattenSeq(ss), Set(p, "named", p["named"] \o es))
    BY <1>3, <1>4, <1>5, <1>6, <1>7, ReadsAddsEach
  <1>9. Flat(WriteNamedMD, mod.named) = FlattenSeq(ss)
    BY <1>1 DEF Flat, Map
  <1> QED
    BY <1>1, <1>7, <1>8, <1>9

MetadataItems(mod) == [k \in DOMAIN mod.mds |-> WriteMD(mod, mod.mds[k])]

LEMMA WriteMetadataIs ==
    ASSUME NEW mod
    PROVE  WriteModuleMetadata(mod) =
             InBlock(15, 3, One(StringStarts(mod), Define(MDSAbbrevOps)) \o MetadataItems(mod)
                              \o Flat(WriteNamedMD, mod.named))
  BY DEF WriteModuleMetadata, MetadataItems, Map, BlockIDs

\* An abbreviation that may be defined at the start of a block.
LEMMA ReadsMayDefine ==
    ASSUME NEW q, IsReader(q), IsSeq(q.open), NEW id, NEW cl, NEW cond \in BOOLEAN, NEW ops
    PROVE  \E c : Reads(Entered(q, id, cl), One(cond, Define(ops)), Holding(q, id, cl, c))
  <1>1. CASE cond
    <2>1. PICK ds : ds = <<ops>>
      OBVIOUS
    <2>2. IsSeq(ds)
      BY <2>1, OneSeq
    <2>3. PICK c : Reads(Entered(q, id, cl), Map(Define, ds), Holding(q, id, cl, c))
      BY <2>2, ReadsDefinesAll
    <2>4. Map(Define, ds) = <<Define(ops)>>
      BY <2>1 DEF Map
    <2> QED
      BY <1>1, <2>3, <2>4 DEF One
  <1>2. CASE ~cond
    <2>1. Reads(Entered(q, id, cl), Empty, Entered(q, id, cl))
      BY ReadsNone
    <2>2. Entered(q, id, cl) = Holding(q, id, cl, Infos(q, id))
      BY HoldingIs
    <2> QED
      BY <1>2, <2>1, <2>2 DEF One, Empty
  <1> QED
    BY <1>1, <1>2

LEMMA ReadsMetadataList ==
    ASSUME NEW mod, IsModule(mod), NEW p, In(p, 15), Where(p, "module"), p.types = mod.types, p.mds = Empty
    PROVE  Reads(p, MetadataItems(mod), Set(p, "mds", mod.mds))
  <1>1. PICK es, items : es = mod.mds /\ items = MetadataItems(mod)
    OBVIOUS
  <1>2. IsSeq(es)
    BY <1>1, ModuleLists
  <1>3. DOMAIN es = 1..Len(es)
    BY <1>2, SeqShape
  <1>4. IsSeq(items) /\ Len(items) = Len(es)
    <2>1. DOMAIN items = DOMAIN es /\ items = [k \in DOMAIN items |-> items[k]]
      BY <1>1 DEF MetadataItems
    <2> QED
      BY <1>2, <2>1, MapShape
  <1>5. \A k \in 1..Len(es) : AddsTo(p, "module", "mds", items[k], es[k])
    <2> TAKE k \in 1..Len(es)
    <2>1. k \in DOMAIN es
      BY <1>3
    <2>2. IsMetadata(mod, es[k])
      BY <1>1, <2>1 DEF IsModule
    <2>3. items[k] = WriteMD(mod, es[k])
      BY <1>1, <2>1 DEF MetadataItems
    <2> QED
      BY <2>2, <2>3, ReadsMetadataItem
  <1>6. ListOf("module", "mds") /\ IsReader(p)
    BY DEF ListOf, Lists, In
  <1>7. Got(p, "module", "mds") = Empty
    BY DEF Got
  <1>8. IsSeq(Got(p, "module", "mds")) /\ Got(p, "module", "mds") \o es = es
    BY <1>2, <1>7, NoneSeq, NoneJoined
  <1>9. Reads(p, items, Put(p, "module", "mds", Got(p, "module", "mds") \o es))
    BY <1>2, <1>4, <1>5, <1>6, <1>8, ReadsListTo
  <1>10. Put(p, "module", "mds", es) = Set(p, "mds", es)
    BY DEF Put, PutField, PutValue
  <1> QED
    BY <1>1, <1>8, <1>9, <1>10

LEMMA ReadsModuleMetadata ==
    ASSUME NEW mod, IsModule(mod), NEW q, AtModule(q), q.types = mod.types, q.mds = Empty, q.named = Empty
    PROVE  \E s : Reads(q, WriteModuleMetadata(mod), s) /\ AtModule(s) /\ Same(q, s, {"mds", "named"})
                  /\ s.mds = mod.mds /\ s.named = mod.named
  <1>1. Where(q, "module") /\ IsReader(q) /\ IsSeq(q.open)
    BY AtModuleWhere
  <1>2. PICK d, e, g : d = One(StringStarts(mod), Define(MDSAbbrevOps)) /\ e = MetadataItems(mod)
                       /\ g = Flat(WriteNamedMD, mod.named)
    OBVIOUS
  <1>3. PICK c : Reads(Entered(q, 15, 3), d, Holding(q, 15, 3, c))
    <2>1. StringStarts(mod) \in BOOLEAN
      BY DEF StringStarts
    <2> QED
      BY <1>1, <1>2, <2>1, ReadsMayDefine
  <1>4. PICK p : p = Holding(q, 15, 3, c)
    OBVIOUS
  <1>5. PICK t : t = Frame(15, 3, c, NoType)
    OBVIOUS
  <1>6. /\ IsReader(p) /\ In(p, 15) /\ p.open = Append(q.open, t)
        /\ \A f \in Fields : f # "open" => p[f] = q[f]
    BY <1>1, <1>4, <1>5, HoldingIs
  <1>7. p.bodies = q.bodies /\ p.types = mod.types /\ p.mds = Empty /\ p.named = Empty
    BY <1>6, FieldsAre
  <1>8. Where(p, "module")
    BY <1>1, <1>5, <1>6, <1>7, EnteredWhere
  <1>9. PICK a : a = Set(p, "mds", mod.mds)
    OBVIOUS
  <1>10. Reads(p, e, a)
    BY <1>2, <1>6, <1>7, <1>8, <1>9, ReadsMetadataList
  <1>11. In(a, 15) /\ IsReader(a) /\ a["mds"] = mod.mds /\ \A f \in Fields : f # "mds" => a[f] = p[f]
    BY <1>6, <1>9, InSet, SetFields, FieldsAre, ApartAre
  <1>12. a.named = Empty
    BY <1>7, <1>11, FieldsAre
  <1>13. PICK b : b = Set(a, "named", mod.named)
    OBVIOUS
  <1>14. Reads(a, g, b)
    BY <1>2, <1>11, <1>12, <1>13, ReadsNamedMetadata
  <1>15. IsReader(b) /\ b["named"] = mod.named /\ \A f \in Fields : f # "named" => b[f] = a[f]
    BY <1>11, <1>13, SetFields, FieldsAre
  <1>16. Reads(Entered(q, 15, 3), d \o e \o g, b)
    <2>1. Reads(Entered(q, 15, 3), d \o e, a)
      BY <1>3, <1>4, <1>10, ReadsJoin
    <2> QED
      BY <1>14, <2>1, ReadsJoin
  <1>17. b.open = Append(q.open, t) /\ t.id # 12
    BY <1>5, <1>6, <1>11, <1>15, FieldsAre, FrameFields
  <1>18. PICK s : s = Set(b, "open", q.open)
    OBVIOUS
  <1>19. PICK items : items = d \o e \o g
    OBVIOUS
  <1>20. Reads(q, InBlock(15, 3, items), s)
    BY <1>1, <1>15, <1>16, <1>17, <1>18, <1>19, ReadsInBlock
  <1>21. IsReader(s) /\ s["open"] = q.open /\ \A f \in Fields : f # "open" => s[f] = b[f]
    BY <1>15, <1>18, SetFields, FieldsAre
  <1>22. AtModule(s)
    BY <1>21 DEF AtModule
  <1>23. Same(q, s, {"mds", "named"})
    BY <1>6, <1>11, <1>15, <1>21 DEF Same
  <1>24. s.mds = mod.mds /\ s.named = mod.named
    BY <1>11, <1>15, <1>21, FieldsAre
  <1>25. WriteModuleMetadata(mod) = InBlock(15, 3, items)
    BY <1>2, <1>19, WriteMetadataIs
  <1> QED
    BY <1>20, <1>22, <1>23, <1>24, <1>25

------------------------------------------------------------------------------
(* Constants: the numbers of what they are.                                *)

ConstantNames ==
  {"SETTYPE", "NULL", "UNDEF", "INTEGER", "WIDE_INTEGER", "FLOAT", "AGGREGATE", "STRING", "CSTRING",
   "CE_BINOP", "CE_CAST", "CE_GEP", "CE_SELECT", "CE_EXTRACTELT", "CE_INSERTELT", "CE_SHUFFLEVEC",
   "CE_CMP", "INLINEASM_OLD", "CE_SHUFVEC_EX", "CE_INBOUNDS_GEP", "BLOCKADDRESS", "DATA", "INLINEASM"}

LEMMA ConstantCodesAre ==
    /\ DOMAIN ConstantsCodes = ConstantNames
    /\ ConstantsCodes["SETTYPE"] = 1 /\ ConstantsCodes["NULL"] = 2 /\ ConstantsCodes["UNDEF"] = 3
    /\ ConstantsCodes["INTEGER"] = 4 /\ ConstantsCodes["WIDE_INTEGER"] = 5 /\ ConstantsCodes["FLOAT"] = 6
    /\ ConstantsCodes["AGGREGATE"] = 7 /\ ConstantsCodes["STRING"] = 8 /\ ConstantsCodes["CSTRING"] = 9
    /\ ConstantsCodes["CE_BINOP"] = 10 /\ ConstantsCodes["CE_CAST"] = 11 /\ ConstantsCodes["CE_GEP"] = 12
    /\ ConstantsCodes["CE_SELECT"] = 13 /\ ConstantsCodes["CE_EXTRACTELT"] = 14
    /\ ConstantsCodes["CE_INSERTELT"] = 15 /\ ConstantsCodes["CE_SHUFFLEVEC"] = 16
    /\ ConstantsCodes["CE_CMP"] = 17 /\ ConstantsCodes["INLINEASM_OLD"] = 18
    /\ ConstantsCodes["CE_SHUFVEC_EX"] = 19 /\ ConstantsCodes["CE_INBOUNDS_GEP"] = 20
    /\ ConstantsCodes["BLOCKADDRESS"] = 21 /\ ConstantsCodes["DATA"] = 22 /\ ConstantsCodes["INLINEASM"] = 23
  BY DEF ConstantsCodes, ConstantNames

LEMMA ConstantCodesApart ==
    ASSUME NEW c \in ConstantNames, NEW d \in ConstantNames, ConstantsCodes[c] = ConstantsCodes[d]
    PROVE  c = d
  BY ConstantCodesAre DEF ConstantNames

NameOfCode(code) == CHOOSE c \in DOMAIN ConstantsCodes : ConstantsCodes[c] = code

LEMMA ConstantNamed ==
    ASSUME NEW c \in ConstantNames
    PROVE  NameOfCode(ConstantsCodes[c]) = c
  <1>1. PICK k : k = ConstantsCodes[c]
    OBVIOUS
  <1>2. PICK d : d = NameOfCode(k)
    OBVIOUS
  <1>3. DOMAIN ConstantsCodes = ConstantNames
    BY ConstantCodesAre
  <1>4. d \in ConstantNames /\ ConstantsCodes[d] = k
    BY <1>1, <1>2, <1>3 DEF NameOfCode
  <1>5. d = c
    BY <1>1, <1>4, ConstantCodesApart
  <1> QED
    BY <1>1, <1>2, <1>5

\* Integers of 64 bits.
LEMMA SignedReads ==
    ASSUME NEW v \in Integers64
    PROVE  FromSigned(emitSignedInt64(v)) = v
  <1>1. PICK h, p : h = 2 ^ (2 * Width - 1) /\ p = 2 ^ (2 * Width)
    OBVIOUS
  <1>2. h \in Nat /\ p = 2 * h /\ h > 0
    <2>1. 2 * Width - 1 \in Nat /\ 2 * Width - 1 + 1 = 2 * Width
      BY WidthIs
    <2> QED
      BY <1>1, <2>1, PowerStep, PowerNat
  <1>3. h > 1
    <2>1. 2 * Width - 1 \in Nat /\ 0 < 2 * Width - 1 /\ 0 \in Nat
      BY WidthIs
    <2>2. 2 ^ 0 < 2 ^ (2 * Width - 1)
      BY <2>1, PowerGrows
    <2>3. 2 ^ 0 = 1
      BY PowerNat
    <2> QED
      BY <1>1, <2>2, <2>3
  <1>4. v \in (-h)..(h - 1)
    BY <1>1 DEF Integers64
  <1>5. CASE v >= 0
    <2>1. (v * 2) % p = v * 2
      BY <1>2, <1>4, <1>5
    <2>2. emitSignedInt64(v) = v * 2
      BY <1>1, <1>5, <2>1 DEF emitSignedInt64
    <2>3. (v * 2) % 2 = 0 /\ (v * 2) \div 2 = v
      BY <1>4, <1>5
    <2> QED
      BY <2>2, <2>3 DEF FromSigned
  <1>6. CASE v < 0 /\ v # -h
    <2>1. (-v * 2) % p = -v * 2
      BY <1>2, <1>4, <1>6
    <2>2. emitSignedInt64(v) = (-v * 2) + 1
      BY <1>1, <1>4, <1>6, <2>1 DEF emitSignedInt64
    <2>3. PICK n : n = -v
      OBVIOUS
    <2>4. n \in Nat /\ n > 0 /\ v = -n
      BY <1>4, <1>6, <2>3
    <2>5. (n * 2 + 1) % 2 = 1 /\ (n * 2 + 1) \div 2 = n /\ n * 2 + 1 # 1
      BY <2>4
    <2>7. (-v * 2) + 1 = n * 2 + 1
      BY <2>4
    <2>6. emitSignedInt64(v) = n * 2 + 1
      BY <2>2, <2>7
    <2> QED
      BY <2>4, <2>5, <2>6 DEF FromSigned
  <1>7. CASE v = -h
    <2>1. -v * 2 = p /\ v < 0
      BY <1>2, <1>7
    <2>2. p % p = 0
      BY <1>2
    <2>3. emitSignedInt64(v) = 1
      BY <1>1, <2>1, <2>2, <1>4 DEF emitSignedInt64
    <2> QED
      BY <1>1, <1>7, <2>3 DEF FromSigned
  <1> QED
    BY <1>2, <1>4, <1>5, <1>6, <1>7

LEMMA CastReads ==
    ASSUME NEW c \in DOMAIN GetEncodedCastOpcode
    PROVE  Meaning(Casts, GetEncodedCastOpcode[c]) = c
  <1>1. DOMAIN GetEncodedCastOpcode =
          {"Trunc", "ZExt", "SExt", "FPToUI", "FPToSI", "UIToFP", "SIToFP", "FPTrunc", "FPExt",
           "PtrToInt", "IntToPtr", "BitCast"}
    BY DEF GetEncodedCastOpcode
  <1>2. /\ GetEncodedCastOpcode["Trunc"] = 0 /\ GetEncodedCastOpcode["ZExt"] = 1
        /\ GetEncodedCastOpcode["SExt"] = 2 /\ GetEncodedCastOpcode["FPToUI"] = 3
        /\ GetEncodedCastOpcode["FPToSI"] = 4 /\ GetEncodedCastOpcode["UIToFP"] = 5
        /\ GetEncodedCastOpcode["SIToFP"] = 6 /\ GetEncodedCastOpcode["FPTrunc"] = 7
        /\ GetEncodedCastOpcode["FPExt"] = 8 /\ GetEncodedCastOpcode["PtrToInt"] = 9
        /\ GetEncodedCastOpcode["IntToPtr"] = 10 /\ GetEncodedCastOpcode["BitCast"] = 11
    BY DEF GetEncodedCastOpcode, CastOpcodes
  <1>3. /\ Len(Casts) = 12
        /\ Casts[1] = "Trunc" /\ Casts[2] = "ZExt" /\ Casts[3] = "SExt" /\ Casts[4] = "FPToUI"
        /\ Casts[5] = "FPToSI" /\ Casts[6] = "UIToFP" /\ Casts[7] = "SIToFP" /\ Casts[8] = "FPTrunc"
        /\ Casts[9] = "FPExt" /\ Casts[10] = "PtrToInt" /\ Casts[11] = "IntToPtr" /\ Casts[12] = "BitCast"
    BY DEF Casts
  <1>4. \A n \in 0..11 : Meaning(Casts, n) = Casts[n + 1]
    BY <1>3 DEF Meaning, At
  <1> QED
    BY <1>1, <1>2, <1>3, <1>4

\* The flags of an operation, bit by bit.
FlagsTold(told, flags) == {t[2] : t \in {u \in told : (flags \div 2 ^ u[1]) % 2 = 1}}
ToldOf(op) ==
  IF op \in {"Add", "Sub", "Mul", "Shl"} THEN {<<0, "NUW">>, <<1, "NSW">>}
  ELSE IF op \in {"UDiv", "SDiv", "LShr", "AShr"} THEN {<<0, "Exact">>} ELSE {}

LEMMA BinaryMeaningIs ==
    ASSUME NEW r, NEW ty, NEW code, NEW flags, NEW op,
           op = Meaning(IF isFloat(r, ty) THEN FloatOps ELSE IntegerOps, code)
    PROVE  BinaryMeaning(r, ty, code, flags) = <<op, FlagsTold(ToldOf(op), flags)>>
  BY DEF BinaryMeaning, FlagsTold, ToldOf

LEMMA PowersAre == 2 ^ 0 = 1 /\ 2 ^ 1 = 2
  <1>1. 2 ^ 0 = 1
    BY PowerNat
  <1>2. 2 ^ (0 + 1) = 2 * 2 ^ 0
    BY PowerStep
  <1> QED
    BY <1>1, <1>2

LEMMA WrapsTold ==
    ASSUME NEW flags, flags \subseteq {"NUW", "NSW"}, NEW n,
           n = (IF "NSW" \in flags THEN 2 ELSE 0) + (IF "NUW" \in flags THEN 1 ELSE 0)
    PROVE  FlagsTold({<<0, "NUW">>, <<1, "NSW">>}, n) = flags
  <1>1. PICK a, c : a = <<0, "NUW">> /\ c = <<1, "NSW">>
    OBVIOUS
  <1>2. a[1] = 0 /\ a[2] = "NUW" /\ c[1] = 1 /\ c[2] = "NSW"
    BY <1>1
  <1>3. (n \div 2 ^ 0) % 2 = 1 <=> "NUW" \in flags
    <2>1. n \div 2 ^ 0 = n
      BY PowersAre
    <2> QED
      BY <2>1
  <1>4. (n \div 2 ^ 1) % 2 = 1 <=> "NSW" \in flags
    <2>1. n \div 2 ^ 1 = n \div 2
      BY PowersAre
    <2>2. n \div 2 = IF "NSW" \in flags THEN 1 ELSE 0
      OBVIOUS
    <2> QED
      BY <2>1, <2>2
  <1>5. FlagsTold({a, c}, n) = {t[2] : t \in {u \in {a, c} : (n \div 2 ^ u[1]) % 2 = 1}}
    BY DEF FlagsTold
  <1>6. PICK S : S = {u \in {a, c} : (n \div 2 ^ u[1]) % 2 = 1}
    OBVIOUS
  <1>7. (a \in S <=> "NUW" \in flags) /\ (c \in S <=> "NSW" \in flags) /\ S \subseteq {a, c}
    BY <1>2, <1>3, <1>4, <1>6
  <1>8. {t[2] : t \in S} = flags
    <2>1. ASSUME NEW f \in flags PROVE f \in {t[2] : t \in S}
      BY <2>1, <1>2, <1>7
    <2>2. ASSUME NEW t \in S PROVE t[2] \in flags
      BY <2>2, <1>2, <1>7
    <2> QED
      BY <2>1, <2>2
  <1> QED
    BY <1>1, <1>5, <1>6, <1>8

LEMMA ExactTold ==
    ASSUME NEW flags, flags \subseteq {"Exact"}, NEW n, n = IF "Exact" \in flags THEN 1 ELSE 0
    PROVE  FlagsTold({<<0, "Exact">>}, n) = flags
  <1>1. PICK a : a = <<0, "Exact">>
    OBVIOUS
  <1>2. a[1] = 0 /\ a[2] = "Exact"
    BY <1>1
  <1>3. (n \div 2 ^ 0) % 2 = 1 <=> "Exact" \in flags
    <2>1. n \div 2 ^ 0 = n
      BY PowersAre
    <2> QED
      BY <2>1
  <1>5. FlagsTold({a}, n) = {t[2] : t \in {u \in {a} : (n \div 2 ^ u[1]) % 2 = 1}}
    BY DEF FlagsTold
  <1>6. PICK S : S = {u \in {a} : (n \div 2 ^ u[1]) % 2 = 1}
    OBVIOUS
  <1>7. (a \in S <=> "Exact" \in flags) /\ S \subseteq {a}
    BY <1>2, <1>3, <1>6
  <1>8. {t[2] : t \in S} = flags
    <2>1. ASSUME NEW f \in flags PROVE f \in {t[2] : t \in S}
      BY <2>1, <1>2, <1>7
    <2>2. ASSUME NEW t \in S PROVE t[2] \in flags
      BY <2>2, <1>2, <1>7
    <2> QED
      BY <2>1, <2>2
  <1> QED
    BY <1>1, <1>5, <1>6, <1>8

LEMMA FlagsRead ==
    ASSUME NEW op \in DOMAIN GetEncodedBinaryOpcode, NEW flags,
           flags \subseteq (IF op \in OverflowingBinaryOperator THEN {"NUW", "NSW"}
                            ELSE IF op \in PossiblyExactOperator THEN {"Exact"} ELSE {})
    PROVE  FlagsTold(ToldOf(op), GetOptimizationFlags(op, flags)) = flags
  <1>1. CASE op \in {"Add", "Sub", "Mul", "Shl"}
    <2>1. GetOptimizationFlags(op, flags) =
            (IF "NSW" \in flags THEN 2 ^ 1 ELSE 0) + (IF "NUW" \in flags THEN 2 ^ 0 ELSE 0)
      BY <1>1 DEF GetOptimizationFlags, OverflowingBinaryOperator, Flag, OverflowingBinaryOperatorOptionalFlags
    <2>2. GetOptimizationFlags(op, flags) =
            (IF "NSW" \in flags THEN 2 ELSE 0) + (IF "NUW" \in flags THEN 1 ELSE 0)
      BY <2>1, PowersAre
    <2>3. flags \subseteq {"NUW", "NSW"}
      BY <1>1 DEF OverflowingBinaryOperator
    <2>4. ToldOf(op) = {<<0, "NUW">>, <<1, "NSW">>}
      BY <1>1 DEF ToldOf
    <2> QED
      BY <2>2, <2>3, <2>4, WrapsTold
  <1>2. CASE op \in {"UDiv", "SDiv", "LShr", "AShr"}
    <2>1. GetOptimizationFlags(op, flags) = (IF "Exact" \in flags THEN 2 ^ 0 ELSE 0)
      BY <1>2 DEF GetOptimizationFlags, OverflowingBinaryOperator, PossiblyExactOperator, Flag,
                  PossiblyExactOperatorOptionalFlags
    <2>2. GetOptimizationFlags(op, flags) = (IF "Exact" \in flags THEN 1 ELSE 0)
      BY <2>1, PowersAre
    <2>3. flags \subseteq {"Exact"}
      BY <1>2 DEF OverflowingBinaryOperator, PossiblyExactOperator
    <2>4. ToldOf(op) = {<<0, "Exact">>}
      BY <1>2 DEF ToldOf
    <2> QED
      BY <2>2, <2>3, <2>4, ExactTold
  <1>3. CASE op \notin {"Add", "Sub", "Mul", "Shl"} \cup {"UDiv", "SDiv", "LShr", "AShr"}
    <2>1. flags = {}
      BY <1>3 DEF OverflowingBinaryOperator, PossiblyExactOperator
    <2>2. ToldOf(op) = {}
      BY <1>3 DEF ToldOf
    <2>3. FlagsTold({}, GetOptimizationFlags(op, flags)) = {}
      BY DEF FlagsTold
    <2> QED
      BY <2>1, <2>2, <2>3
  <1> QED
    BY <1>1, <1>2, <1>3

FloatOperations == {"FAdd", "FSub", "FMul", "FDiv", "FRem"}

LEMMA OpcodeReads ==
    ASSUME NEW op \in DOMAIN GetEncodedBinaryOpcode
    PROVE  Meaning(IF op \in FloatOperations THEN FloatOps ELSE IntegerOps, GetEncodedBinaryOpcode[op]) = op
  <1>1. DOMAIN GetEncodedBinaryOpcode =
          {"Add", "FAdd", "Sub", "FSub", "Mul", "FMul", "UDiv", "FDiv", "SDiv", "URem", "FRem", "SRem",
           "Shl", "LShr", "AShr", "And", "Or", "Xor"}
    BY DEF GetEncodedBinaryOpcode
  <1>2. /\ GetEncodedBinaryOpcode["Add"] = 0 /\ GetEncodedBinaryOpcode["FAdd"] = 0
        /\ GetEncodedBinaryOpcode["Sub"] = 1 /\ GetEncodedBinaryOpcode["FSub"] = 1
        /\ GetEncodedBinaryOpcode["Mul"] = 2 /\ GetEncodedBinaryOpcode["FMul"] = 2
        /\ GetEncodedBinaryOpcode["UDiv"] = 3 /\ GetEncodedBinaryOpcode["FDiv"] = 4
        /\ GetEncodedBinaryOpcode["SDiv"] = 4 /\ GetEncodedBinaryOpcode["URem"] = 5
        /\ GetEncodedBinaryOpcode["FRem"] = 6 /\ GetEncodedBinaryOpcode["SRem"] = 6
        /\ GetEncodedBinaryOpcode["Shl"] = 7 /\ GetEncodedBinaryOpcode["LShr"] = 8
        /\ GetEncodedBinaryOpcode["AShr"] = 9 /\ GetEncodedBinaryOpcode["And"] = 10
        /\ GetEncodedBinaryOpcode["Or"] = 11 /\ GetEncodedBinaryOpcode["Xor"] = 12
    BY DEF GetEncodedBinaryOpcode, BinaryOpcodes
  <1>3. /\ Len(IntegerOps) = 13
        /\ IntegerOps[1] = "Add" /\ IntegerOps[2] = "Sub" /\ IntegerOps[3] = "Mul" /\ IntegerOps[4] = "UDiv"
        /\ IntegerOps[5] = "SDiv" /\ IntegerOps[6] = "URem" /\ IntegerOps[7] = "SRem" /\ IntegerOps[8] = "Shl"
        /\ IntegerOps[9] = "LShr" /\ IntegerOps[10] = "AShr" /\ IntegerOps[11] = "And"
        /\ IntegerOps[12] = "Or" /\ IntegerOps[13] = "Xor"
    BY DEF IntegerOps
  <1>4. /\ Len(FloatOps) = 7 /\ FloatOps[1] = "FAdd" /\ FloatOps[2] = "FSub" /\ FloatOps[3] = "FMul"
        /\ FloatOps[5] = "FDiv" /\ FloatOps[7] = "FRem"
    BY DEF FloatOps
  <1>5. \A n \in 0..12 : Meaning(IntegerOps, n) = IntegerOps[n + 1]
    BY <1>3 DEF Meaning, At
  <1>6. \A n \in 0..6 : Meaning(FloatOps, n) = FloatOps[n + 1]
    BY <1>4 DEF Meaning, At
  <1>7. CASE op \in FloatOperations
    <2>1. op \in {"FAdd", "FSub", "FMul", "FDiv", "FRem"}
      BY <1>7 DEF FloatOperations
    <2>2. Meaning(FloatOps, GetEncodedBinaryOpcode[op]) = op
      BY <2>1, <1>2, <1>4, <1>6
    <2> QED
      BY <1>7, <2>2
  <1>8. CASE op \notin FloatOperations
    <2>1. op \in {"Add", "Sub", "Mul", "UDiv", "SDiv", "URem", "SRem", "Shl", "LShr", "AShr", "And", "Or", "Xor"}
      BY <1>8, <1>1 DEF FloatOperations
    <2>2. Meaning(IntegerOps, GetEncodedBinaryOpcode[op]) = op
      BY <2>1, <1>2, <1>3, <1>5
    <2> QED
      BY <1>8, <2>2
  <1> QED
    BY <1>7, <1>8

LEMMA BinaryReads ==
    ASSUME NEW mod, NEW ty, NEW op, NEW flags, Operation(mod, ty, op, flags), NEW u, u.types = mod.types
    PROVE  BinaryMeaning(u, ty, GetEncodedBinaryOpcode[op], GetOptimizationFlags(op, flags)) = <<op, flags>>
  <1>1. isFloat(u, ty) <=> isFloat(mod, ty)
    BY DEF isFloat
  <1>2. /\ op \in DOMAIN GetEncodedBinaryOpcode
        /\ isFloat(mod, ty) <=> op \in FloatOperations
        /\ flags \subseteq (IF op \in OverflowingBinaryOperator THEN {"NUW", "NSW"}
                            ELSE IF op \in PossiblyExactOperator THEN {"Exact"} ELSE {})
    BY DEF Operation, FloatOperations
  <1>3. Meaning(IF isFloat(u, ty) THEN FloatOps ELSE IntegerOps, GetEncodedBinaryOpcode[op]) = op
    <2>1. Meaning(IF op \in FloatOperations THEN FloatOps ELSE IntegerOps, GetEncodedBinaryOpcode[op]) = op
      BY <1>2, OpcodeReads
    <2> QED
      BY <1>1, <1>2, <2>1
  <1>4. FlagsTold(ToldOf(op), GetOptimizationFlags(op, flags)) = flags
    BY <1>2, FlagsRead
  <1> QED
    BY <1>3, <1>4, BinaryMeaningIs

\* A constant by its parts.
Parts(ty, is, ops, lits, strs) == [ty |-> ty, is |-> is, ops |-> ops, lits |-> lits, strs |-> strs]
Signed(v) == [k \in DOMAIN v |-> FromSigned(v[k])]

\* What the reader makes of a record, kind by kind.
LEMMA IntegerOf ==
    ASSUME NEW u, NEW x, NameOfCode(x.code) \in {"INTEGER", "WIDE_INTEGER"}
    PROVE  ConstantOf(u, x) = Parts(Top(u).ty, NameOfCode(x.code), Empty, Signed(x.vals), Empty)
  BY DEF ConstantOf, NameOfCode, Parts, Signed, Empty, Map

LEMMA StringOf ==
    ASSUME NEW u, NEW x, NameOfCode(x.code) \in {"STRING", "CSTRING"}
    PROVE  ConstantOf(u, x) = Parts(Top(u).ty, "String", Empty, Empty,
                                    <<IF NameOfCode(x.code) = "STRING" THEN x.vals ELSE x.vals \o <<0>>>>)
  BY DEF ConstantOf, NameOfCode, Parts, Empty

LEMMA CastOf ==
    ASSUME NEW u, NEW x, NameOfCode(x.code) = "CE_CAST"
    PROVE  ConstantOf(u, x) = Parts(Top(u).ty, "CE_CAST", <<x.vals[3]>>, <<Meaning(Casts, x.vals[1])>>, Empty)
  BY DEF ConstantOf, NameOfCode, Parts, Empty

LEMMA BinaryOf ==
    ASSUME NEW u, NEW x, NameOfCode(x.code) = "CE_BINOP"
    PROVE  ConstantOf(u, x) = Parts(Top(u).ty, "CE_BINOP", <<x.vals[2], x.vals[3]>>,
                                    BinaryMeaning(u, Top(u).ty, x.vals[1], At(x.vals, 4, 0)), Empty)
  BY DEF ConstantOf, NameOfCode, Parts, Empty

LEMMA ElementOf ==
    ASSUME NEW u, NEW x, NameOfCode(x.code) \in {"CE_GEP", "CE_INBOUNDS_GEP"}
    PROVE  ConstantOf(u, x) = Parts(Top(u).ty, NameOfCode(x.code), Even(x.vals), Empty, Empty)
  BY DEF ConstantOf, NameOfCode, Parts, Empty

LEMMA ExtractOf ==
    ASSUME NEW u, NEW x, NameOfCode(x.code) = "CE_EXTRACTELT"
    PROVE  ConstantOf(u, x) = Parts(Top(u).ty, "CE_EXTRACTELT", From(x.vals, 2), Empty, Empty)
  BY DEF ConstantOf, NameOfCode, Parts, Empty

LEMMA ShuffleOf ==
    ASSUME NEW u, NEW x, NameOfCode(x.code) = "CE_SHUFVEC_EX"
    PROVE  ConstantOf(u, x) = Parts(Top(u).ty, "CE_SHUFFLEVEC", From(x.vals, 2), Empty, Empty)
  BY DEF ConstantOf, NameOfCode, Parts, Empty

LEMMA CompareOf ==
    ASSUME NEW u, NEW x, NameOfCode(x.code) = "CE_CMP"
    PROVE  ConstantOf(u, x) = Parts(Top(u).ty, "CE_CMP", <<x.vals[2], x.vals[3]>>, <<x.vals[4]>>, Empty)
  BY DEF ConstantOf, NameOfCode, Parts, Empty

LEMMA AddressOf ==
    ASSUME NEW u, NEW x, NameOfCode(x.code) = "BLOCKADDRESS"
    PROVE  ConstantOf(u, x) = Parts(Top(u).ty, "BLOCKADDRESS", <<x.vals[2]>>, <<x.vals[3]>>, Empty)
  BY DEF ConstantOf, NameOfCode, Parts, Empty

LEMMA AssemblyOf ==
    ASSUME NEW u, NEW x, NameOfCode(x.code) = "INLINEASM", NEW a, a = SubSeq(x.vals, 3, x.vals[2] + 2)
    PROVE  ConstantOf(u, x) = Parts(Top(u).ty, "INLINEASM", Empty, <<x.vals[1]>>,
                                    <<ToBytes(a), ToBytes(From(x.vals, Len(a) + 4))>>)
  BY DEF ConstantOf, NameOfCode, Parts, Empty

LEMMA NumbersOf ==
    ASSUME NEW u, NEW x, NameOfCode(x.code) \in {"FLOAT", "DATA"}
    PROVE  ConstantOf(u, x) = Parts(Top(u).ty, NameOfCode(x.code), Empty, x.vals, Empty)
  BY DEF ConstantOf, NameOfCode, Parts, Empty

PlainConstants == {"NULL", "UNDEF", "AGGREGATE", "CE_SELECT", "CE_INSERTELT", "CE_SHUFFLEVEC"}

LEMMA PlainOf ==
    ASSUME NEW u, NEW x, NameOfCode(x.code) \in PlainConstants
    PROVE  ConstantOf(u, x) = Parts(Top(u).ty, NameOfCode(x.code), x.vals, Empty, Empty)
  BY DEF ConstantOf, NameOfCode, Parts, Empty, PlainConstants

\* The types that come with operands.
LEMMA ToldCodesAre ==
    /\ ConstantsCodes.CE_CAST = 11 /\ ConstantsCodes.CE_GEP = 12 /\ ConstantsCodes.CE_EXTRACTELT = 14
    /\ ConstantsCodes.CE_CMP = 17 /\ ConstantsCodes.CE_SHUFVEC_EX = 19
    /\ ConstantsCodes.CE_INBOUNDS_GEP = 20 /\ ConstantsCodes.BLOCKADDRESS = 21
  BY DEF ConstantsCodes

ToldNothing ==
  {"NULL", "UNDEF", "INTEGER", "WIDE_INTEGER", "FLOAT", "AGGREGATE", "STRING", "CSTRING", "CE_BINOP",
   "CE_SELECT", "CE_INSERTELT", "CE_SHUFFLEVEC", "DATA", "INLINEASM"}
ToldSecond == {"CE_EXTRACTELT", "CE_SHUFVEC_EX", "CE_CMP", "BLOCKADDRESS"}

LEMMA ToldIsNone ==
    ASSUME NEW x, NEW is \in ToldNothing, x.code = ConstantsCodes[is]
    PROVE  ToldByConstant(x) = {}
  <1>1. x.code \in {2, 3, 4, 5, 6, 7, 8, 9, 10, 13, 15, 16, 22, 23}
    BY ConstantCodesAre DEF ToldNothing
  <1>2. /\ x.code # ConstantsCodes.CE_CAST
        /\ x.code \notin {ConstantsCodes.CE_GEP, ConstantsCodes.CE_INBOUNDS_GEP}
        /\ x.code \notin {ConstantsCodes.CE_EXTRACTELT, ConstantsCodes.CE_SHUFVEC_EX,
                          ConstantsCodes.CE_CMP, ConstantsCodes.BLOCKADDRESS}
    BY <1>1, ToldCodesAre
  <1> QED
    BY <1>2, Zenon DEF ToldByConstant

LEMMA ToldIsSecond ==
    ASSUME NEW x, NEW is \in ToldSecond, x.code = ConstantsCodes[is]
    PROVE  ToldByConstant(x) = {<<x.vals[2], x.vals[1]>>}
  <1>1. x.code \in {14, 19, 17, 21}
    BY ConstantCodesAre DEF ToldSecond
  <1> QED
    BY <1>1, ToldCodesAre DEF ToldByConstant

LEMMA ToldIsThird ==
    ASSUME NEW x, x.code = ConstantsCodes["CE_CAST"]
    PROVE  ToldByConstant(x) = {<<x.vals[3], x.vals[2]>>}
  <1>1. x.code = 11
    BY ConstantCodesAre
  <1> QED
    BY <1>1, ToldCodesAre DEF ToldByConstant

LEMMA ToldIsEvery ==
    ASSUME NEW x, NEW is \in {"CE_GEP", "CE_INBOUNDS_GEP"}, x.code = ConstantsCodes[is]
    PROVE  ToldByConstant(x) = {<<x.vals[2 * k], x.vals[2 * k - 1]>> : k \in 1..(Len(x.vals) \div 2)}
  <1>1. x.code \in {12, 20}
    BY ConstantCodesAre
  <1>2. x.code # ConstantsCodes.CE_CAST /\ x.code \in {ConstantsCodes.CE_GEP, ConstantsCodes.CE_INBOUNDS_GEP}
    BY <1>1, ToldCodesAre
  <1>3. /\ ~(x.code \in {ConstantsCodes.CE_EXTRACTELT, ConstantsCodes.CE_SHUFVEC_EX,
                          ConstantsCodes.CE_CMP, ConstantsCodes.BLOCKADDRESS})
    BY <1>1, ToldCodesAre
  <1> QED
    BY <1>2, <1>3, Zenon DEF ToldByConstant

\* Reading a constant gives it, and the types told with it are those of its operands.
Decoded(u, x, tys, C) == ConstantOf(u, x) = C /\ ToldRight(ToldByConstant(x), tys)

LEMMA NoneTold == ASSUME NEW tys PROVE ToldRight({}, tys)
  BY DEF ToldRight

LEMMA OneTold ==
    ASSUME NEW tys, NEW v, v < Len(tys)
    PROVE  ToldRight({<<v, TypeOf(tys, v)>>}, tys)
  <1>1. ASSUME NEW t \in {<<v, TypeOf(tys, v)>>} PROVE t[1] < Len(tys) /\ t[2] = TypeOf(tys, t[1])
    <2>1. PICK ty : ty = TypeOf(tys, v)
      OBVIOUS
    <2>2. t = <<v, ty>>
      BY <1>1, <2>1
    <2>3. t[1] = v /\ t[2] = ty
      BY <2>2, PairSeq
    <2> QED
      BY <2>1, <2>3
  <1> QED
    BY <1>1 DEF ToldRight

LEMMA IntegerReads ==
    ASSUME NEW mod, NEW tys, IsSeq(tys), NEW C, IsConstant(mod, tys, C), C.is \in {"INTEGER", "WIDE_INTEGER"},
           NEW u, u.types = mod.types, Top(u).ty = C.ty,
           NEW x, x.code = Code(tys, C), x.vals = Vals(tys, C)
    PROVE  Decoded(u, x, tys, C)
  <1>1. C = Parts(C.ty, C.is, Empty, C.lits, Empty) /\ C.lits \in Seq(Integers64)
    BY DEF IsConstant, Parts, Empty
  <1>2. PICK ls : ls = C.lits
    OBVIOUS
  <1>3. x.code = ConstantsCodes[C.is]
    BY DEF Code
  <1>4. x.vals = [k \in DOMAIN ls |-> emitSignedInt64(ls[k])]
    BY <1>2 DEF Vals, Map
  <1>5. NameOfCode(x.code) = C.is
    BY <1>3, ConstantNamed DEF ConstantNames
  <1>6. Signed(x.vals) = ls
    <2>1. DOMAIN x.vals = DOMAIN ls /\ DOMAIN ls = 1..Len(ls) /\ IsSeq(ls)
      BY <1>1, <1>2, <1>4, SeqIs
    <2>2. ls = [k \in 1..Len(ls) |-> ls[k]]
      BY <2>1 DEF IsSeq
    <2>3. ASSUME NEW k \in DOMAIN ls PROVE FromSigned(x.vals[k]) = ls[k]
      <3>1. ls[k] \in Integers64
        BY <1>1, <1>2, <2>1, <2>3, ElementOfSeq
      <3> QED
        BY <3>1, <1>4, <2>1, SignedReads
    <2> QED
      BY <2>1, <2>2, <2>3 DEF Signed
  <1>7. ConstantOf(u, x) = C
    BY <1>1, <1>2, <1>5, <1>6, IntegerOf
  <1>8. ToldByConstant(x) = {}
    BY <1>3, ToldIsNone DEF ToldNothing
  <1> QED
    BY <1>7, <1>8, NoneTold DEF Decoded

LEMMA FrontAndLast ==
    ASSUME NEW s, IsSeq(s), s # Empty
    PROVE  Front(s) \o <<Last(s)>> = s
  <1>1. PICK n : n = Len(s)
    OBVIOUS
  <1>2. n \in Nat /\ s = [k \in 1..n |-> s[k]]
    BY <1>1 DEF IsSeq
  <1>3. n # 0
    <2>1. CASE n = 0
      <3>1. IsSeq(Empty) /\ Len(Empty) = 0
        BY NoneSeq
      <3>3. IsSeq(s) /\ Len(s) = Len(Empty) /\ \A k \in 1..Len(s) : s[k] = Empty[k]
        BY <1>1, <2>1, <3>1
      <3>2. s = Empty
        BY <3>1, <3>3, SameSeq
      <3> QED
        BY <3>2
    <2> QED
      BY <2>1
  <1>4. PICK f, l : f = Front(s) /\ l = Last(s)
    OBVIOUS
  <1>5. f = [k \in 1..(n - 1) |-> s[k]]
    <2>1. Elements(s) = {s[k] : k \in 1..n} /\ s \in Seq(Elements(s))
      BY <1>1, SeqShape DEF Elements
    <2>2. f = SubSeq(s, 1, n - 1)
      BY <1>1, <1>4 DEF Front
    <2>3. n - 1 \in 0..n /\ n - 1 \in Nat
      BY <1>2, <1>3
    <2> QED
      BY <1>1, <1>2, <2>1, <2>2, <2>3, SubSeqProperties
  <1>6. IsSeq(f) /\ Len(f) = n - 1
    <2>1. n - 1 \in Nat /\ DOMAIN f = 1..(n - 1) /\ f = [k \in 1..(n - 1) |-> f[k]]
      BY <1>2, <1>3, <1>5
    <2> QED
      BY <2>1, TabulatedSeq
  <1>7. l = s[n]
    BY <1>1, <1>4 DEF Last
  <1>8. PICK t : t = <<l>>
    OBVIOUS
  <1>9. IsSeq(t) /\ Len(t) = 1 /\ t[1] = l
    BY <1>8, OneSeq
  <1>0. IsSeq(f) /\ IsSeq(t)
    BY <1>6, <1>9
  <1>10. IsSeq(f \o t)
    BY <1>0, JoinShape
  <1>14. Len(f \o t) = Len(f) + Len(t)
    BY <1>0, JoinShape
  <1>15. \A k \in 1..Len(f) : (f \o t)[k] = f[k]
    BY <1>0, JoinShape
  <1>16. \A k \in 1..Len(t) : (f \o t)[Len(f) + k] = t[k]
    BY <1>0, JoinShape
  <1>11. Len(f \o t) = Len(s)
    BY <1>1, <1>2, <1>6, <1>9, <1>14
  <1>12. \A k \in 1..Len(s) : (f \o t)[k] = s[k]
    <2>1. SUFFICES ASSUME NEW k \in 1..n PROVE (f \o t)[k] = s[k]
      BY <1>1
    <2>2. CASE k < n
      <3>1. k \in 1..(n - 1) /\ k \in 1..Len(f)
        BY <2>2, <1>2, <1>6
      <3>2. f[k] = s[k]
        BY <3>1, <1>5
      <3>3. (f \o t)[k] = f[k]
        BY <3>1, <1>15, Zenon
      <3> QED
        BY <3>2, <3>3
    <2>3. CASE k = n
      <3>1. 1 \in 1..Len(t) /\ Len(f) + 1 = n
        BY <1>2, <1>6, <1>9
      <3>2. (f \o t)[n] = l
        BY <3>1, <1>9, <1>16
      <3> QED
        BY <2>3, <3>2, <1>7
    <2>4. k < n \/ k = n
      BY <1>2
    <2> QED
      BY <2>2, <2>3, <2>4, Zenon
  <1>13. f \o t = s
    BY <1>10, <1>11, <1>12, SameSeq
  <1> QED
    BY <1>4, <1>8, <1>13

LEMMA StringReads ==
    ASSUME NEW mod, NEW tys, IsSeq(tys), NEW C, IsConstant(mod, tys, C), C.is = "String",
           NEW u, u.types = mod.types, Top(u).ty = C.ty,
           NEW x, x.code = Code(tys, C), x.vals = Vals(tys, C)
    PROVE  Decoded(u, x, tys, C)
  <1>1. PICK s : s = C.strs[1]
    OBVIOUS
  <1>2. C = Parts(C.ty, "String", Empty, Empty, <<s>>) /\ s \in Texts
    BY <1>1 DEF IsConstant, Parts, Empty
  <1>3. x.code = (IF isCString(s) THEN ConstantsCodes["CSTRING"] ELSE ConstantsCodes["STRING"])
    BY <1>1 DEF Code
  <1>4. x.vals = IF isCString(s) THEN Front(s) ELSE s
    BY <1>1 DEF Vals, StringBytes
  <1>5. CASE isCString(s)
    <2>1. NameOfCode(x.code) = "CSTRING" /\ x.code = ConstantsCodes["CSTRING"]
      BY <1>3, <1>5, ConstantNamed DEF ConstantNames
    <2>2. Front(s) \o <<0>> = s
      <3>1. s \in Seq(0..255) /\ s # <<>> /\ Last(s) = 0
        BY <1>2, <1>5 DEF Texts, isCString
      <3>2. IsSeq(s)
        BY <3>1, SeqIs
      <3>3. s # Empty /\ Last(s) = 0
        BY <3>1 DEF Empty
      <3> QED
        BY <3>2, <3>3, FrontAndLast
    <2>3. ConstantOf(u, x) = Parts(Top(u).ty, "String", Empty, Empty, <<x.vals \o <<0>>>>)
      BY <2>1, StringOf
    <2>4. ToldByConstant(x) = {}
      BY <2>1, ToldIsNone DEF ToldNothing
    <2> QED
      BY <1>2, <1>4, <1>5, <2>2, <2>3, <2>4, NoneTold DEF Decoded
  <1>6. CASE ~isCString(s)
    <2>1. NameOfCode(x.code) = "STRING" /\ x.code = ConstantsCodes["STRING"]
      BY <1>3, <1>6, ConstantNamed DEF ConstantNames
    <2>3. ConstantOf(u, x) = Parts(Top(u).ty, "String", Empty, Empty, <<x.vals>>)
      BY <2>1, StringOf
    <2>4. ToldByConstant(x) = {}
      BY <2>1, ToldIsNone DEF ToldNothing
    <2> QED
      BY <1>2, <1>4, <1>6, <2>3, <2>4, NoneTold DEF Decoded
  <1> QED
    BY <1>5, <1>6

LEMMA TypedIs == ASSUME NEW tys, NEW v PROVE Typed(tys, v) = <<TypeOf(tys, v), v>>
  BY DEF Typed

\* The operands with their types.
WithTypes(tys, ops) == FlattenSeq([k \in DOMAIN ops |-> Typed(tys, ops[k])])

LEMMA WithTypesIs ==
    ASSUME NEW tys, NEW ops
    PROVE  Flat(LAMBDA v : Typed(tys, v), ops) = WithTypes(tys, ops)
  BY DEF Flat, Map, WithTypes

LEMMA WithTypesShape ==
    ASSUME NEW tys, NEW ops, IsSeq(ops)
    PROVE  /\ IsSeq(WithTypes(tys, ops)) /\ Len(WithTypes(tys, ops)) = 2 * Len(ops)
           /\ \A k \in 1..Len(ops) : /\ WithTypes(tys, ops)[2 * k - 1] = TypeOf(tys, ops[k])
                                     /\ WithTypes(tys, ops)[2 * k] = ops[k]
  <1>1. PICK ss : ss = [k \in DOMAIN ops |-> Typed(tys, ops[k])]
    OBVIOUS
  <1>2. DOMAIN ops = 1..Len(ops) /\ Len(ops) \in Nat
    BY SeqShape
  <1>3. IsSeq(ss) /\ Len(ss) = Len(ops)
    BY <1>1, <1>2, MapShape
  <1>4. \A k \in 1..Len(ss) : IsSeq(ss[k]) /\ Len(ss[k]) = 2 /\ ss[k][1] = TypeOf(tys, ops[k]) /\ ss[k][2] = ops[k]
    <2>1. SUFFICES ASSUME NEW k \in 1..Len(ss)
                   PROVE  IsSeq(ss[k]) /\ Len(ss[k]) = 2 /\ ss[k][1] = TypeOf(tys, ops[k]) /\ ss[k][2] = ops[k]
      OBVIOUS
    <2>2. ss[k] = <<TypeOf(tys, ops[k]), ops[k]>>
      BY <1>1, <1>2, <1>3, TypedIs
    <2> QED
      BY <2>2, PairSeq
  <1>5. WithTypes(tys, ops) = FlattenSeq(ss)
    BY <1>1 DEF WithTypes
  <1>6. /\ IsSeq(FlattenSeq(ss)) /\ Len(FlattenSeq(ss)) = 2 * Len(ss)
        /\ \A k \in 1..Len(ss) : FlattenSeq(ss)[2 * k - 1] = ss[k][1] /\ FlattenSeq(ss)[2 * k] = ss[k][2]
    BY <1>3, <1>4, PairsJoined
  <1> QED
    BY <1>3, <1>4, <1>5, <1>6

\* A list made of two, and of one and an element.
Joins(g, s, t) ==
  /\ IsSeq(g) /\ Len(g) = Len(s) + Len(t)
  /\ \A k \in 1..Len(s) : g[k] = s[k]
  /\ \A k \in 1..Len(t) : g[Len(s) + k] = t[k]

LEMMA JoinIs ==
    ASSUME NEW s, NEW t, IsSeq(s), IsSeq(t)
    PROVE  Joins(s \o t, s, t)
  <1>0. IsSeq(s) /\ IsSeq(t)
    OBVIOUS
  <1>1. IsSeq(s \o t)
    BY <1>0, JoinShape
  <1>2. Len(s \o t) = Len(s) + Len(t)
    BY <1>0, JoinShape
  <1>3. \A k \in 1..Len(s) : (s \o t)[k] = s[k]
    BY <1>0, JoinShape
  <1>4. \A k \in 1..Len(t) : (s \o t)[Len(s) + k] = t[k]
    BY <1>0, JoinShape
  <1> QED
    BY <1>1, <1>2, <1>3, <1>4, Zenon DEF Joins

AppendsOne(g, o, e) ==
  IsSeq(g) /\ Len(g) = Len(o) + 1 /\ g[Len(o) + 1] = e /\ \A k \in 1..Len(o) : g[k] = o[k]

LEMMA AppendIs ==
    ASSUME NEW o, IsSeq(o), NEW e
    PROVE  AppendsOne(Append(o, e), o, e) /\ Append(o, e) = o \o <<e>>
  <1>0. IsSeq(o)
    OBVIOUS
  <1>1. IsSeq(Append(o, e))
    BY <1>0, AppendShape
  <1>2. Len(Append(o, e)) = Len(o) + 1
    BY <1>0, AppendShape
  <1>3. Append(o, e)[Len(o) + 1] = e
    BY <1>0, AppendShape
  <1>4. \A k \in 1..Len(o) : Append(o, e)[k] = o[k]
    BY <1>0, AppendShape
  <1>5. Append(o, e) = o \o <<e>>
    BY <1>0, AppendShape
  <1> QED
    BY <1>1, <1>2, <1>3, <1>4, <1>5, Zenon DEF AppendsOne

Third(t, a, s) == IsSeq(t) /\ Len(t) = 3 /\ t[1] = a /\ t[2] = s[1] /\ t[3] = s[2]

LEMMA ThirdSeq ==
    ASSUME NEW a, NEW s, IsSeq(s), Len(s) = 2
    PROVE  Third(<<a>> \o s, a, s)
  <1>0. PICK t : t = <<a>> \o s
    OBVIOUS
  <1>1. PICK b : b = <<a>>
    OBVIOUS
  <1>2. IsSeq(b) /\ Len(b) = 1 /\ b[1] = a
    BY <1>1, OneSeq
  <1>3. Joins(b \o s, b, s)
    BY <1>2, JoinIs
  <1>4. Joins(t, b, s)
    BY <1>0, <1>1, <1>3
  <1>5. 1 \in 1..Len(b) /\ 1 \in 1..Len(s) /\ 2 \in 1..Len(s)
    BY <1>2
  <1>6. IsSeq(t) /\ Len(t) = 3
    BY <1>2, <1>4 DEF Joins
  <1>7. t[1] = a
    BY <1>2, <1>4, <1>5 DEF Joins
  <1>8. t[Len(b) + 1] = s[1] /\ t[Len(b) + 2] = s[2]
    BY <1>4, <1>5 DEF Joins
  <1>9. Third(t, a, s)
    BY <1>2, <1>6, <1>7, <1>8 DEF Third
  <1> QED
    BY <1>0, <1>9

LEMMA WithTypeOne ==
    ASSUME NEW tys, NEW ops, IsSeq(ops), Len(ops) = 1, NEW w, w = WithTypes(tys, ops)
    PROVE  IsSeq(w) /\ Len(w) = 2 /\ w[1] = TypeOf(tys, ops[1]) /\ w[2] = ops[1]
  <1>0. IsSeq(ops)
    OBVIOUS
  <1>1. IsSeq(WithTypes(tys, ops))
    BY <1>0, WithTypesShape
  <1>2. Len(WithTypes(tys, ops)) = 2 * Len(ops)
    BY <1>0, WithTypesShape
  <1>3. \A k \in 1..Len(ops) : WithTypes(tys, ops)[2 * k - 1] = TypeOf(tys, ops[k])
    BY <1>0, WithTypesShape
  <1>4. \A k \in 1..Len(ops) : WithTypes(tys, ops)[2 * k] = ops[k]
    BY <1>0, WithTypesShape
  <1>5. 1 \in 1..Len(ops) /\ 2 * 1 - 1 = 1 /\ 2 * 1 = 2
    OBVIOUS
  <1>6. w[2 * 1 - 1] = TypeOf(tys, ops[1])
    BY <1>3, <1>5
  <1>7. w[2 * 1] = ops[1]
    BY <1>4, <1>5
  <1> QED
    BY <1>1, <1>2, <1>5, <1>6, <1>7

LEMMA CastConstantReads ==
    ASSUME NEW mod, NEW tys, IsSeq(tys), NEW C, IsConstant(mod, tys, C), C.is = "CE_CAST",
           NEW u, u.types = mod.types, Top(u).ty = C.ty,
           NEW x, x.code = Code(tys, C), x.vals = Vals(tys, C)
    PROVE  Decoded(u, x, tys, C)
  <1>1. PICK o, c : o = C.ops[1] /\ c = C.lits[1]
    OBVIOUS
  <1>2. /\ C = Parts(C.ty, "CE_CAST", <<o>>, <<c>>, Empty) /\ o \in 0..(Len(tys) - 1)
        /\ c \in DOMAIN GetEncodedCastOpcode
    BY <1>1 DEF IsConstant, Parts, Empty
  <1>3. x.code = ConstantsCodes["CE_CAST"]
    BY DEF Code
  <1>4. C.ops = <<o>>
    BY <1>2 DEF Parts
  <1>5. x.vals = <<GetEncodedCastOpcode[c]>> \o WithTypes(tys, C.ops)
    BY <1>1, WithTypesIs DEF Vals
  <1>6. PICK w, v : w = WithTypes(tys, C.ops) /\ v = x.vals
    OBVIOUS
  <1>7. IsSeq(w) /\ Len(w) = 2 /\ w[1] = TypeOf(tys, o) /\ w[2] = o
    <2>1. IsSeq(C.ops) /\ Len(C.ops) = 1 /\ C.ops[1] = o
      BY <1>4, OneSeq
    <2>2. IsSeq(w) /\ Len(w) = 2 /\ w[1] = TypeOf(tys, C.ops[1]) /\ w[2] = C.ops[1]
      BY <1>6, <2>1, WithTypeOne
    <2> QED
      BY <2>1, <2>2
  <1>8. v[1] = GetEncodedCastOpcode[c] /\ v[2] = TypeOf(tys, o) /\ v[3] = o
    <2>1. Third(<<GetEncodedCastOpcode[c]>> \o w, GetEncodedCastOpcode[c], w)
      BY <1>7, ThirdSeq
    <2>2. Third(v, GetEncodedCastOpcode[c], w)
      BY <1>5, <1>6, <2>1
    <2> QED
      BY <1>7, <2>2 DEF Third
  <1>9. NameOfCode(x.code) = "CE_CAST"
    BY <1>3, ConstantNamed DEF ConstantNames
  <1>10. ConstantOf(u, x) = Parts(Top(u).ty, "CE_CAST", <<v[3]>>, <<Meaning(Casts, v[1])>>, Empty)
    BY <1>6, <1>9, CastOf
  <1>11. Meaning(Casts, v[1]) = c
    BY <1>2, <1>8, CastReads
  <1>12. ConstantOf(u, x) = C
    BY <1>2, <1>8, <1>10, <1>11
  <1>13. ToldByConstant(x) = {<<o, TypeOf(tys, o)>>}
    BY <1>3, <1>6, <1>8, ToldIsThird
  <1>14. o < Len(tys)
    BY <1>2 DEF IsSeq
  <1> QED
    BY <1>12, <1>13, <1>14, OneTold DEF Decoded

\* Two operands after a number, and flags if there are any.
Flagged(v, a, ops, flags) == v[1] = a /\ v[2] = ops[1] /\ v[3] = ops[2] /\ At(v, 4, 0) = flags

LEMMA FlagsAt ==
    ASSUME NEW a, NEW ops, IsSeq(ops), Len(ops) = 2, NEW flags
    PROVE  Flagged(<<a>> \o ops \o One(flags # 0, flags), a, ops, flags)
  <1>7. PICK v : v = <<a>> \o ops \o One(flags # 0, flags)
    OBVIOUS
  <1>1. PICK t : t = <<a>> \o ops
    OBVIOUS
  <1>0. IsSeq(ops) /\ Len(ops) = 2
    OBVIOUS
  <1>2. IsSeq(t) /\ Len(t) = 3 /\ t[1] = a /\ t[2] = ops[1] /\ t[3] = ops[2]
    <2>1. Third(<<a>> \o ops, a, ops)
      BY <1>0, ThirdSeq
    <2>2. Third(t, a, ops)
      BY <1>1, <2>1
    <2> QED
      BY <2>2 DEF Third
  <1>3. CASE flags = 0
    <2>1. v = t \o Empty
      BY <1>1, <1>3, <1>7 DEF One, Empty
    <2>2. v = t
      BY <2>1, <1>2, NoneJoined
    <2>3. Len(v) = 3 /\ v[1] = a /\ v[2] = ops[1] /\ v[3] = ops[2]
      BY <2>2, <1>2
    <2> QED
      BY <2>3, <1>3, <1>7 DEF At, Flagged
  <1>4. CASE flags # 0
    <2>1. v = t \o <<flags>>
      BY <1>1, <1>4, <1>7 DEF One
    <2>2. AppendsOne(v, t, flags)
      <3>1. AppendsOne(Append(t, flags), t, flags) /\ Append(t, flags) = t \o <<flags>>
        BY <1>2, AppendIs
      <3> QED
        BY <2>1, <3>1
    <2>3. Len(v) = 4 /\ v[1] = a /\ v[2] = ops[1] /\ v[3] = ops[2] /\ v[4] = flags
      BY <2>2, <1>2 DEF AppendsOne
    <2> QED
      BY <2>3, <1>7 DEF At, Flagged
  <1> QED
    BY <1>3, <1>4

LEMMA BinaryConstantReads ==
    ASSUME NEW mod, NEW tys, IsSeq(tys), NEW C, IsConstant(mod, tys, C), C.is = "CE_BINOP",
           NEW u, u.types = mod.types, Top(u).ty = C.ty,
           NEW x, x.code = Code(tys, C), x.vals = Vals(tys, C)
    PROVE  Decoded(u, x, tys, C)
  <1>1. PICK o, p, c, fs : o = C.ops[1] /\ p = C.ops[2] /\ c = C.lits[1] /\ fs = C.lits[2]
    OBVIOUS
  <1>2. C = Parts(C.ty, "CE_BINOP", <<o, p>>, <<c, fs>>, Empty) /\ Operation(mod, C.ty, c, fs)
    BY <1>1 DEF IsConstant, Parts, Empty
  <1>3. x.code = ConstantsCodes["CE_BINOP"]
    BY DEF Code
  <1>4. C.ops = <<o, p>>
    BY <1>2 DEF Parts
  <1>5. PICK n, v, a : n = GetOptimizationFlags(c, fs) /\ v = x.vals /\ a = GetEncodedBinaryOpcode[c]
    OBVIOUS
  <1>6. v = <<a>> \o C.ops \o One(n # 0, n)
    BY <1>1, <1>5 DEF Vals
  <1>7. IsSeq(C.ops) /\ Len(C.ops) = 2 /\ C.ops[1] = o /\ C.ops[2] = p
    BY <1>4, PairSeq
  <1>8. v[1] = a /\ v[2] = o /\ v[3] = p /\ At(v, 4, 0) = n
    <2>1. Flagged(<<a>> \o C.ops \o One(n # 0, n), a, C.ops, n)
      BY <1>7, FlagsAt
    <2>2. Flagged(v, a, C.ops, n)
      BY <1>6, <2>1
    <2> QED
      BY <1>7, <2>2 DEF Flagged
  <1>9. NameOfCode(x.code) = "CE_BINOP"
    BY <1>3, ConstantNamed DEF ConstantNames
  <1>10. ConstantOf(u, x) = Parts(Top(u).ty, "CE_BINOP", <<v[2], v[3]>>,
                                  BinaryMeaning(u, Top(u).ty, v[1], At(v, 4, 0)), Empty)
    BY <1>5, <1>9, BinaryOf
  <1>11. BinaryMeaning(u, C.ty, a, n) = <<c, fs>>
    BY <1>2, <1>5, BinaryReads
  <1>12. ConstantOf(u, x) = C
    BY <1>2, <1>8, <1>10, <1>11
  <1>13. ToldByConstant(x) = {}
    BY <1>3, ToldIsNone DEF ToldNothing
  <1> QED
    BY <1>12, <1>13, NoneTold DEF Decoded

LEMMA ElementConstantReads ==
    ASSUME NEW mod, NEW tys, IsSeq(tys), NEW C, IsConstant(mod, tys, C), C.is \in {"CE_GEP", "CE_INBOUNDS_GEP"},
           NEW u, u.types = mod.types, Top(u).ty = C.ty,
           NEW x, x.code = Code(tys, C), x.vals = Vals(tys, C)
    PROVE  Decoded(u, x, tys, C)
  <1>1. PICK os : os = C.ops
    OBVIOUS
  <1>2. C = Parts(C.ty, C.is, os, Empty, Empty) /\ os \in Seq(0..(Len(tys) - 1))
    BY <1>1 DEF IsConstant, Parts, Empty
  <1>3. x.code = ConstantsCodes[C.is]
    BY DEF Code
  <1>4. PICK v : v = x.vals
    OBVIOUS
  <1>5. v = WithTypes(tys, os)
    BY <1>1, <1>4, WithTypesIs DEF Vals
  <1>6. IsSeq(os) /\ Len(os) \in Nat
    BY <1>2, SeqIs
  <1>7. Len(v) = 2 * Len(os) /\ \A k \in 1..Len(os) : v[2 * k - 1] = TypeOf(tys, os[k]) /\ v[2 * k] = os[k]
    BY <1>5, <1>6, WithTypesShape
  <1>8. Len(v) \div 2 = Len(os)
    BY <1>6, <1>7
  <1>9. Even(v) = os
    <2>1. Even(v) = [k \in 1..Len(os) |-> v[2 * k]]
      BY <1>8 DEF Even
    <2>2. os = [k \in 1..Len(os) |-> os[k]]
      BY <1>6 DEF IsSeq
    <2> QED
      BY <2>1, <2>2, <1>7
  <1>10. NameOfCode(x.code) = C.is
    BY <1>3, ConstantNamed DEF ConstantNames
  <1>11. ConstantOf(u, x) = C
    BY <1>2, <1>4, <1>9, <1>10, ElementOf
  <1>12. ToldByConstant(x) = {<<v[2 * k], v[2 * k - 1]>> : k \in 1..Len(os)}
    <2>1. PICK is \in {"CE_GEP", "CE_INBOUNDS_GEP"} : is = C.is
      OBVIOUS
    <2>2. x.code = ConstantsCodes[is]
      BY <1>3, <2>1
    <2>3. ToldByConstant(x) = {<<x.vals[2 * k], x.vals[2 * k - 1]>> : k \in 1..(Len(x.vals) \div 2)}
      BY <2>2, ToldIsEvery
    <2> QED
      BY <1>4, <1>8, <2>3
  <1>13. ToldRight(ToldByConstant(x), tys)
    <2>1. SUFFICES ASSUME NEW t \in ToldByConstant(x) PROVE t[1] < Len(tys) /\ t[2] = TypeOf(tys, t[1])
      BY DEF ToldRight
    <2>2. PICK k \in 1..Len(os) : t = <<v[2 * k], v[2 * k - 1]>>
      BY <1>12
    <2>3. PICK o : o = os[k]
      OBVIOUS
    <2>4. t = <<o, TypeOf(tys, o)>>
      BY <1>7, <2>2, <2>3
    <2>5. t[1] = o /\ t[2] = TypeOf(tys, o)
      BY <2>4, PairSeq
    <2>6. o \in 0..(Len(tys) - 1)
      BY <1>2, <2>3, ElementOfSeq
    <2> QED
      BY <2>5, <2>6 DEF IsSeq
  <1> QED
    BY <1>11, <1>13 DEF Decoded

\* The type of the first operand and then the operands.
Before(v, a, ops) == v[1] = a /\ v[2] = ops[1] /\ From(v, 2) = ops

LEMMA TypeBefore ==
    ASSUME NEW a, NEW ops, IsSeq(ops), Len(ops) >= 1
    PROVE  Before(<<a>> \o ops, a, ops)
  <1>0. PICK v : v = <<a>> \o ops
    OBVIOUS
  <1>1. (<<a>> \o ops)[1] = a /\ From(<<a>> \o ops, 2) = ops
    BY FromSecond
  <1>2. PICK b : b = <<a>>
    OBVIOUS
  <1>3. IsSeq(b) /\ Len(b) = 1
    BY <1>2, OneSeq
  <1>4. Joins(b \o ops, b, ops)
    BY <1>3, JoinIs
  <1>5. 1 \in 1..Len(ops)
    BY DEF IsSeq
  <1>6. v = b \o ops
    BY <1>0, <1>2
  <1>7. v[2] = ops[1]
    <2>1. Joins(v, b, ops)
      BY <1>4, <1>6
    <2>2. v[Len(b) + 1] = ops[1]
      BY <2>1, <1>5 DEF Joins
    <2> QED
      BY <1>3, <2>2
  <1>8. Before(v, a, ops)
    BY <1>0, <1>1, <1>7 DEF Before
  <1> QED
    BY <1>0, <1>8

LEMMA ExtractConstantReads ==
    ASSUME NEW mod, NEW tys, IsSeq(tys), NEW C, IsConstant(mod, tys, C), C.is = "CE_EXTRACTELT",
           NEW u, u.types = mod.types, Top(u).ty = C.ty,
           NEW x, x.code = Code(tys, C), x.vals = Vals(tys, C)
    PROVE  Decoded(u, x, tys, C)
  <1>1. PICK o, p : o = C.ops[1] /\ p = C.ops[2]
    OBVIOUS
  <1>2. C = Parts(C.ty, "CE_EXTRACTELT", <<o, p>>, Empty, Empty) /\ o \in 0..(Len(tys) - 1)
    BY <1>1 DEF IsConstant, Parts, Empty
  <1>3. x.code = ConstantsCodes["CE_EXTRACTELT"]
    BY DEF Code
  <1>4. C.ops = <<o, p>>
    BY <1>2 DEF Parts
  <1>5. PICK v, os : v = x.vals /\ os = C.ops
    OBVIOUS
  <1>6. v = <<TypeOf(tys, o)>> \o os
    BY <1>1, <1>5 DEF Vals
  <1>7. IsSeq(os) /\ Len(os) = 2 /\ os[1] = o
    BY <1>4, <1>5, PairSeq
  <1>13. Len(os) >= 1
    BY <1>7
  <1>8. v[1] = TypeOf(tys, o) /\ v[2] = o /\ From(v, 2) = os
    <2>1. Before(<<TypeOf(tys, o)>> \o os, TypeOf(tys, o), os)
      BY <1>7, <1>13, TypeBefore
    <2>2. Before(v, TypeOf(tys, o), os)
      BY <1>6, <2>1
    <2> QED
      BY <1>7, <2>2 DEF Before
  <1>9. NameOfCode(x.code) = "CE_EXTRACTELT"
    BY <1>3, ConstantNamed DEF ConstantNames
  <1>10. ConstantOf(u, x) = C
    BY <1>2, <1>4, <1>5, <1>8, <1>9, ExtractOf
  <1>11. ToldByConstant(x) = {<<o, TypeOf(tys, o)>>}
    BY <1>3, <1>5, <1>8, ToldIsSecond DEF ToldSecond
  <1>12. o < Len(tys)
    BY <1>2 DEF IsSeq
  <1> QED
    BY <1>10, <1>11, <1>12, OneTold DEF Decoded

LEMMA ShuffleConstantReads ==
    ASSUME NEW mod, NEW tys, IsSeq(tys), NEW C, IsConstant(mod, tys, C), C.is = "CE_SHUFFLEVEC",
           NEW u, u.types = mod.types, Top(u).ty = C.ty,
           NEW x, x.code = Code(tys, C), x.vals = Vals(tys, C)
    PROVE  Decoded(u, x, tys, C)
  <1>1. PICK o, p, m, v, os : o = C.ops[1] /\ p = C.ops[2] /\ m = C.ops[3] /\ v = x.vals /\ os = C.ops
    OBVIOUS
  <1>2. C = Parts(C.ty, "CE_SHUFFLEVEC", <<o, p, m>>, Empty, Empty) /\ o \in 0..(Len(tys) - 1)
    BY <1>1 DEF IsConstant, Parts, Empty
  <1>3. os = <<o, p, m>> /\ C = Parts(C.ty, "CE_SHUFFLEVEC", os, Empty, Empty)
    BY <1>1, <1>2 DEF Parts
  <1>4. IsSeq(os) /\ Len(os) = 3 /\ os[1] = o
    BY <1>3, ThreeSeq
  <1>5. o < Len(tys)
    BY <1>2 DEF IsSeq
  <1>6. CASE SameShape(tys, C)
    <2>1. x.code = ConstantsCodes["CE_SHUFFLEVEC"]
      BY <1>6 DEF Code
    <2>2. v = Empty \o os
      BY <1>1, <1>6 DEF Vals, One, Empty
    <2>3. v = os
      BY <2>2, <1>4, NoneJoined
    <2>4. NameOfCode(x.code) = "CE_SHUFFLEVEC"
      BY <2>1, ConstantNamed DEF ConstantNames
    <2>5. ConstantOf(u, x) = C
      BY <1>1, <1>3, <2>3, <2>4, PlainOf DEF PlainConstants
    <2>6. ToldByConstant(x) = {}
      BY <2>1, ToldIsNone DEF ToldNothing
    <2> QED
      BY <2>5, <2>6, NoneTold DEF Decoded
  <1>7. CASE ~SameShape(tys, C)
    <2>1. x.code = ConstantsCodes["CE_SHUFVEC_EX"]
      BY <1>7 DEF Code
    <2>2. v = <<TypeOf(tys, o)>> \o os
      BY <1>1, <1>7 DEF Vals, One
    <2>7. Len(os) >= 1
      BY <1>4
    <2>3. v[1] = TypeOf(tys, o) /\ v[2] = o /\ From(v, 2) = os
      <3>1. Before(<<TypeOf(tys, o)>> \o os, TypeOf(tys, o), os)
        BY <1>4, <2>7, TypeBefore
      <3>2. Before(v, TypeOf(tys, o), os)
        BY <2>2, <3>1
      <3> QED
        BY <1>4, <3>2 DEF Before
    <2>4. NameOfCode(x.code) = "CE_SHUFVEC_EX"
      BY <2>1, ConstantNamed DEF ConstantNames
    <2>5. ConstantOf(u, x) = C
      BY <1>1, <1>3, <2>3, <2>4, ShuffleOf
    <2>6. ToldByConstant(x) = {<<o, TypeOf(tys, o)>>}
      BY <1>1, <2>1, <2>3, ToldIsSecond DEF ToldSecond
    <2> QED
      BY <1>5, <2>5, <2>6, OneTold DEF Decoded
  <1> QED
    BY <1>6, <1>7

LEMMA CompareConstantReads ==
    ASSUME NEW mod, NEW tys, IsSeq(tys), NEW C, IsConstant(mod, tys, C), C.is = "CE_CMP",
           NEW u, u.types = mod.types, Top(u).ty = C.ty,
           NEW x, x.code = Code(tys, C), x.vals = Vals(tys, C)
    PROVE  Decoded(u, x, tys, C)
  <1>1. PICK o, p, c, v, os : o = C.ops[1] /\ p = C.ops[2] /\ c = C.lits[1] /\ v = x.vals /\ os = C.ops
    OBVIOUS
  <1>2. C = Parts(C.ty, "CE_CMP", <<o, p>>, <<c>>, Empty) /\ o \in 0..(Len(tys) - 1)
    BY <1>1 DEF IsConstant, Parts, Empty
  <1>3. os = <<o, p>> /\ C.lits = <<c>>
    BY <1>1, <1>2 DEF Parts
  <1>4. IsSeq(os) /\ Len(os) = 2 /\ os[1] = o /\ os[2] = p
    BY <1>3, PairSeq
  <1>5. o < Len(tys)
    BY <1>2 DEF IsSeq
  <1>6. x.code = ConstantsCodes["CE_CMP"]
    BY DEF Code
  <1>7. v = <<TypeOf(tys, o)>> \o os \o <<c>>
    BY <1>1, <1>3 DEF Vals
  <1>8. PICK t : t = <<TypeOf(tys, o)>> \o os
    OBVIOUS
  <1>9. IsSeq(t) /\ Len(t) = 3 /\ t[1] = TypeOf(tys, o) /\ t[2] = o /\ t[3] = p
    <2>1. Third(<<TypeOf(tys, o)>> \o os, TypeOf(tys, o), os)
      BY <1>4, ThirdSeq
    <2>2. Third(t, TypeOf(tys, o), os)
      BY <1>8, <2>1
    <2> QED
      BY <1>4, <2>2 DEF Third
  <1>10. AppendsOne(v, t, c)
    <2>1. AppendsOne(Append(t, c), t, c) /\ Append(t, c) = t \o <<c>>
      BY <1>9, AppendIs
    <2> QED
      BY <1>7, <1>8, <2>1
  <1>13. v[1] = TypeOf(tys, o) /\ v[2] = o /\ v[3] = p /\ v[4] = c
    BY <1>9, <1>10 DEF AppendsOne
  <1>14. NameOfCode(x.code) = "CE_CMP"
    BY <1>6, ConstantNamed DEF ConstantNames
  <1>15. ConstantOf(u, x) = C
    BY <1>1, <1>2, <1>13, <1>14, CompareOf
  <1>16. ToldByConstant(x) = {<<o, TypeOf(tys, o)>>}
    BY <1>1, <1>6, <1>13, ToldIsSecond DEF ToldSecond
  <1> QED
    BY <1>5, <1>15, <1>16, OneTold DEF Decoded

LEMMA AddressConstantReads ==
    ASSUME NEW mod, NEW tys, IsSeq(tys), NEW C, IsConstant(mod, tys, C), C.is = "BLOCKADDRESS",
           NEW u, u.types = mod.types, Top(u).ty = C.ty,
           NEW x, x.code = Code(tys, C), x.vals = Vals(tys, C)
    PROVE  Decoded(u, x, tys, C)
  <1>1. PICK o, c, v, os : o = C.ops[1] /\ c = C.lits[1] /\ v = x.vals /\ os = C.ops
    OBVIOUS
  <1>2. C = Parts(C.ty, "BLOCKADDRESS", <<o>>, <<c>>, Empty) /\ o \in 0..(Len(tys) - 1)
    BY <1>1 DEF IsConstant, Parts, Empty
  <1>3. os = <<o>> /\ C.lits = <<c>>
    BY <1>1, <1>2 DEF Parts
  <1>4. IsSeq(os) /\ Len(os) = 1 /\ os[1] = o
    BY <1>3, OneSeq
  <1>5. o < Len(tys)
    BY <1>2 DEF IsSeq
  <1>6. x.code = ConstantsCodes["BLOCKADDRESS"]
    BY DEF Code
  <1>7. PICK t : t = WithTypes(tys, os)
    OBVIOUS
  <1>8. v = t \o <<c>>
    BY <1>1, <1>3, <1>7, WithTypesIs DEF Vals
  <1>9. IsSeq(t) /\ Len(t) = 2 /\ t[1] = TypeOf(tys, o) /\ t[2] = o
    <2>2. IsSeq(t) /\ Len(t) = 2 /\ t[1] = TypeOf(tys, os[1]) /\ t[2] = os[1]
      BY <1>4, <1>7, WithTypeOne
    <2> QED
      BY <1>4, <2>2
  <1>10. AppendsOne(v, t, c)
    <2>1. AppendsOne(Append(t, c), t, c) /\ Append(t, c) = t \o <<c>>
      BY <1>9, AppendIs
    <2> QED
      BY <1>8, <2>1
  <1>13. v[1] = TypeOf(tys, o) /\ v[2] = o /\ v[3] = c
    BY <1>9, <1>10 DEF AppendsOne
  <1>14. NameOfCode(x.code) = "BLOCKADDRESS"
    BY <1>6, ConstantNamed DEF ConstantNames
  <1>15. ConstantOf(u, x) = C
    BY <1>1, <1>2, <1>13, <1>14, AddressOf
  <1>16. ToldByConstant(x) = {<<o, TypeOf(tys, o)>>}
    BY <1>1, <1>6, <1>13, ToldIsSecond DEF ToldSecond
  <1> QED
    BY <1>5, <1>15, <1>16, OneTold DEF Decoded

LEMMA NumbersConstantReads ==
    ASSUME NEW mod, NEW tys, IsSeq(tys), NEW C, IsConstant(mod, tys, C), C.is \in {"FLOAT", "DATA"},
           NEW u, u.types = mod.types, Top(u).ty = C.ty,
           NEW x, x.code = Code(tys, C), x.vals = Vals(tys, C)
    PROVE  Decoded(u, x, tys, C)
  <1>1. PICK v, ls : v = x.vals /\ ls = C.lits
    OBVIOUS
  <1>2. C = Parts(C.ty, C.is, Empty, ls, Empty) /\ ls \in Seq(Nat)
    BY <1>1 DEF IsConstant, Parts, Empty
  <1>3. C.ops = Empty
    BY <1>2 DEF Parts
  <1>4. x.code = ConstantsCodes[C.is]
    BY DEF Code
  <1>5. v = Empty \o ls
    BY <1>1, <1>3 DEF Vals
  <1>6. v = ls
    <2>1. IsSeq(ls)
      BY <1>2, SeqIs
    <2> QED
      BY <1>5, <2>1, NoneJoined
  <1>7. NameOfCode(x.code) = C.is
    BY <1>4, ConstantNamed DEF ConstantNames
  <1>8. ConstantOf(u, x) = C
    BY <1>1, <1>2, <1>6, <1>7, NumbersOf
  <1>9. ToldByConstant(x) = {}
    BY <1>4, ToldIsNone DEF ToldNothing
  <1> QED
    BY <1>8, <1>9, NoneTold DEF Decoded

LEMMA PlainConstantReads ==
    ASSUME NEW mod, NEW tys, IsSeq(tys), NEW C, IsConstant(mod, tys, C), C.is \in {"NULL", "UNDEF", "AGGREGATE", "CE_SELECT", "CE_INSERTELT"},
           NEW u, u.types = mod.types, Top(u).ty = C.ty,
           NEW x, x.code = Code(tys, C), x.vals = Vals(tys, C)
    PROVE  Decoded(u, x, tys, C)
  <1>1. PICK v, os : v = x.vals /\ os = C.ops
    OBVIOUS
  <1>2. C = Parts(C.ty, C.is, os, Empty, Empty) /\ os \in Seq(Nat)
    BY <1>1 DEF IsConstant, Parts, Empty
  <1>3. C.lits = Empty
    BY <1>2 DEF Parts
  <1>4. x.code = ConstantsCodes[C.is]
    BY DEF Code
  <1>5. v = os \o Empty
    BY <1>1, <1>3 DEF Vals
  <1>6. v = os
    <2>1. IsSeq(os)
      BY <1>2, SeqIs
    <2> QED
      BY <1>5, <2>1, NoneJoined
  <1>7. NameOfCode(x.code) = C.is
    BY <1>4, ConstantNamed DEF ConstantNames
  <1>8. ConstantOf(u, x) = C
    BY <1>1, <1>2, <1>6, <1>7, PlainOf DEF PlainConstants
  <1>9. ToldByConstant(x) = {}
    BY <1>4, ToldIsNone DEF ToldNothing
  <1> QED
    BY <1>8, <1>9, NoneTold DEF Decoded

\* A length and the text.
CountedText(s) == <<Len(s)>> \o Chars(s, 2 * Width)

LEMMA FlattenTwo ==
    ASSUME NEW a, NEW b, IsSeq(a), IsSeq(b)
    PROVE  FlattenSeq(<<a, b>>) = a \o b
  <1>1. PICK ss : ss = <<a, b>>
    OBVIOUS
  <1>2. IsSeq(ss) /\ Len(ss) = 2 /\ ss[1] = a /\ ss[2] = b
    BY <1>1, PairSeq
  <1>3. \A k \in 1..Len(ss) : IsSeq(ss[k])
    BY <1>2
  <1>4. PICK P : Joined(P, ss, Len(ss)) /\ FlattenSeq(ss) = P[Len(ss)]
    BY <1>2, <1>3, FlattenJoined
  <1>5. 1 \in 1..Len(ss) /\ 2 \in 1..Len(ss) /\ 1 - 1 = 0 /\ 2 - 1 = 1
    BY <1>2
  <1>6. P[1] = P[0] \o ss[1] /\ P[2] = P[1] \o ss[2] /\ P[0] = Empty
    BY <1>4, <1>5 DEF Joined
  <1>7. P[1] = a
    BY <1>2, <1>6, NoneJoined
  <1> QED
    BY <1>1, <1>2, <1>4, <1>6, <1>7

\* Part of a list: n elements from the a-th on.
Slice(z, v, a, n) == IsSeq(z) /\ Len(z) = n /\ \A k \in 1..n : z[k] = v[a + k - 1]

LEMMA SliceIs ==
    ASSUME NEW v, IsSeq(v), NEW a \in Nat, NEW n \in Nat, 1 <= a, a + n <= Len(v) + 1
    PROVE  Slice(SubSeq(v, a, a + n - 1), v, a, n)
  <1>1. PICK X : X = {v[k] : k \in 1..Len(v)}
    OBVIOUS
  <1>2. \A k \in 1..Len(v) : v[k] \in X
    BY <1>1
  <1> HIDE <1>1
  <1>3. PICK b : b = a + n - 1
    OBVIOUS
  <1>4. b \in Int /\ a \in Int /\ Len(v) \in Nat /\ b - a + 1 = n /\ b <= Len(v)
    BY <1>3 DEF IsSeq
  <1>5. \A k \in a..b : v[k] \in X
    BY <1>2, <1>4
  <1>6. SubSeq(v, a, b) \in Seq(X)
    BY <1>4, <1>5, SubSeqProperties
  <1>7. Len(SubSeq(v, a, b)) = IF a <= b THEN b - a + 1 ELSE 0
    BY <1>4, <1>5, SubSeqProperties
  <1>8. \A k \in 1..(b - a + 1) : SubSeq(v, a, b)[k] = v[a + k - 1]
    BY <1>4, <1>5, SubSeqProperties
  <1>9. PICK z : z = SubSeq(v, a, b)
    OBVIOUS
  <1>10. IsSeq(z)
    BY <1>6, <1>9, SeqIs
  <1>11. Len(z) = n
    BY <1>4, <1>7, <1>9
  <1>12. \A k \in 1..n : z[k] = v[a + k - 1]
    BY <1>4, <1>8, <1>9
  <1>13. Slice(z, v, a, n)
    BY <1>10, <1>11, <1>12 DEF Slice
  <1> QED
    BY <1>3, <1>9, <1>13

\* A number, and two texts each with its length.
HoldsTexts(v, l, s, t) ==
  /\ v[1] = l /\ SubSeq(v, 3, v[2] + 2) = Chars(s, 2 * Width)
  /\ From(v, Len(SubSeq(v, 3, v[2] + 2)) + 4) = Chars(t, 2 * Width)

LEMMA TwoTexts ==
    ASSUME NEW l, NEW s \in Texts, NEW t \in Texts
    PROVE  HoldsTexts(<<l>> \o (CountedText(s) \o CountedText(t)), l, s, t)
  <1>0. PICK v : v = <<l>> \o (CountedText(s) \o CountedText(t))
    OBVIOUS
  <1>1. PICK b, c, d, ls, lt : b = <<l>> /\ c = Chars(s, 2 * Width) /\ d = Chars(t, 2 * Width)
                               /\ ls = <<Len(s)>> /\ lt = <<Len(t)>>
    OBVIOUS
  <1>2. /\ IsSeq(b) /\ Len(b) = 1 /\ b[1] = l /\ IsSeq(ls) /\ Len(ls) = 1 /\ ls[1] = Len(s)
        /\ IsSeq(lt) /\ Len(lt) = 1
    BY <1>1, OneSeq
  <1>3. IsSeq(c) /\ Len(c) = Len(s) /\ IsSeq(d) /\ Len(d) = Len(t)
    BY <1>1, TextReads, WidthIs
  <1>4. PICK n, m : n = Len(s) /\ m = Len(t)
    OBVIOUS
  <1>5. n \in Nat /\ m \in Nat
    BY <1>3, <1>4 DEF IsSeq
  <1>6. PICK e, f : e = ls \o c /\ f = lt \o d
    OBVIOUS
  <1>7. Joins(e, ls, c) /\ Joins(f, lt, d)
    BY <1>2, <1>3, <1>6, JoinIs
  <1>8. IsSeq(e) /\ Len(e) = n + 1 /\ IsSeq(f) /\ Len(f) = m + 1
    BY <1>2, <1>3, <1>4, <1>5, <1>7 DEF Joins
  <1>9. PICK g : g = e \o f
    OBVIOUS
  <1>10. Joins(g, e, f)
    BY <1>8, <1>9, JoinIs
  <1>11. IsSeq(g) /\ Len(g) = n + m + 2
    BY <1>5, <1>8, <1>10 DEF Joins
  <1>12. v = b \o g
    BY <1>0, <1>1, <1>6, <1>9 DEF CountedText
  <1>13. Joins(v, b, g)
    BY <1>2, <1>11, <1>12, JoinIs
  <1>14. Len(v) = n + m + 3 /\ IsSeq(v)
    BY <1>2, <1>5, <1>11, <1>13 DEF Joins
  <1>15. v[1] = l
    <2>1. 1 \in 1..Len(b)
      BY <1>2
    <2> QED
      BY <1>2, <1>13, <2>1 DEF Joins
  <1>16. \A k \in 1..(n + m + 2) : v[k + 1] = g[k]
    <2>1. SUFFICES ASSUME NEW k \in 1..(n + m + 2) PROVE v[k + 1] = g[k]
      OBVIOUS
    <2>2. k \in 1..Len(g) /\ Len(b) + k = k + 1
      BY <1>2, <1>5, <1>11
    <2>3. v[Len(b) + k] = g[k]
      BY <1>13, <2>2 DEF Joins
    <2> QED
      BY <2>2, <2>3
  <1>17. \A k \in 1..(n + 1) : g[k] = e[k]
    BY <1>8, <1>10 DEF Joins
  <1>18. \A k \in 1..(m + 1) : g[n + 1 + k] = f[k]
    BY <1>8, <1>10 DEF Joins
  <1>19. v[2] = n
    <2>1. 1 \in 1..(n + m + 2) /\ 1 \in 1..(n + 1) /\ 1 \in 1..Len(ls) /\ 1 + 1 = 2
      BY <1>2, <1>5
    <2>2. v[1 + 1] = g[1]
      BY <1>16, <2>1
    <2>3. g[1] = e[1]
      BY <1>17, <2>1
    <2>4. e[1] = ls[1]
      BY <1>7, <2>1 DEF Joins
    <2> QED
      BY <1>2, <1>4, <2>1, <2>2, <2>3, <2>4
  <1>20. \A k \in 1..n : v[k + 2] = c[k]
    <2>1. SUFFICES ASSUME NEW k \in 1..n PROVE v[k + 2] = c[k]
      OBVIOUS
    <2>2. k + 1 \in 1..(n + m + 2) /\ k + 1 \in 1..(n + 1) /\ k \in 1..Len(c) /\ (k + 1) + 1 = k + 2 /\ Len(ls) + k = k + 1
      BY <1>2, <1>3, <1>4, <1>5
    <2>3. v[(k + 1) + 1] = g[k + 1]
      BY <1>16, <2>2
    <2>4. g[k + 1] = e[k + 1]
      BY <1>17, <2>2
    <2>5. e[Len(ls) + k] = c[k]
      BY <1>7, <2>2 DEF Joins
    <2> QED
      BY <2>2, <2>3, <2>4, <2>5
  <1>21. \A k \in 1..m : v[n + 3 + k] = d[k]
    <2>1. SUFFICES ASSUME NEW k \in 1..m PROVE v[n + 3 + k] = d[k]
      OBVIOUS
    <2>2. /\ n + 1 + (k + 1) \in 1..(n + m + 2) /\ k + 1 \in 1..(m + 1) /\ k \in 1..Len(d)
          /\ (n + 1 + (k + 1)) + 1 = n + 3 + k /\ Len(lt) + k = k + 1
      BY <1>2, <1>3, <1>4, <1>5
    <2>3. v[(n + 1 + (k + 1)) + 1] = g[n + 1 + (k + 1)]
      BY <1>16, <2>2
    <2>4. g[n + 1 + (k + 1)] = f[k + 1]
      BY <1>18, <2>2
    <2>5. f[Len(lt) + k] = d[k]
      BY <1>7, <2>2 DEF Joins
    <2> QED
      BY <2>2, <2>3, <2>4, <2>5
  <1>22. Slice(SubSeq(v, 3, 3 + n - 1), v, 3, n)
    <2>1. 3 \in Nat /\ 3 + n <= Len(v) + 1
      BY <1>5, <1>14
    <2> QED
      BY <1>5, <1>14, <2>1, SliceIs
  <1>23. Slice(SubSeq(v, n + 4, (n + 4) + m - 1), v, n + 4, m)
    <2>1. n + 4 \in Nat /\ 1 <= n + 4 /\ (n + 4) + m <= Len(v) + 1
      BY <1>5, <1>14
    <2> QED
      BY <1>5, <1>14, <2>1, SliceIs
  <1>24. SubSeq(v, 3, n + 2) = c
    <2>1. PICK z : z = SubSeq(v, 3, n + 2)
      OBVIOUS
    <2>2. 3 + n - 1 = n + 2
      BY <1>5
    <2>3. Slice(z, v, 3, n)
      BY <1>22, <2>1, <2>2
    <2>4. IsSeq(z) /\ Len(z) = n
      BY <2>3 DEF Slice
    <2>5. \A k \in 1..n : z[k] = c[k]
      <3>1. SUFFICES ASSUME NEW k \in 1..n PROVE z[k] = c[k]
        OBVIOUS
      <3>2. 3 + k - 1 = k + 2
        BY <1>5
      <3>3. z[k] = v[k + 2]
        BY <2>3, <3>2 DEF Slice
      <3> QED
        BY <1>20, <3>3
    <2>6. z = c
      BY <2>4, <2>5, <1>3, <1>4, SameSeq
    <2> QED
      BY <2>1, <2>6
  <1>25. From(v, n + 4) = d
    <2>1. PICK z : z = SubSeq(v, n + 4, Len(v))
      OBVIOUS
    <2>2. (n + 4) + m - 1 = Len(v)
      BY <1>5, <1>14
    <2>3. Slice(z, v, n + 4, m)
      BY <1>23, <2>1, <2>2
    <2>4. IsSeq(z) /\ Len(z) = m
      BY <2>3 DEF Slice
    <2>5. \A k \in 1..m : z[k] = d[k]
      <3>1. SUFFICES ASSUME NEW k \in 1..m PROVE z[k] = d[k]
        OBVIOUS
      <3>2. n + 4 + k - 1 = n + 3 + k
        BY <1>5
      <3>3. z[k] = v[n + 3 + k]
        BY <2>3, <3>2 DEF Slice
      <3> QED
        BY <1>21, <3>3
    <2>6. z = d
      BY <2>4, <2>5, <1>3, <1>4, SameSeq
    <2> QED
      BY <2>1, <2>6 DEF From
  <1>26. Len(c) = n
    BY <1>3, <1>4
  <1>27. v[2] + 2 = n + 2
    BY <1>4, <1>19
  <1>28. v[1] = l /\ SubSeq(v, 3, v[2] + 2) = Chars(s, 2 * Width)
         /\ From(v, Len(SubSeq(v, 3, v[2] + 2)) + 4) = Chars(t, 2 * Width)
    BY <1>1, <1>15, <1>24, <1>25, <1>26, <1>27
  <1> QED
    BY <1>0, <1>28 DEF HoldsTexts

LEMMA AssemblyConstantReads ==
    ASSUME NEW mod, NEW tys, IsSeq(tys), NEW C, IsConstant(mod, tys, C), C.is = "INLINEASM",
           NEW u, u.types = mod.types, Top(u).ty = C.ty,
           NEW x, x.code = Code(tys, C), x.vals = Vals(tys, C)
    PROVE  Decoded(u, x, tys, C)
  <1>1. PICK l, s, t, v : l = C.lits[1] /\ s = C.strs[1] /\ t = C.strs[2] /\ v = x.vals
    OBVIOUS
  <1>2. C = Parts(C.ty, "INLINEASM", Empty, <<l>>, <<s, t>>) /\ s \in Texts /\ t \in Texts
    BY <1>1 DEF IsConstant, Parts, Empty
  <1>3. C.lits = <<l>> /\ C.strs = <<s, t>>
    BY <1>2 DEF Parts
  <1>4. x.code = ConstantsCodes["INLINEASM"]
    BY DEF Code
  <1>5. v = C.lits \o FlattenSeq([k \in DOMAIN C.strs |-> CountedText(C.strs[k])])
    BY <1>1 DEF Vals, Flat, Map, CountedText
  <1>6. PICK c, d : c = CountedText(s) /\ d = CountedText(t)
    OBVIOUS
  <1>7. [k \in DOMAIN C.strs |-> CountedText(C.strs[k])] = <<c, d>>
    <2>1. PICK ss : ss = C.strs
      OBVIOUS
    <2>2. IsSeq(ss) /\ Len(ss) = 2 /\ ss[1] = s /\ ss[2] = t
      BY <1>3, <2>1, PairSeq
    <2>3. DOMAIN ss = 1..2
      BY <2>2, SeqShape
    <2>4. PICK h : h = [k \in DOMAIN ss |-> CountedText(ss[k])]
      OBVIOUS
    <2>5. IsSeq(h) /\ Len(h) = 2
      BY <2>2, <2>4, MapShape
    <2>6. h[1] = c /\ h[2] = d
      BY <1>6, <2>2, <2>3, <2>4
    <2>7. PICK p : p = <<c, d>>
      OBVIOUS
    <2>8. IsSeq(p) /\ Len(p) = 2 /\ p[1] = c /\ p[2] = d
      BY <2>7, PairSeq
    <2>9. \A k \in 1..Len(h) : h[k] = p[k]
      BY <2>5, <2>6, <2>8
    <2>10. h = p
      BY <2>5, <2>8, <2>9, SameSeq
    <2> QED
      BY <2>1, <2>4, <2>7, <2>10
  <1>8. IsSeq(c) /\ IsSeq(d)
    <2>1. ASSUME NEW z \in Texts PROVE IsSeq(CountedText(z))
      <3>1. PICK a, b : a = <<Len(z)>> /\ b = Chars(z, 2 * Width)
        OBVIOUS
      <3>2. IsSeq(a) /\ IsSeq(b)
        BY <3>1, OneSeq, TextReads, WidthIs
      <3>3. Joins(a \o b, a, b)
        BY <3>2, JoinIs
      <3> QED
        BY <3>1, <3>3 DEF Joins, CountedText
    <2> QED
      BY <1>2, <1>6, <2>1
  <1>9. v = <<l>> \o (CountedText(s) \o CountedText(t))
    <2>1. FlattenSeq(<<c, d>>) = c \o d
      BY <1>8, FlattenTwo
    <2> QED
      BY <1>3, <1>5, <1>6, <1>7, <2>1
  <1>10. PICK a : a = SubSeq(v, 3, v[2] + 2)
    OBVIOUS
  <1>11. v[1] = l /\ a = Chars(s, 2 * Width) /\ From(v, Len(a) + 4) = Chars(t, 2 * Width)
    <2>1. HoldsTexts(<<l>> \o (CountedText(s) \o CountedText(t)), l, s, t)
      BY <1>2, TwoTexts
    <2>2. HoldsTexts(v, l, s, t)
      BY <1>9, <2>1
    <2> QED
      BY <1>10, <2>2 DEF HoldsTexts
  <1>12. NameOfCode(x.code) = "INLINEASM"
    BY <1>4, ConstantNamed DEF ConstantNames
  <1>13. ConstantOf(u, x) = Parts(Top(u).ty, "INLINEASM", Empty, <<v[1]>>,
                                  <<ToBytes(a), ToBytes(From(v, Len(a) + 4))>>)
    BY <1>1, <1>10, <1>12, AssemblyOf
  <1>14. ToBytes(a) = s /\ ToBytes(From(v, Len(a) + 4)) = t
    BY <1>2, <1>11, TextReads, WidthIs
  <1>15. ConstantOf(u, x) = C
    BY <1>2, <1>11, <1>13, <1>14
  <1>16. ToldByConstant(x) = {}
    BY <1>4, ToldIsNone DEF ToldNothing
  <1> QED
    BY <1>15, <1>16, NoneTold DEF Decoded

LEMMA ConstantReads ==
    ASSUME NEW mod, NEW tys, IsSeq(tys), NEW C, IsConstant(mod, tys, C),
           NEW u, u.types = mod.types, Top(u).ty = C.ty,
           NEW x, x.code = Code(tys, C), x.vals = Vals(tys, C)
    PROVE  Decoded(u, x, tys, C)
  <1>1. C.is \in {"INTEGER", "WIDE_INTEGER", "String", "CE_CAST", "CE_BINOP", "CE_GEP", "CE_INBOUNDS_GEP",
                  "CE_EXTRACTELT", "CE_SHUFFLEVEC", "CE_CMP", "BLOCKADDRESS", "INLINEASM", "FLOAT", "DATA",
                  "NULL", "UNDEF", "AGGREGATE", "CE_SELECT", "CE_INSERTELT"}
    BY DEF IsConstant
  <1>2. CASE C.is \in {"INTEGER", "WIDE_INTEGER"}
    BY <1>2, IntegerReads
  <1>3. CASE C.is = "String"
    BY <1>3, StringReads
  <1>4. CASE C.is = "CE_CAST"
    BY <1>4, CastConstantReads
  <1>5. CASE C.is = "CE_BINOP"
    BY <1>5, BinaryConstantReads
  <1>6. CASE C.is \in {"CE_GEP", "CE_INBOUNDS_GEP"}
    BY <1>6, ElementConstantReads
  <1>7. CASE C.is = "CE_EXTRACTELT"
    BY <1>7, ExtractConstantReads
  <1>8. CASE C.is = "CE_SHUFFLEVEC"
    BY <1>8, ShuffleConstantReads
  <1>9. CASE C.is = "CE_CMP"
    BY <1>9, CompareConstantReads
  <1>10. CASE C.is = "BLOCKADDRESS"
    BY <1>10, AddressConstantReads
  <1>11. CASE C.is = "INLINEASM"
    BY <1>11, AssemblyConstantReads
  <1>12. CASE C.is \in {"FLOAT", "DATA"}
    BY <1>12, NumbersConstantReads
  <1>13. CASE C.is \in {"NULL", "UNDEF", "AGGREGATE", "CE_SELECT", "CE_INSERTELT"}
    BY <1>13, PlainConstantReads
  <1> QED
    BY <1>1, <1>2, <1>3, <1>4, <1>5, <1>6, <1>7, <1>8, <1>9, <1>10, <1>11, <1>12, <1>13

------------------------------------------------------------------------------
(* A block of constants.                                                   *)

\* The reader with other blocks open, other types of values and of operands.
Three(q, o, ts, told) == Set(Set(Set(q, "open", o), "tys", ts), "told", told)

LEMMA ThreeIs ==
    ASSUME NEW q, IsReader(q), NEW o, NEW ts, NEW told
    PROVE  /\ IsReader(Three(q, o, ts, told))
           /\ Three(q, o, ts, told).open = o /\ Three(q, o, ts, told).tys = ts /\ Three(q, o, ts, told).told = told
           /\ \A f \in Fields : f \notin {"open", "tys", "told"} => Three(q, o, ts, told)[f] = q[f]
  <1>1. PICK a, b, c : a = Set(q, "open", o) /\ b = Set(a, "tys", ts) /\ c = Set(b, "told", told)
    OBVIOUS
  <1>2. "open" \in Fields /\ "tys" \in Fields /\ "told" \in Fields
    BY FieldsAre
  <1>3. IsReader(a) /\ a["open"] = o /\ \A f \in Fields : f # "open" => a[f] = q[f]
    BY <1>1, <1>2, SetFields
  <1>4. IsReader(b) /\ b["tys"] = ts /\ \A f \in Fields : f # "tys" => b[f] = a[f]
    BY <1>1, <1>2, <1>3, SetFields
  <1>5. IsReader(c) /\ c["told"] = told /\ \A f \in Fields : f # "told" => c[f] = b[f]
    BY <1>1, <1>2, <1>4, SetFields
  <1>6. c = Three(q, o, ts, told)
    BY <1>1 DEF Three
  <1>7. c["open"] = o /\ c["tys"] = ts
    BY <1>2, <1>3, <1>4, <1>5
  <1>8. \A f \in Fields : f \notin {"open", "tys", "told"} => c[f] = q[f]
    BY <1>3, <1>4, <1>5
  <1> QED
    BY <1>5, <1>6, <1>7, <1>8

LEMMA SetsMerge ==
    ASSUME NEW q, NEW o, NEW a, NEW b, NEW f, f \notin {"open", "tys", "told"}, NEW v, NEW c, NEW d, NEW x
    PROVE  Set(Set(Set(Set(Three(q, o, a, b), f, v), "tys", c), "told", d), f, x) = Set(Three(q, o, c, d), f, x)
  <1>1. PICK r, s, t : r = Set(q, "open", o) /\ s = Set(r, "tys", a) /\ t = Set(s, "told", b)
    OBVIOUS
  <1>2. t = Three(q, o, a, b)
    BY <1>1 DEF Three
  <1>3. Set(Set(t, f, v), "tys", c) = Set(Set(t, "tys", c), f, v)
    BY SetApart
  <1>4. Set(t, "tys", c) = Set(Set(s, "tys", c), "told", b)
    BY <1>1, SetApart
  <1>5. Set(s, "tys", c) = Set(r, "tys", c)
    BY <1>1, SetSet
  <1>6. PICK y : y = Set(r, "tys", c)
    OBVIOUS
  <1>7. Set(Set(t, f, v), "tys", c) = Set(Set(y, "told", b), f, v)
    BY <1>3, <1>4, <1>5, <1>6
  <1>8. Set(Set(Set(y, "told", b), f, v), "told", d) = Set(Set(Set(y, "told", b), "told", d), f, v)
    BY SetApart
  <1>9. Set(Set(y, "told", b), "told", d) = Set(y, "told", d)
    BY SetSet
  <1>10. Set(Set(Set(y, "told", d), f, v), f, x) = Set(Set(y, "told", d), f, x)
    BY SetSet
  <1>11. Set(y, "told", d) = Three(q, o, c, d)
    BY <1>1, <1>6 DEF Three
  <1> QED
    BY <1>2, <1>7, <1>8, <1>9, <1>10, <1>11

\* The reader in a block of constants: the type that was set, and what is known so far.
Held(q, w, c, ty, ts, told, es) ==
  Set(Three(q, Append(q.open, Frame(11, 4, c, ty)), ts, told), PutField(w, "consts"), PutValue(q, w, "consts", es))

LEMMA HeldIs ==
    ASSUME NEW q, IsReader(q), IsSeq(q.open), NEW w, Where(q, w), NEW c, NEW ty, NEW ts, NEW told, NEW es,
           NEW p, p = Held(q, w, c, ty, ts, told, es)
    PROVE  /\ IsReader(p) /\ In(p, 11) /\ Where(p, w)
           /\ p.open = Append(q.open, Frame(11, 4, c, ty)) /\ p.tys = ts /\ p.told = told
           /\ Got(p, w, "consts") = es /\ p.types = q.types
           /\ PutField(w, "consts") \in Apart \ {"open", "tys", "told", "types"}
           /\ \A x : PutValue(p, w, "consts", x) = PutValue(q, w, "consts", x)
  <1>1. PICK o : o = Append(q.open, Frame(11, 4, c, ty))
    OBVIOUS
  <1>2. PICK t : t = Three(q, o, ts, told)
    OBVIOUS
  <1>3. IsReader(t) /\ t.open = o /\ t.tys = ts /\ t.told = told
        /\ \A f \in Fields : f \notin {"open", "tys", "told"} => t[f] = q[f]
    BY <1>2, ThreeIs
  <1>4. t.bodies = q.bodies /\ t.types = q.types
    BY <1>3, FieldsAre
  <1>5. Where(t, w)
    BY <1>1, <1>3, <1>4, EnteredWhere
  <1>6. \A x : PutValue(t, w, "consts", x) = PutValue(q, w, "consts", x)
    BY <1>4 DEF PutValue
  <1>7. p = Put(t, w, "consts", es)
    BY <1>1, <1>2, <1>6 DEF Put, Held
  <1>8. ListOf(w, "consts")
    BY DEF ListOf, Lists
  <1>9. PICK pf : pf = PutField(w, "consts")
    OBVIOUS
  <1>10. IsReader(p) /\ Where(p, w) /\ Got(p, w, "consts") = es
         /\ pf \in Apart \ {"open", "tys", "told", "types"}
         /\ \A g \in Fields : g # pf => p[g] = t[g]
    BY <1>3, <1>5, <1>7, <1>8, <1>9, PutShape
  <1>11. p.open = o /\ p.tys = ts /\ p.told = told /\ p.types = q.types
    BY <1>3, <1>4, <1>10, FieldsAre
  <1>12. In(p, 11)
    BY <1>1, <1>10, <1>11 DEF In
  <1>13. \A x : PutValue(p, w, "consts", x) = PutValue(t, w, "consts", x)
    <2>1. \A y : Put(p, w, "consts", y) = Put(t, w, "consts", y)
      BY <1>3, <1>5, <1>7, <1>8, PutShape
    <2>2. ASSUME NEW x PROVE PutValue(p, w, "consts", x) = PutValue(t, w, "consts", x)
      <3>1. pf \in Fields
        BY <1>10 DEF Apart
      <3>2. Set(p, pf, PutValue(p, w, "consts", x))[pf] = PutValue(p, w, "consts", x)
        BY <1>10, <3>1, SetFields
      <3>3. Set(t, pf, PutValue(t, w, "consts", x))[pf] = PutValue(t, w, "consts", x)
        BY <1>3, <3>1, SetFields
      <3>4. Set(p, pf, PutValue(p, w, "consts", x)) = Set(t, pf, PutValue(t, w, "consts", x))
        BY <1>9, <2>1 DEF Put
      <3> QED
        BY <3>2, <3>3, <3>4
    <2> QED
      BY <2>2
  <1> QED
    BY <1>1, <1>6, <1>9, <1>10, <1>11, <1>12, <1>13

LEMMA ReadConstantIs ==
    ASSUME NEW u, IsReader(u), NEW x
    PROVE  /\ x.code = 1 => ReadConstant(u, x) = SetTop(u, "ty", x.vals[1])
           /\ x.code # 1 => ReadConstant(u, x) =
                AddTo(Set(Set(u, "tys", Append(u.tys, Top(u).ty)), "told", u.told \cup ToldByConstant(x)),
                      "consts", ConstantOf(u, x))
  <1>1. ConstantsCodes.SETTYPE = 1
    BY DEF ConstantsCodes
  <1>2. "tys" \in Fields /\ "told" \in Fields
    BY FieldsAre
  <1>3. PICK s : s = Set(u, "tys", Append(u.tys, Top(u).ty))
    OBVIOUS
  <1>4. s = Add(u, "tys", Top(u).ty)
    BY <1>2, <1>3, AddIs
  <1>5. IsReader(s) /\ s["told"] = u["told"] /\ s["open"] = u["open"]
    BY <1>2, <1>3, SetFields, FieldsAre
  <1>6. PICK z : z = Set(s, "told", u.told \cup ToldByConstant(x))
    OBVIOUS
  <1>7. z = [s EXCEPT !.told = @ \cup ToldByConstant(x)]
    <2>1. s.told = u.told
      BY <1>5
    <2> QED
      BY <1>6, <2>1 DEF Set
  <1>8. z["open"] = u["open"]
    BY <1>2, <1>5, <1>6, SetFields, FieldsAre
  <1>9. InFunction(z) <=> InFunction(u)
    BY <1>8 DEF InFunction
  <1>10. x.code = 1 => ReadConstant(u, x) = SetTop(u, "ty", x.vals[1])
    BY <1>1 DEF ReadConstant
  <1>11. ASSUME x.code # 1
         PROVE  ReadConstant(u, x) = IF InFunction(u) THEN AddBody(z, "consts", ConstantOf(u, x))
                                     ELSE Add(z, "consts", ConstantOf(u, x))
    BY <1>1, <1>4, <1>7, <1>11, Zenon DEF ReadConstant
  <1>12. ASSUME x.code # 1 PROVE ReadConstant(u, x) = AddTo(z, "consts", ConstantOf(u, x))
    BY <1>9, <1>11, <1>12 DEF AddTo
  <1> QED
    BY <1>3, <1>6, <1>10, <1>12

ConstantRecord(tys, C, isGlobal) == Record(Code(tys, C), Vals(tys, C), ConstantAbbrev(C, isGlobal))

LEMMA CodeIsNot1 ==
    ASSUME NEW mod, NEW tys, NEW C, IsConstant(mod, tys, C)
    PROVE  Code(tys, C) # 1
  <1>1. C.is \in {"INTEGER", "WIDE_INTEGER", "String", "CE_CAST", "CE_BINOP", "CE_GEP", "CE_INBOUNDS_GEP",
                  "CE_EXTRACTELT", "CE_SHUFFLEVEC", "CE_CMP", "BLOCKADDRESS", "INLINEASM", "FLOAT", "DATA",
                  "NULL", "UNDEF", "AGGREGATE", "CE_SELECT", "CE_INSERTELT"}
    BY DEF IsConstant
  <1>2. PICK c : c = C.is
    OBVIOUS
  <1>3. c \in ConstantNames \cup {"String"} /\ c # "SETTYPE"
    BY <1>1, <1>2 DEF ConstantNames
  <1>4. Code(tys, C) \in {ConstantsCodes["CSTRING"], ConstantsCodes["STRING"], ConstantsCodes["CE_SHUFFLEVEC"],
                          ConstantsCodes["CE_SHUFVEC_EX"]} \/ (Code(tys, C) = ConstantsCodes[c] /\ c # "String")
    BY <1>2 DEF Code
  <1>5. ConstantsCodes["CSTRING"] # 1 /\ ConstantsCodes["STRING"] # 1 /\ ConstantsCodes["CE_SHUFFLEVEC"] # 1
        /\ ConstantsCodes["CE_SHUFVEC_EX"] # 1
    BY ConstantCodesAre
  <1>6. c # "String" => ConstantsCodes[c] # 1
    <2>1. SUFFICES ASSUME c # "String", ConstantsCodes[c] = 1 PROVE FALSE
      OBVIOUS
    <2>2. c \in ConstantNames /\ "SETTYPE" \in ConstantNames /\ ConstantsCodes[c] = ConstantsCodes["SETTYPE"]
      BY <1>3, <2>1, ConstantCodesAre DEF ConstantNames
    <2>3. c = "SETTYPE"
      BY <2>2, ConstantCodesApart
    <2> QED
      BY <1>3, <2>3
  <1> QED
    BY <1>4, <1>5, <1>6

LEMMA ReadsConstantRecord ==
    ASSUME NEW mod, NEW tys, IsSeq(tys), NEW C, IsConstant(mod, tys, C), NEW isGlobal,
           NEW q, IsReader(q), IsSeq(q.open), NEW w, Where(q, w), q.types = mod.types,
           NEW c, NEW ts, NEW told, NEW es
    PROVE  LET x == ConstantRecord(tys, C, isGlobal)
           IN /\ ToldRight(ToldByConstant(x), tys)
              /\ Reads(Held(q, w, c, C.ty, ts, told, es), <<x>>,
                       Held(q, w, c, C.ty, Append(ts, C.ty), told \cup ToldByConstant(x), Append(es, C)))
  <1>1. PICK x : x = ConstantRecord(tys, C, isGlobal)
    OBVIOUS
  <1>2. x.item = "record" /\ x.code = Code(tys, C) /\ x.vals = Vals(tys, C)
    BY <1>1, RecordFields DEF ConstantRecord
  <1>3. PICK p : p = Held(q, w, c, C.ty, ts, told, es)
    OBVIOUS
  <1>4. PICK ty, f, T : ty = C.ty /\ f = PutField(w, "consts") /\ T = ToldByConstant(x)
    OBVIOUS
  <1>5. /\ IsReader(p) /\ In(p, 11) /\ Where(p, w) /\ p.tys = ts /\ p.told = told
        /\ Got(p, w, "consts") = es /\ p.types = q.types
    BY <1>3, HeldIs
  <1>6. f \in Apart /\ f \notin {"open", "tys", "told", "types"}
    BY <1>3, <1>4, HeldIs
  <1>7. p.open = Append(q.open, Frame(11, 4, c, ty))
    BY <1>3, <1>4, HeldIs
  <1>8. \A y : PutValue(p, w, "consts", y) = PutValue(q, w, "consts", y)
    BY <1>3, HeldIs
  <1>9. PICK v : v = PutValue(q, w, "consts", Append(es, C))
    OBVIOUS
  <1>10. ASSUME NEW u, Like(u, p)
         PROVE  ToldRight(T, tys) /\ Took(u, x) = Set(Set(Set(u, "tys", Append(ts, ty)), "told", told \cup T), f, v)
    <2>1. Took(u, x) = ReadConstant(u, x) /\ IsReader(u)
      BY <1>5, <1>10, InTop, TookIs DEF Like
    <2>2. u.open = p.open /\ u.tys = ts /\ u.told = told /\ u.types = mod.types
      BY <1>5, <1>10, LikeFields
    <2>3. Top(u).ty = ty
      <3>1. Top(u) = Frame(11, 4, c, ty)
        BY <1>7, <2>2, TopIs
      <3> QED
        BY <3>1, FrameFields
    <2>4. Decoded(u, x, tys, C)
      BY <1>2, <1>4, <2>2, <2>3, ConstantReads
    <2>5. ConstantOf(u, x) = C /\ ToldRight(T, tys)
      BY <1>4, <2>4 DEF Decoded
    <2>6. x.code # 1
      BY <1>2, CodeIsNot1
    <2>7. PICK a : a = Set(u, "tys", Append(ts, ty))
      OBVIOUS
    <2>8. PICK z : z = Set(a, "told", told \cup T)
      OBVIOUS
    <2>9. Took(u, x) = AddTo(z, "consts", C)
      BY <1>4, <2>1, <2>2, <2>3, <2>5, <2>6, <2>7, <2>8, ReadConstantIs
    <2>10. "tys" \in Fields /\ "told" \in Fields /\ "open" \in Fields /\ "bodies" \in Fields
      BY FieldsAre
    <2>11. IsReader(a) /\ a["open"] = u["open"] /\ a["bodies"] = u["bodies"] /\ \A g \in Fields : g # "tys" => a[g] = u[g]
      BY <2>1, <2>7, <2>10, SetFields
    <2>12. IsReader(z) /\ z["open"] = u["open"] /\ z["bodies"] = u["bodies"]
           /\ \A g \in Fields : g \notin {"tys", "told"} => z[g] = u[g]
      BY <2>8, <2>10, <2>11, SetFields
    <2>13. Where(u, w) /\ \A y : PutValue(u, w, "consts", y) = PutValue(p, w, "consts", y)
      BY <1>5, <1>10, LikeWhere
    <2>14. Where(z, w)
      BY <2>12, <2>13 DEF Where, InFunction
    <2>15. ListOf(w, "consts")
      BY DEF ListOf, Lists
    <2>16. Got(z, w, "consts") = es
      <3>1. Got(u, w, "consts") = es
        BY <1>5, <1>10, <2>15, LikeWhere
      <3>2. z["consts"] = u["consts"]
        BY <2>12, FieldsAre
      <3> QED
        BY <2>12, <3>1, <3>2 DEF Got
    <2>17. Took(u, x) = Put(z, w, "consts", Append(es, C))
      BY <2>9, <2>12, <2>14, <2>15, <2>16, AddToIs
    <2>18. PutValue(z, w, "consts", Append(es, C)) = v
      <3>1. PutValue(z, w, "consts", Append(es, C)) = PutValue(u, w, "consts", Append(es, C))
        BY <2>12 DEF PutValue
      <3> QED
        BY <1>8, <1>9, <2>13, <3>1
    <2>19. Took(u, x) = Set(z, f, v)
      BY <1>4, <2>17, <2>18 DEF Put
    <2> QED
      BY <2>5, <2>7, <2>8, <2>19
  <1>11. "tys" \in Apart /\ "told" \in Apart
    BY ApartAre
  <1>12. Reads(p, <<x>>, Set(Set(Set(p, "tys", Append(ts, ty)), "told", told \cup T), f, v))
    BY <1>2, <1>5, <1>6, <1>10, <1>11, ReadsSetsThree
  <1>13. Set(Set(Set(p, "tys", Append(ts, ty)), "told", told \cup T), f, v)
           = Held(q, w, c, ty, Append(ts, ty), told \cup T, Append(es, C))
    <2>1. PICK o : o = Append(q.open, Frame(11, 4, c, ty))
      OBVIOUS
    <2>2. PICK v0 : v0 = PutValue(q, w, "consts", es)
      OBVIOUS
    <2>3. p = Set(Three(q, o, ts, told), f, v0)
      BY <1>3, <1>4, <2>1, <2>2 DEF Held
    <2>4. Held(q, w, c, ty, Append(ts, ty), told \cup T, Append(es, C)) = Set(Three(q, o, Append(ts, ty), told \cup T), f, v)
      BY <1>4, <1>9, <2>1 DEF Held
    <2> QED
      BY <1>6, <2>3, <2>4, SetsMerge
  <1>14. ToldRight(T, tys)
    <2>1. Like(p, p)
      BY <1>5 DEF Like
    <2> QED
      BY <1>10, <2>1
  <1> QED
    BY <1>1, <1>3, <1>4, <1>12, <1>13, <1>14

LEMMA ReadsSetType ==
    ASSUME NEW q, IsReader(q), IsSeq(q.open), NEW w, Where(q, w), NEW c, NEW ty, NEW ts, NEW told, NEW es,
           NEW new, NEW ab
    PROVE  Reads(Held(q, w, c, ty, ts, told, es), <<Record(ConstantsCodes.SETTYPE, <<new>>, ab)>>,
                 Held(q, w, c, new, ts, told, es))
  <1>1. PICK x : x = Record(ConstantsCodes.SETTYPE, <<new>>, ab)
    OBVIOUS
  <1>2. x.item = "record" /\ x.code = 1 /\ x.vals[1] = new
    BY <1>1, RecordFields, OneSeq DEF ConstantsCodes
  <1>3. PICK p : p = Held(q, w, c, ty, ts, told, es)
    OBVIOUS
  <1>4. IsReader(p) /\ In(p, 11) /\ p.open = Append(q.open, Frame(11, 4, c, ty))
    BY <1>3, HeldIs
  <1>5. PICK o, n : o = q.open /\ n = Append(q.open, Frame(11, 4, c, new))
    OBVIOUS
  <1>6. ASSUME NEW u, Like(u, p) PROVE Took(u, x) = Set(u, "open", n)
    <2>1. Took(u, x) = ReadConstant(u, x) /\ IsReader(u)
      BY <1>4, <1>6, InTop, TookIs DEF Like
    <2>2. u.open = Append(o, Frame(11, 4, c, ty))
      BY <1>4, <1>5, <1>6, LikeFields
    <2>3. ReadConstant(u, x) = SetTop(u, "ty", new)
      BY <1>2, <2>1, ReadConstantIs
    <2>4. Updated(Frame(11, 4, c, ty), "ty", new) = Frame(11, 4, c, new)
      BY FrameFields
    <2>5. SetTop(u, "ty", new) = Set(u, "open", Append(o, Frame(11, 4, c, new)))
      BY <1>5, <2>1, <2>2, <2>4, SetTopIs
    <2> QED
      BY <1>5, <2>1, <2>3, <2>5
  <1>7. "open" \in Apart
    BY ApartAre
  <1>8. Reads(p, <<x>>, Set(p, "open", n))
    BY <1>2, <1>4, <1>6, <1>7, ReadsSets
  <1>9. Set(p, "open", n) = Held(q, w, c, new, ts, told, es)
    <2>1. PICK a, f, v : a = Append(q.open, Frame(11, 4, c, ty)) /\ f = PutField(w, "consts")
                         /\ v = PutValue(q, w, "consts", es)
      OBVIOUS
    <2>2. f # "open"
      BY <2>1, HeldIs DEF PutField
    <2>3. PICK r, s : r = Set(q, "open", a) /\ s = Set(r, "tys", ts)
      OBVIOUS
    <2>4. p = Set(Set(s, "told", told), f, v)
      BY <1>3, <2>1, <2>3 DEF Held, Three
    <2>5. Set(Set(Set(s, "told", told), f, v), "open", n) = Set(Set(Set(s, "told", told), "open", n), f, v)
      BY <2>2, SetApart
    <2>6. Set(Set(s, "told", told), "open", n) = Set(Set(s, "open", n), "told", told)
      BY SetApart
    <2>7. Set(s, "open", n) = Set(Set(r, "open", n), "tys", ts)
      BY <2>3, SetApart
    <2>8. Set(r, "open", n) = Set(q, "open", n)
      BY <2>3, SetSet
    <2>9. Held(q, w, c, new, ts, told, es) = Set(Set(Set(Set(q, "open", n), "tys", ts), "told", told), f, v)
      BY <1>5, <2>1 DEF Held, Three
    <2> QED
      BY <2>4, <2>5, <2>6, <2>7, <2>8, <2>9
  <1> QED
    BY <1>1, <1>3, <1>8, <1>9

ConstantItems(consts, tys, isGlobal, k) ==
  One(~SameTypeAsLast(consts, k), Record(ConstantsCodes.SETTYPE, <<consts[k].ty>>, CONSTANTS_ABBREV.SETTYPE))
    \o <<ConstantRecord(tys, consts[k], isGlobal)>>
ConstantLists(consts, tys, isGlobal) == [k \in DOMAIN consts |-> ConstantItems(consts, tys, isGlobal, k)]
ToldOfConstant(consts, tys, isGlobal, k) == ToldByConstant(ConstantRecord(tys, consts[k], isGlobal))

LEMMA ReadsConstantItems ==
    ASSUME NEW mod, NEW tys, IsSeq(tys), NEW consts, NEW k \in Nat, IsConstant(mod, tys, consts[k]), NEW isGlobal,
           NEW q, IsReader(q), IsSeq(q.open), NEW w, Where(q, w), q.types = mod.types,
           NEW c, NEW ty, k > 1 => ty = consts[k - 1].ty, NEW ts, NEW told, NEW es
    PROVE  /\ ToldRight(ToldOfConstant(consts, tys, isGlobal, k), tys)
           /\ Reads(Held(q, w, c, ty, ts, told, es), ConstantItems(consts, tys, isGlobal, k),
                    Held(q, w, c, consts[k].ty, Append(ts, consts[k].ty),
                         told \cup ToldOfConstant(consts, tys, isGlobal, k), Append(es, consts[k])))
  <1>1. PICK C, x, y : C = consts[k] /\ x = ConstantRecord(tys, C, isGlobal)
                       /\ y = Record(ConstantsCodes.SETTYPE, <<C.ty>>, CONSTANTS_ABBREV.SETTYPE)
    OBVIOUS
  <1>2. PICK p, h, s : /\ p = Held(q, w, c, ty, ts, told, es)
                       /\ h = Held(q, w, c, C.ty, ts, told, es)
                       /\ s = Held(q, w, c, C.ty, Append(ts, C.ty), told \cup ToldByConstant(x), Append(es, C))
    OBVIOUS
  <1>3. IsConstant(mod, tys, C)
    BY <1>1
  <1>4. Reads(h, <<x>>, s) /\ ToldRight(ToldByConstant(x), tys)
    BY <1>1, <1>2, <1>3, ReadsConstantRecord
  <1>5. PICK o : o = One(~SameTypeAsLast(consts, k), y)
    OBVIOUS
  <1>6. Reads(p, o, h)
    <2>1. CASE SameTypeAsLast(consts, k)
      <3>1. o = Empty
        BY <1>5, <2>1 DEF One, Empty
      <3>2. ty = C.ty
        BY <1>1, <2>1 DEF SameTypeAsLast
      <3> QED
        BY <1>2, <3>1, <3>2, ReadsNone
    <2>2. CASE ~SameTypeAsLast(consts, k)
      <3>1. o = <<y>>
        BY <1>5, <2>2 DEF One
      <3>2. Reads(p, <<y>>, h)
        BY <1>1, <1>2, ReadsSetType
      <3> QED
        BY <3>1, <3>2
    <2> QED
      BY <2>1, <2>2
  <1>7. Reads(p, o \o <<x>>, s)
    BY <1>4, <1>6, ReadsJoin
  <1>8. ConstantItems(consts, tys, isGlobal, k) = o \o <<x>>
    BY <1>1, <1>5 DEF ConstantItems
  <1>9. ToldOfConstant(consts, tys, isGlobal, k) = ToldByConstant(x)
    BY <1>1 DEF ToldOfConstant
  <1> QED
    BY <1>1, <1>2, <1>4, <1>7, <1>8, <1>9

\* The types told with the first k constants.
ToldUpTo(told, consts, tys, isGlobal, k) ==
  told \cup UNION {ToldOfConstant(consts, tys, isGlobal, j) : j \in 1..k}

LEMMA ReadsConstantLists ==
    ASSUME NEW mod, NEW tys, IsSeq(tys), NEW consts, IsSeq(consts), \A k \in DOMAIN consts : IsConstant(mod, tys, consts[k]),
           NEW isGlobal,
           NEW q, IsReader(q), IsSeq(q.open), IsSeq(q.tys), NEW w, Where(q, w), q.types = mod.types,
           NEW c, NEW told
    PROVE  \E t, ty : /\ Reads(Held(q, w, c, NoType, q.tys, told, Empty),
                               FlattenSeq(ConstantLists(consts, tys, isGlobal)),
                               Held(q, w, c, ty, q.tys \o Tys(consts), t, consts))
                      /\ ToldRight(told, tys) => ToldRight(t, tys)
  <1>1. PICK n, D : n = Len(consts) /\ D = DOMAIN consts
    OBVIOUS
  <1>2. n \in Nat /\ D = 1..n
    BY <1>1, SeqShape
  <1>3. PICK b, ts, ss : b = q.tys /\ ts = Tys(consts) /\ ss = ConstantLists(consts, tys, isGlobal)
    OBVIOUS
  <1>4. IsSeq(b) /\ IsSeq(ts) /\ Len(ts) = n /\ \A k \in 1..n : ts[k] = consts[k].ty
    BY <1>1, <1>3, TysShape
  <1>5. Grows(b, ts) /\ Grows(Empty, consts)
    BY <1>4, GrownShape, NoneSeq
  <1>6. IsSeq(ss) /\ Len(ss) = n /\ \A k \in 1..n : ss[k] = ConstantItems(consts, tys, isGlobal, k)
    <2>1. DOMAIN ss = D /\ ss = [k \in DOMAIN ss |-> ss[k]]
      BY <1>1, <1>3 DEF ConstantLists
    <2>2. IsSeq(ss) /\ Len(ss) = n
      BY <1>1, <2>1, MapShape
    <2> QED
      BY <1>1, <1>2, <1>3, <2>2 DEF ConstantLists
  <1> DEFINE typeAt(k) == IF k = 0 THEN NoType ELSE consts[k].ty
             toldAt(k) == ToldUpTo(told, consts, tys, isGlobal, k)
             G == [k \in 0..n |-> Held(q, w, c, typeAt(k), Grown(b, ts, k), toldAt(k), Grown(Empty, consts, k))]
  <1>7. ASSUME NEW k \in 1..Len(ss)
        PROVE  Reads(G[k - 1], ss[k], G[k]) /\ ToldRight(ToldOfConstant(consts, tys, isGlobal, k), tys)
    <2>1. k \in 1..n /\ k \in 0..n /\ k - 1 \in 0..n /\ k \in D /\ k \in Nat
      BY <1>2, <1>6
    <2>2. IsConstant(mod, tys, consts[k])
      BY <1>1, <2>1
    <2>3. PICK ty, x0, x1, y0, y1, t0, t1 : /\ ty = typeAt(k - 1) /\ x0 = Grown(b, ts, k - 1) /\ x1 = Grown(b, ts, k)
             /\ y0 = Grown(Empty, consts, k - 1) /\ y1 = Grown(Empty, consts, k) /\ t0 = toldAt(k - 1) /\ t1 = toldAt(k)
      OBVIOUS
    <2>4. k > 1 => ty = consts[k - 1].ty
      BY <2>1, <2>3
    <2>5. x1 = Append(x0, consts[k].ty) /\ y1 = Append(y0, consts[k])
      BY <1>1, <1>4, <1>5, <2>1, <2>3 DEF Grows
    <2>6. t1 = t0 \cup ToldOfConstant(consts, tys, isGlobal, k)
      <3>1. 1..k = (1..(k - 1)) \cup {k}
        BY <2>1
      <3> QED
        BY <2>3, <3>1 DEF ToldUpTo
    <2>7. G[k - 1] = Held(q, w, c, ty, x0, t0, y0) /\ G[k] = Held(q, w, c, typeAt(k), x1, t1, y1)
      BY <2>1, <2>3
    <2>8. typeAt(k) = consts[k].ty
      BY <2>1
    <2> HIDE DEF G, typeAt, toldAt
    <2>9. ToldRight(ToldOfConstant(consts, tys, isGlobal, k), tys)
          /\ Reads(Held(q, w, c, ty, x0, t0, y0), ConstantItems(consts, tys, isGlobal, k),
                   Held(q, w, c, consts[k].ty, Append(x0, consts[k].ty),
                        t0 \cup ToldOfConstant(consts, tys, isGlobal, k), Append(y0, consts[k])))
      BY <2>1, <2>2, <2>4, ReadsConstantItems
    <2> QED
      BY <1>6, <2>1, <2>5, <2>6, <2>7, <2>8, <2>9
  <1>8. PICK t, ty : t = toldAt(n) /\ ty = typeAt(n)
    OBVIOUS
  <1>9. G[0] = Held(q, w, c, NoType, b, told, Empty) /\ G[n] = Held(q, w, c, ty, b \o ts, t, consts)
    <2>1. 0 \in 0..n /\ n \in 0..n
      BY <1>2
    <2>2. Grown(b, ts, 0) = b /\ Grown(b, ts, n) = b \o ts
      BY <1>4, <1>5 DEF Grows
    <2>3. Grown(Empty, consts, 0) = Empty /\ Grown(Empty, consts, n) = consts
      BY <1>1, <1>5, NoneJoined DEF Grows
    <2>4. toldAt(0) = told
      BY DEF ToldUpTo
    <2>5. typeAt(0) = NoType
      OBVIOUS
    <2>6. G[0] = Held(q, w, c, typeAt(0), Grown(b, ts, 0), toldAt(0), Grown(Empty, consts, 0))
      BY <2>1
    <2>7. G[n] = Held(q, w, c, typeAt(n), Grown(b, ts, n), toldAt(n), Grown(Empty, consts, n))
      BY <2>1
    <2> HIDE DEF G, typeAt, toldAt
    <2> QED
      BY <1>8, <2>2, <2>3, <2>4, <2>5, <2>6, <2>7
  <1>10. ASSUME ToldRight(told, tys) PROVE ToldRight(t, tys)
    <2>1. \A k \in 1..n : ToldRight(ToldOfConstant(consts, tys, isGlobal, k), tys)
      BY <1>6, <1>7
    <2> QED
      BY <1>8, <1>10, <2>1 DEF ToldRight, ToldUpTo
  <1> HIDE DEF G, typeAt, toldAt
  <1>11. Reads(G[0], FlattenSeq(ss), G[Len(ss)])
    BY <1>6, <1>7, ReadsFlat
  <1> QED
    BY <1>3, <1>6, <1>9, <1>10, <1>11

LEMMA WriteConstantsIs ==
    ASSUME NEW consts, NEW tys, NEW last, NEW isGlobal
    PROVE  WriteConstants(consts, tys, last, isGlobal) =
             IF consts = Empty THEN Empty
             ELSE <<Enter(11, 4)>> \o (IF isGlobal THEN Map(Define, ModuleConstantsAbbrevs(last)) ELSE Empty)
                    \o FlattenSeq(ConstantLists(consts, tys, isGlobal)) \o <<Exit>>
  BY DEF WriteConstants, ConstantLists, ConstantItems, ConstantRecord, Flat, Map, BlockIDs, Empty

\* The reader when it has left a block of constants.
WithConstants(q, w, ts, told, es) ==
  Set(Set(Set(q, "tys", ts), "told", told), PutField(w, "consts"), PutValue(q, w, "consts", es))

LEMMA HeldStarts ==
    ASSUME NEW q, IsReader(q), IsSeq(q.open), NEW w, Where(q, w), Got(q, w, "consts") = Empty, NEW c
    PROVE  Held(q, w, c, NoType, q.tys, q.told, Empty) = Holding(q, 11, 4, c)
  <1>1. PICK h, o, f : h = Holding(q, 11, 4, c) /\ o = Append(q.open, Frame(11, 4, c, NoType)) /\ f = PutField(w, "consts")
    OBVIOUS
  <1>2. h = Set(q, "open", o)
    BY <1>1 DEF Holding
  <1>3. IsReader(h) /\ \A g \in Fields : g # "open" => h[g] = q[g]
    BY <1>1, HoldingIs
  <1>4. "tys" \in Fields /\ "told" \in Fields
    BY FieldsAre
  <1>5. h["tys"] = q["tys"] /\ h["told"] = q["told"]
    BY <1>3, <1>4
  <1>6. Set(h, "tys", h["tys"]) = h /\ Set(h, "told", h["told"]) = h
    BY <1>3, <1>4, SetFields
  <1>7. Three(q, o, q.tys, q.told) = h
    BY <1>2, <1>5, <1>6 DEF Three
  <1>8. ListOf(w, "consts")
    BY DEF ListOf, Lists
  <1>9. f \in Apart \ {"open", "tys", "told", "types"} /\ Put(q, w, "consts", Got(q, w, "consts")) = q
    BY <1>1, <1>8, PutShape
  <1>10. PICK v : v = PutValue(q, w, "consts", Empty)
    OBVIOUS
  <1>11. Set(q, f, v) = q
    BY <1>1, <1>9, <1>10 DEF Put
  <1>12. f \in Fields
    BY <1>9 DEF Apart
  <1>13. Set(q, f, v)[f] = v
    BY <1>12, SetFields
  <1>14. h[f] = v
    BY <1>3, <1>9, <1>11, <1>12, <1>13
  <1>15. Set(h, f, h[f]) = h
    BY <1>3, <1>12, SetFields
  <1> QED
    BY <1>1, <1>7, <1>10, <1>14, <1>15 DEF Held

LEMMA HeldEnds ==
    ASSUME NEW q, IsReader(q), NEW w, NEW c, NEW ty, NEW ts, NEW told, NEW es
    PROVE  Set(Held(q, w, c, ty, ts, told, es), "open", q.open) = WithConstants(q, w, ts, told, es)
  <1>1. PICK a, f, v, o : a = Append(q.open, Frame(11, 4, c, ty)) /\ f = PutField(w, "consts")
                          /\ v = PutValue(q, w, "consts", es) /\ o = q.open
    OBVIOUS
  <1>2. f # "open"
    BY <1>1 DEF PutField
  <1>3. PICK r, s : r = Set(q, "open", a) /\ s = Set(r, "tys", ts)
    OBVIOUS
  <1>4. Held(q, w, c, ty, ts, told, es) = Set(Set(s, "told", told), f, v)
    BY <1>1, <1>3 DEF Held, Three
  <1>5. Set(Set(Set(s, "told", told), f, v), "open", o) = Set(Set(Set(s, "told", told), "open", o), f, v)
    BY <1>2, SetApart
  <1>6. Set(Set(s, "told", told), "open", o) = Set(Set(s, "open", o), "told", told)
    BY SetApart
  <1>7. Set(s, "open", o) = Set(Set(r, "open", o), "tys", ts)
    BY <1>3, SetApart
  <1>8. Set(r, "open", o) = q
    <2>1. Set(r, "open", o) = Set(q, "open", o)
      BY <1>3, SetSet
    <2>2. "open" \in Fields /\ Set(q, "open", q["open"]) = q
      BY FieldsAre, SetFields
    <2> QED
      BY <1>1, <2>1, <2>2
  <1>9. WithConstants(q, w, ts, told, es) = Set(Set(Set(q, "tys", ts), "told", told), f, v)
    BY <1>1 DEF WithConstants
  <1> QED
    BY <1>1, <1>4, <1>5, <1>6, <1>7, <1>8, <1>9

LEMMA ReadsConstants ==
    ASSUME NEW mod, NEW tys, IsSeq(tys), NEW consts, IsSeq(consts), \A k \in DOMAIN consts : IsConstant(mod, tys, consts[k]),
           NEW last, NEW isGlobal \in BOOLEAN,
           NEW q, IsReader(q), IsSeq(q.open), IsSeq(q.tys), NEW w, Where(q, w), q.types = mod.types,
           Got(q, w, "consts") = Empty
    PROVE  \E t : /\ Reads(q, WriteConstants(consts, tys, last, isGlobal),
                           WithConstants(q, w, q.tys \o Tys(consts), t, consts))
                  /\ ToldRight(q.told, tys) => ToldRight(t, tys)
  <1>1. CASE consts = Empty
    <2>1. WriteConstants(consts, tys, last, isGlobal) = Empty
      BY <1>1, WriteConstantsIs
    <2>2. IsSeq(Tys(consts)) /\ Len(Tys(consts)) = 0
      BY <1>1, TysShape, NoneSeq
    <2>3. Tys(consts) = Empty
      BY <2>2, NoneSeq, SameSeq
    <2>4. q.tys \o Tys(consts) = q.tys
      BY <2>3, NoneJoined
    <2>5. WithConstants(q, w, q.tys, q.told, consts) = q
      <3>1. ListOf(w, "consts")
        BY DEF ListOf, Lists
      <3>2. Put(q, w, "consts", Got(q, w, "consts")) = q
        BY <3>1, PutShape
      <3>3. Set(q, PutField(w, "consts"), PutValue(q, w, "consts", consts)) = q
        BY <1>1, <3>2 DEF Put
      <3>4. "tys" \in Fields /\ "told" \in Fields
        BY FieldsAre
      <3>5. Set(q, "tys", q["tys"]) = q /\ Set(q, "told", q["told"]) = q
        BY <3>4, SetFields
      <3> QED
        BY <3>3, <3>5 DEF WithConstants
    <2>6. Reads(q, WriteConstants(consts, tys, last, isGlobal), WithConstants(q, w, q.tys \o Tys(consts), q.told, consts))
      BY <2>1, <2>4, <2>5, ReadsNone
    <2> QED
      BY <2>6
  <1>2. CASE consts # Empty
    <2>1. PICK e, d, f : e = <<Enter(11, 4)>>
                         /\ d = (IF isGlobal THEN Map(Define, ModuleConstantsAbbrevs(last)) ELSE Empty)
                         /\ f = FlattenSeq(ConstantLists(consts, tys, isGlobal))
      OBVIOUS
    <2>2. WriteConstants(consts, tys, last, isGlobal) = e \o d \o f \o <<Exit>>
      BY <1>2, <2>1, WriteConstantsIs
    <2>3. Reads(q, e, Entered(q, 11, 4))
      BY <2>1, ReadsOpen DEF Entered
    <2>4. PICK c : Reads(Entered(q, 11, 4), d, Holding(q, 11, 4, c))
      <3>1. CASE isGlobal
        <4>1. PICK ds : ds = ModuleConstantsAbbrevs(last)
          OBVIOUS
        <4>2. IsSeq(ds)
          BY <4>1 DEF ModuleConstantsAbbrevs, IsSeq
        <4>3. d = Map(Define, ds)
          BY <2>1, <3>1, <4>1
        <4> QED
          BY <4>2, <4>3, ReadsDefinesAll
      <3>2. CASE ~isGlobal
        <4>1. d = Empty
          BY <2>1, <3>2
        <4>2. Entered(q, 11, 4) = Holding(q, 11, 4, Infos(q, 11))
          BY HoldingIs
        <4> QED
          BY <4>1, <4>2, ReadsNone
      <3> QED
        BY <3>1, <3>2
    <2>5. PICK t, ty : /\ Reads(Held(q, w, c, NoType, q.tys, q.told, Empty), f, Held(q, w, c, ty, q.tys \o Tys(consts), t, consts))
                       /\ ToldRight(q.told, tys) => ToldRight(t, tys)
      BY <2>1, ReadsConstantLists
    <2>6. PICK s, z : s = Held(q, w, c, ty, q.tys \o Tys(consts), t, consts)
                      /\ z = WithConstants(q, w, q.tys \o Tys(consts), t, consts)
      OBVIOUS
    <2>7. Reads(q, e \o d, Holding(q, 11, 4, c))
      BY <2>3, <2>4, ReadsJoin
    <2>8. Reads(q, e \o d \o f, s)
      BY <2>5, <2>6, <2>7, HeldStarts, ReadsJoin
    <2>9. Reads(s, <<Exit>>, z)
      <3>1. IsReader(s) /\ s.open = Append(q.open, Frame(11, 4, c, ty))
        BY <2>6, HeldIs
      <3>2. Frame(11, 4, c, ty).id # 12
        BY FrameFields
      <3>3. Reads(s, <<Exit>>, Set(s, "open", q.open))
        BY <3>1, <3>2, ReadsClose
      <3> QED
        BY <2>6, <3>3, HeldEnds
    <2>10. Reads(q, e \o d \o f \o <<Exit>>, z)
      BY <2>8, <2>9, ReadsJoin
    <2> QED
      BY <2>2, <2>5, <2>6, <2>10
  <1> QED
    BY <1>1, <1>2

\* The constants of the module.
LEMMA ReadsModuleConstants ==
    ASSUME NEW mod, IsModule(mod), NEW q, AtModule(q), IsSeq(q.tys), q.types = mod.types, q.consts = Empty
    PROVE  \E s : /\ Reads(q, WriteModuleConstants(mod), s) /\ AtModule(s)
                  /\ Same(q, s, {"tys", "told", "consts"})
                  /\ s.consts = mod.consts /\ s.tys = q.tys \o Tys(mod.consts)
                  /\ ToldRight(q.told, ModuleTypes(mod)) => ToldRight(s.told, ModuleTypes(mod))
  <1>1. PICK tys, consts : tys = ModuleTypes(mod) /\ consts = mod.consts
    OBVIOUS
  <1>2. IsSeq(tys) /\ IsSeq(consts) /\ \A k \in DOMAIN consts : IsConstant(mod, tys, consts[k])
    BY <1>1, ModuleTypesShape DEF IsModule
  <1>3. Where(q, "module") /\ IsReader(q) /\ IsSeq(q.open)
    BY AtModuleWhere
  <1>4. Got(q, "module", "consts") = Empty
    BY DEF Got
  <1>5. WriteModuleConstants(mod) = WriteConstants(consts, tys, Len(tys), TRUE)
    BY <1>1 DEF WriteModuleConstants
  <1>6. PICK t : /\ Reads(q, WriteConstants(consts, tys, Len(tys), TRUE),
                          WithConstants(q, "module", q.tys \o Tys(consts), t, consts))
                 /\ ToldRight(q.told, tys) => ToldRight(t, tys)
    BY <1>2, <1>3, <1>4, ReadsConstants
  <1>0. PICK x : x = q.tys \o Tys(consts)
    OBVIOUS
  <1>7. PICK a, b, c : a = Set(q, "tys", x) /\ b = Set(a, "told", t) /\ c = Set(b, "consts", consts)
    OBVIOUS
  <1>8. c = WithConstants(q, "module", q.tys \o Tys(consts), t, consts)
    BY <1>0, <1>7 DEF WithConstants, PutField, PutValue
  <1>9. "tys" \in Fields /\ "told" \in Fields /\ "consts" \in Fields
    BY FieldsAre
  <1>10. AtModule(a) /\ a["tys"] = x /\ Same(q, a, {"tys"})
    BY <1>7, <1>9, AtModuleSet
  <1>11. AtModule(b) /\ b["told"] = t /\ Same(a, b, {"told"})
    BY <1>7, <1>9, <1>10, AtModuleSet
  <1>12. AtModule(c) /\ c["consts"] = consts /\ Same(b, c, {"consts"})
    BY <1>7, <1>9, <1>11, AtModuleSet
  <1>13. c["told"] = t /\ c["tys"] = x /\ Same(q, c, {"tys", "told", "consts"})
    BY <1>9, <1>10, <1>11, <1>12 DEF Same
  <1> QED
    BY <1>0, <1>1, <1>5, <1>6, <1>8, <1>12, <1>13

------------------------------------------------------------------------------
(* The module is read part by part.                                        *)

ModuleFields ==
  {"attrs", "types", "triple", "layout", "asm", "globals", "functions", "aliases", "consts", "mds",
   "named", "kinds", "names"}
\* What the reader is to have of a part of the module.
PartOf(mod, f) ==
  CASE f = "attrs"  -> Map(AttributesRead, mod.attrs)
    [] f = "layout" -> Text(mod.layout, DataLayoutOf(mod))
    [] f = "kinds"  -> KindsRead(mod.kinds)
    [] OTHER        -> mod[f]
Knows(r, mod, D) == \A f \in ModuleFields : r[f] = IF f \in D THEN PartOf(mod, f) ELSE Empty

LEMMA ModuleFieldsAre == ModuleFields \subseteq Fields /\ ModuleFields \subseteq Apart
  BY FieldsAre, ApartAre DEF ModuleFields

LEMMA KnowsMore ==
    ASSUME NEW q, NEW mod, NEW D, Knows(q, mod, D), NEW s, NEW X, Same(q, s, X),
           NEW E, X \cap ModuleFields \subseteq E, \A f \in E \cap ModuleFields : s[f] = PartOf(mod, f)
    PROVE  Knows(s, mod, D \cup E)
  <1>1. SUFFICES ASSUME NEW f \in ModuleFields PROVE s[f] = IF f \in D \cup E THEN PartOf(mod, f) ELSE Empty
    BY DEF Knows
  <1>2. CASE f \in E
    BY <1>1, <1>2
  <1>3. CASE f \notin E
    <2>1. f \in Fields /\ f \notin X
      BY <1>1, <1>3, ModuleFieldsAre
    <2>2. s[f] = q[f]
      BY <2>1 DEF Same
    <2>3. q[f] = IF f \in D THEN PartOf(mod, f) ELSE Empty
      BY <1>1 DEF Knows
    <2> QED
      BY <1>3, <2>2, <2>3
  <1> QED
    BY <1>2, <1>3

\* What is known when the writer is at a place.
DoneAt(place) ==
  CASE place \in {"file", "module", "blockinfo", "attributes"} -> {}
    [] place = "types"     -> {"attrs"}
    [] place = "info"      -> {"attrs", "types"}
    [] place = "constants" -> {"attrs", "types", "triple", "layout", "asm", "globals", "functions", "aliases"}
    [] place = "metadata"  -> ModuleFields \ {"mds", "named", "kinds", "names"}
    [] place = "kinds"     -> ModuleFields \ {"kinds", "names"}
    [] place = "names"     -> ModuleFields \ {"names"}
    [] OTHER               -> ModuleFields
BeforeInfo == {"file", "module", "blockinfo", "attributes", "types", "info"}
AfterConstants == {"metadata", "kinds", "names", "uselists", "function"}
AfterModule == {"trailer", "done"}
\* The blocks that are open.
OpenAt(r, place) ==
  /\ IsReader(r)
  /\ place \in {"file", "module"} => r.open = Empty /\ r.infos = Empty
  /\ place \in AfterModule => r.open = Empty
  /\ place \notin {"file", "module", "insts"} \cup AfterModule => AtModule(r)
\* The types of the values, and of the operands told with records.
ValuesAt(r, place, mod) ==
  /\ place \in BeforeInfo => r.tys = Empty /\ r.sections = Empty /\ r.gcs = Empty /\ r.tname = Empty
  /\ place = "constants" => r.tys = (Tys(mod.globals) \o Tys(mod.functions)) \o Tys(mod.aliases)
  /\ place \in AfterConstants => r.tys = ModuleTypes(mod)
  /\ place # "insts" => ToldRight(r.told, ModuleTypes(mod))
\* The reader has read what was sent before the writer was at place.
Follows(r, place, mod) ==
  /\ OpenAt(r, place)
  /\ Knows(r, mod, DoneAt(place))
  /\ ValuesAt(r, place, mod)

LEMMA LikeFollows ==
    ASSUME NEW u, NEW s, Like(u, s), NEW place, NEW mod, Follows(s, place, mod)
    PROVE  Follows(u, place, mod)
  <1>1. IsReader(u) /\ u.open = s.open /\ u.infos = s.infos
    BY LikeFields
  <1>2. OpenAt(u, place)
    BY <1>1 DEF Follows, OpenAt, AtModule
  <1>3. \A f \in ModuleFields : u[f] = s[f]
    BY ModuleFieldsAre DEF Like, Apart
  <1>4. Knows(u, mod, DoneAt(place))
    BY <1>3 DEF Follows, Knows
  <1>5. u.tys = s.tys /\ u.told = s.told /\ u.sections = s.sections /\ u.gcs = s.gcs /\ u.tname = s.tname
    BY LikeFields
  <1>6. ValuesAt(u, place, mod)
    BY <1>5 DEF Follows, ValuesAt
  <1> QED
    BY <1>2, <1>4, <1>6 DEF Follows

\* A step of the writer is read.
LEMMA StepReads ==
    ASSUME NEW r, IsReader(r), NEW s, IsReader(s), NEW items, Reads(r, items, s),
           NEW z, z = [FoldLeft(Read, r, items) EXCEPT !.bytes = r.bytes + Streamed(items)]
    PROVE  Like(z, s) /\ z.bytes = r.bytes + Streamed(items)
  <1>1. PICK m, b : m = r.misfits /\ b = r.bytes
    OBVIOUS
  <1>2. With(r, m, b) = r
    <2>1. "misfits" \in Fields /\ "bytes" \in Fields
      BY FieldsAre
    <2>2. Set(r, "misfits", r["misfits"]) = r /\ Set(r, "bytes", r["bytes"]) = r
      BY <2>1, SetFields
    <2> QED
      BY <1>1, <2>2 DEF With
  <1>3. PICK n : ReadAll(With(r, m, b), items) = With(s, n, b)
    BY DEF Reads
  <1>4. PICK y : y = With(s, n, b)
    OBVIOUS
  <1>5. FoldLeft(Read, r, items) = y
    BY <1>2, <1>3, <1>4 DEF ReadAll
  <1>6. IsReader(y) /\ y["bytes"] = b /\ \A f \in Fields \ {"misfits", "bytes"} : y[f] = s[f]
    BY <1>4, WithReader
  <1>7. PICK v : v = r.bytes + Streamed(items)
    OBVIOUS
  <1>8. z = Set(y, "bytes", v)
    BY <1>5, <1>7 DEF Set
  <1>9. IsReader(z) /\ z["bytes"] = v /\ \A f \in Fields : f # "bytes" => z[f] = y[f]
    <2>1. "bytes" \in Fields
      BY FieldsAre
    <2>2. IsReader(Set(y, "bytes", v)) /\ Set(y, "bytes", v)["bytes"] = v
            /\ \A f \in Fields : f # "bytes" => Set(y, "bytes", v)[f] = y[f]
      BY <1>6, <2>1, SetFields
    <2> QED
      BY <1>8, <2>2, Zenon
  <1>10. Like(z, s)
    BY <1>6, <1>9 DEF Like
  <1> QED
    BY <1>1, <1>6, <1>7, <1>9, <1>10

\* Where the writer goes from a place, what it sends is read.
Stage(q, items, here, next, mod) ==
  \E s : IsReader(s) /\ Reads(q, items, s) /\ Follows(s, next, mod) /\ s.bodies = q.bodies

LEMMA FollowsIs ==
    ASSUME NEW q, NEW place, NEW mod, Follows(q, place, mod)
    PROVE  IsReader(q) /\ Knows(q, mod, DoneAt(place)) /\ OpenAt(q, place) /\ ValuesAt(q, place, mod)
  BY DEF Follows, OpenAt

\* Fields of the reader that are none of the module's parts.
Others == {"open", "infos", "tname", "sections", "gcs", "tys", "told", "bodies"}

LEMMA OthersAre == Others \subseteq Fields /\ Others \cap ModuleFields = {}
  BY FieldsAre DEF Others, ModuleFields

LEMMA KnowsSame ==
    ASSUME NEW q, NEW mod, NEW D, Knows(q, mod, D), NEW s, NEW X, Same(q, s, X), X \subseteq Others
    PROVE  Knows(s, mod, D)
  <1>1. X \cap ModuleFields \subseteq {}
    BY OthersAre
  <1>2. Knows(s, mod, D \cup {})
    <2> DEFINE E == {}
    <2>1. X \cap ModuleFields \subseteq E /\ \A f \in E \cap ModuleFields : s[f] = PartOf(mod, f)
      BY <1>1
    <2> HIDE DEF E
    <2>2. Knows(s, mod, D \cup E)
      BY <2>1, KnowsMore
    <2> QED
      BY <2>2 DEF E
  <1> QED
    BY <1>2

LEMMA BeginFileReads ==
    ASSUME NEW mod, NEW q, Follows(q, "file", mod)
    PROVE  Stage(q, <<Magic>>, "file", "module", mod)
  <1>1. Follows(q, "module", mod)
    <2>1. DoneAt("file") = DoneAt("module")
      BY DEF DoneAt
    <2>2. OpenAt(q, "module")
      BY DEF Follows, OpenAt, AfterModule
    <2>3. ValuesAt(q, "module", mod)
      BY DEF Follows, ValuesAt, BeforeInfo, AfterConstants
    <2> QED
      BY <2>1, <2>2, <2>3 DEF Follows
  <1> QED
    BY <1>1, ReadsMagic, FollowsIs DEF Stage

LEMMA BeginModuleReads ==
    ASSUME NEW mod, NEW q, Follows(q, "module", mod)
    PROVE  Stage(q, <<Enter(BlockIDs.MODULE_BLOCK, 3), Record(ModuleCodes.VERSION, <<1>>, 0)>>,
                 "module", "blockinfo", mod)
  <1>1. IsReader(q) /\ q.open = Empty /\ IsSeq(q.open) /\ q.infos = Empty
    BY FollowsIs, NoneSeq DEF OpenAt
  <1>2. PICK s : s = Entered(q, 8, 3)
    OBVIOUS
  <1>3. IsReader(s) /\ s.open = Append(q.open, Frame(8, 3, Infos(q, 8), NoType))
          /\ \A f \in Fields : f # "open" => s[f] = q[f]
    BY <1>1, <1>2, EnteredIs
  <1>4. Infos(q, 8) = Empty /\ IsSeq(Infos(q, 8))
    BY <1>1, NoneSeq DEF Infos, Empty
  <1>5. AtModule(s)
    BY <1>1, <1>3, <1>4 DEF AtModule
  <1>6. Same(q, s, {"open"})
    BY <1>3 DEF Same
  <1>7. Knows(s, mod, DoneAt("module"))
    BY <1>6, KnowsSame, FollowsIs DEF Others
  <1>8. DoneAt("module") = DoneAt("blockinfo")
    BY DEF DoneAt
  <1>9. s.tys = q.tys /\ s.sections = q.sections /\ s.gcs = q.gcs /\ s.tname = q.tname /\ s.told = q.told
          /\ s.bodies = q.bodies
    BY <1>3, FieldsAre
  <1>10. ValuesAt(s, "blockinfo", mod)
    BY <1>9, FollowsIs DEF ValuesAt, BeforeInfo, AfterConstants
  <1>11. OpenAt(s, "blockinfo")
    BY <1>3, <1>5 DEF OpenAt, AfterModule
  <1>12. Follows(s, "blockinfo", mod)
    BY <1>7, <1>8, <1>10, <1>11 DEF Follows
  <1>13. Reads(q, <<Enter(BlockIDs.MODULE_BLOCK, 3), Record(ModuleCodes.VERSION, <<1>>, 0)>>, s)
    BY <1>1, <1>2, ReadsBegin
  <1> QED
    BY <1>3, <1>9, <1>12, <1>13 DEF Stage

\* In the module's block.
LEMMA StageIs ==
    ASSUME NEW q, NEW here, NEW mod, Follows(q, here, mod), NEW items, NEW s, Reads(q, items, s), AtModule(s),
           NEW X, Same(q, s, X), "bodies" \notin X, NEW E, X \cap ModuleFields \subseteq E,
           \A f \in E \cap ModuleFields : s[f] = PartOf(mod, f),
           NEW next, DoneAt(next) = DoneAt(here) \cup E, ValuesAt(s, next, mod),
           next \notin {"file", "module", "insts"} \cup AfterModule
    PROVE  Stage(q, items, here, next, mod)
  <1>1. Knows(s, mod, DoneAt(next))
    <2>1. PICK D : D = DoneAt(here)
      OBVIOUS
    <2>2. Knows(q, mod, D)
      BY <2>1, FollowsIs
    <2>3. Knows(s, mod, D \cup E)
      BY <2>2, KnowsMore
    <2> QED
      BY <2>1, <2>3
  <1>2. IsReader(s)
    BY DEF AtModule
  <1>3. OpenAt(s, next)
    BY <1>2 DEF OpenAt
  <1>4. s.bodies = q.bodies
    BY FieldsAre DEF Same
  <1> QED
    BY <1>1, <1>2, <1>3, <1>4 DEF Stage, Follows

LEMMA StandardAbbrevsRead ==
    ASSUME NEW mod, NEW q, Follows(q, "blockinfo", mod)
    PROVE  Stage(q, WriteBlockInfo(mod), "blockinfo", "attributes", mod)
  <1>1. AtModule(q)
    BY FollowsIs DEF OpenAt, AfterModule
  <1>2. IsReader(q) /\ IsSeq(q.open)
    BY <1>1, AtModuleIn
  <1>3. PICK i : Reads(q, WriteBlockInfo(mod), Set(q, "infos", i))
    BY <1>2, ReadsBlockInfo
  <1>4. PICK s : s = Set(q, "infos", i)
    OBVIOUS
  <1>5. AtModule(s) /\ Same(q, s, {"infos"})
    <2>1. "infos" \in Fields
      BY FieldsAre
    <2>2. AtModule(Set(q, "infos", i)) /\ Same(q, Set(q, "infos", i), {"infos"})
      BY <1>1, <2>1, AtModuleSet
    <2> QED
      BY <1>4, <2>2
  <1>6. s.tys = q.tys /\ s.sections = q.sections /\ s.gcs = q.gcs /\ s.tname = q.tname /\ s.told = q.told
    BY <1>5, FieldsAre DEF Same
  <1>7. ValuesAt(s, "attributes", mod)
    BY <1>6, FollowsIs DEF ValuesAt, BeforeInfo, AfterConstants
  <1>8. PICK E, X : E = {} /\ X = {"infos"}
    OBVIOUS
  <1>9. DoneAt("attributes") = DoneAt("blockinfo") \cup E
    BY <1>8 DEF DoneAt
  <1>10. X \cap ModuleFields \subseteq E /\ \A f \in E \cap ModuleFields : s[f] = PartOf(mod, f)
    BY <1>8 DEF ModuleFields
  <1>11. Same(q, s, X) /\ "bodies" \notin X
    BY <1>5, <1>8
  <1>12. "attributes" \notin {"file", "module", "insts"} \cup AfterModule
    BY DEF AfterModule
  <1>13. Reads(q, WriteBlockInfo(mod), s)
    BY <1>3, <1>4
  <1> QED
    BY <1>5, <1>7, <1>9, <1>10, <1>11, <1>12, <1>13, StageIs

LEMMA AttributesStage ==
    ASSUME NEW mod, IsModule(mod), NEW q, Follows(q, "attributes", mod)
    PROVE  Stage(q, WriteAttributeTable(mod), "attributes", "types", mod)
  <1>1. AtModule(q)
    BY FollowsIs DEF OpenAt, AfterModule
  <1>2. IsReader(q) /\ IsSeq(q.open)
    BY <1>1, AtModuleIn
  <1>3. q.attrs = Empty
    BY FollowsIs DEF Knows, ModuleFields, DoneAt
  <1>4. PICK s, v : v = Map(AttributesRead, mod.attrs) /\ s = Set(q, "attrs", v)
    OBVIOUS
  <1>5. AtModule(s) /\ Same(q, s, {"attrs"}) /\ s["attrs"] = v
    <2>1. "attrs" \in Fields
      BY FieldsAre
    <2>2. /\ AtModule(Set(q, "attrs", v)) /\ Same(q, Set(q, "attrs", v), {"attrs"})
          /\ Set(q, "attrs", v)["attrs"] = v
      BY <1>1, <2>1, AtModuleSet
    <2> QED
      BY <1>4, <2>2
  <1>6. s.tys = q.tys /\ s.sections = q.sections /\ s.gcs = q.gcs /\ s.tname = q.tname /\ s.told = q.told
    BY <1>5, FieldsAre DEF Same
  <1>7. ValuesAt(s, "types", mod)
    BY <1>6, FollowsIs DEF ValuesAt, BeforeInfo, AfterConstants
  <1>8. PICK E, X : E = {"attrs"} /\ X = {"attrs"}
    OBVIOUS
  <1>9. DoneAt("types") = DoneAt("attributes") \cup E
    BY <1>8 DEF DoneAt
  <1>10. X \cap ModuleFields \subseteq E /\ \A f \in E \cap ModuleFields : s[f] = PartOf(mod, f)
    BY <1>4, <1>5, <1>8 DEF ModuleFields, PartOf
  <1>11. Same(q, s, X) /\ "bodies" \notin X
    BY <1>5, <1>8
  <1>12. "types" \notin {"file", "module", "insts"} \cup AfterModule
    BY DEF AfterModule
  <1>13. Reads(q, WriteAttributeTable(mod), s)
    BY <1>2, <1>3, <1>4, ReadsAttributes
  <1> QED
    BY <1>5, <1>7, <1>9, <1>10, <1>11, <1>12, <1>13, StageIs

LEMMA TypesStage ==
    ASSUME NEW mod, IsModule(mod), NEW q, Follows(q, "types", mod)
    PROVE  Stage(q, WriteTypeTable(mod), "types", "info", mod)
  <1>1. AtModule(q)
    BY FollowsIs DEF OpenAt, AfterModule
  <1>2. IsReader(q) /\ IsSeq(q.open)
    BY <1>1, AtModuleIn
  <1>3. q.types = Empty /\ q.tname = Empty
    BY FollowsIs DEF Knows, ModuleFields, DoneAt, ValuesAt, BeforeInfo
  <1>4. PICK s, v : v = mod.types /\ s = Set(q, "types", v)
    OBVIOUS
  <1>5. AtModule(s) /\ Same(q, s, {"types"}) /\ s["types"] = v
    <2>1. "types" \in Fields
      BY FieldsAre
    <2>2. /\ AtModule(Set(q, "types", v)) /\ Same(q, Set(q, "types", v), {"types"})
          /\ Set(q, "types", v)["types"] = v
      BY <1>1, <2>1, AtModuleSet
    <2> QED
      BY <1>4, <2>2
  <1>6. s.tys = q.tys /\ s.sections = q.sections /\ s.gcs = q.gcs /\ s.tname = q.tname /\ s.told = q.told
    BY <1>5, FieldsAre DEF Same
  <1>7. ValuesAt(s, "info", mod)
    BY <1>6, FollowsIs DEF ValuesAt, BeforeInfo, AfterConstants
  <1>8. PICK E, X : E = {"types"} /\ X = {"types"}
    OBVIOUS
  <1>9. DoneAt("info") = DoneAt("types") \cup E
    BY <1>8 DEF DoneAt
  <1>10. X \cap ModuleFields \subseteq E /\ \A f \in E \cap ModuleFields : s[f] = PartOf(mod, f)
    BY <1>4, <1>5, <1>8 DEF ModuleFields, PartOf
  <1>11. Same(q, s, X) /\ "bodies" \notin X
    BY <1>5, <1>8
  <1>12. "info" \notin {"file", "module", "insts"} \cup AfterModule
    BY DEF AfterModule
  <1>13. Reads(q, WriteTypeTable(mod), s)
    BY <1>2, <1>3, <1>4, ReadsTypes
  <1> QED
    BY <1>5, <1>7, <1>9, <1>10, <1>11, <1>12, <1>13, StageIs

LEMMA InfoStage ==
    ASSUME NEW mod, IsModule(mod), NEW q, Follows(q, "info", mod)
    PROVE  Stage(q, WriteModuleInfo(mod), "info", "constants", mod)
  <1>1. AtModule(q)
    BY FollowsIs DEF OpenAt, AfterModule
  <1>2. \A f \in ModuleFields : f \notin {"attrs", "types"} => q[f] = Empty
    BY FollowsIs DEF Knows, DoneAt
  <1>3. q.tys = Empty /\ q.sections = Empty /\ q.gcs = Empty
    BY FollowsIs DEF ValuesAt, BeforeInfo
  <1>4. Uninformed(q)
    BY <1>1, <1>2, <1>3 DEF Uninformed, ModuleInfoFields, ModuleFields
  <1>5. PICK s : Reads(q, WriteModuleInfo(mod), s) /\ Informed(q, mod, s)
    BY <1>4, ReadsModuleInfo
  <1>6. s.told = q.told
    BY <1>5, FieldsAre DEF Informed, Same, ModuleInfoFields
  <1>7. ValuesAt(s, "constants", mod)
    BY <1>5, <1>6, FollowsIs DEF ValuesAt, BeforeInfo, AfterConstants, Informed
  <1>8. PICK E, X : E = {"triple", "layout", "asm", "globals", "functions", "aliases"} /\ X = ModuleInfoFields
    OBVIOUS
  <1>9. DoneAt("constants") = DoneAt("info") \cup E
    BY <1>8 DEF DoneAt
  <1>10. X \cap ModuleFields \subseteq E
    BY <1>8 DEF ModuleFields, ModuleInfoFields
  <1>11. /\ s["triple"] = PartOf(mod, "triple") /\ s["layout"] = PartOf(mod, "layout")
         /\ s["asm"] = PartOf(mod, "asm") /\ s["globals"] = PartOf(mod, "globals")
         /\ s["functions"] = PartOf(mod, "functions") /\ s["aliases"] = PartOf(mod, "aliases")
    BY <1>5 DEF Informed, PartOf
  <1>12. \A f \in E \cap ModuleFields : s[f] = PartOf(mod, f)
    BY <1>8, <1>11
  <1>13. Same(q, s, X) /\ "bodies" \notin X /\ AtModule(s)
    BY <1>5, <1>8 DEF Informed, ModuleInfoFields
  <1>14. "constants" \notin {"file", "module", "insts"} \cup AfterModule
    BY DEF AfterModule
  <1> QED
    BY <1>5, <1>7, <1>9, <1>10, <1>12, <1>13, <1>14, StageIs

LEMMA ModuleTypesAre ==
    ASSUME NEW mod, IsModule(mod)
    PROVE  ModuleTypes(mod) = ((Tys(mod.globals) \o Tys(mod.functions)) \o Tys(mod.aliases)) \o Tys(mod.consts)
  BY DEF ModuleTypes, Tys, TyOf

LEMMA ConstantsStage ==
    ASSUME NEW mod, IsModule(mod), NEW q, Follows(q, "constants", mod)
    PROVE  Stage(q, WriteModuleConstants(mod), "constants", "metadata", mod)
  <1>1. AtModule(q)
    BY FollowsIs DEF OpenAt, AfterModule
  <1>2. q.types = mod.types /\ q.consts = Empty
    BY FollowsIs DEF Knows, DoneAt, ModuleFields, PartOf
  <1>3. q.tys = (Tys(mod.globals) \o Tys(mod.functions)) \o Tys(mod.aliases)
    BY FollowsIs DEF ValuesAt
  <1>4. IsSeq(q.tys)
    <2>1. IsSeq(Tys(mod.globals)) /\ IsSeq(Tys(mod.functions)) /\ IsSeq(Tys(mod.aliases))
      BY ModuleLists, TysShape
    <2> QED
      BY <1>3, <2>1, JoinShape
  <1>5. PICK s : /\ Reads(q, WriteModuleConstants(mod), s) /\ AtModule(s)
                 /\ Same(q, s, {"tys", "told", "consts"})
                 /\ s.consts = mod.consts /\ s.tys = q.tys \o Tys(mod.consts)
                 /\ ToldRight(q.told, ModuleTypes(mod)) => ToldRight(s.told, ModuleTypes(mod))
    BY <1>1, <1>2, <1>4, ReadsModuleConstants
  <1>6. s.tys = ModuleTypes(mod)
    BY <1>3, <1>5, ModuleTypesAre
  <1>7. ValuesAt(s, "metadata", mod)
    BY <1>5, <1>6, FollowsIs DEF ValuesAt, BeforeInfo, AfterConstants
  <1>8. PICK E, X : E = {"consts"} /\ X = {"tys", "told", "consts"}
    OBVIOUS
  <1>9. DoneAt("metadata") = DoneAt("constants") \cup E
    BY <1>8 DEF DoneAt, ModuleFields
  <1>10. X \cap ModuleFields \subseteq E /\ \A f \in E \cap ModuleFields : s[f] = PartOf(mod, f)
    BY <1>5, <1>8 DEF ModuleFields, PartOf
  <1>11. Same(q, s, X) /\ "bodies" \notin X
    BY <1>5, <1>8
  <1>12. "metadata" \notin {"file", "module", "insts"} \cup AfterModule
    BY DEF AfterModule
  <1> QED
    BY <1>5, <1>7, <1>9, <1>10, <1>11, <1>12, StageIs

LEMMA MetadataStage ==
    ASSUME NEW mod, IsModule(mod), NEW q, Follows(q, "metadata", mod)
    PROVE  Stage(q, WriteModuleMetadata(mod), "metadata", "kinds", mod)
  <1>1. AtModule(q)
    BY FollowsIs DEF OpenAt, AfterModule
  <1>2. q.types = mod.types /\ q.mds = Empty /\ q.named = Empty
    BY FollowsIs DEF Knows, DoneAt, ModuleFields, PartOf
  <1>5. PICK s : /\ Reads(q, WriteModuleMetadata(mod), s) /\ AtModule(s)
                 /\ Same(q, s, {"mds", "named"}) /\ s.mds = mod.mds /\ s.named = mod.named
    BY <1>1, <1>2, ReadsModuleMetadata
  <1>6. s.tys = q.tys /\ s.told = q.told
    BY <1>5, FieldsAre DEF Same
  <1>7. ValuesAt(s, "kinds", mod)
    BY <1>6, FollowsIs DEF ValuesAt, BeforeInfo, AfterConstants
  <1>8. PICK E, X : E = {"mds", "named"} /\ X = {"mds", "named"}
    OBVIOUS
  <1>9. DoneAt("kinds") = DoneAt("metadata") \cup E
    BY <1>8 DEF DoneAt, ModuleFields
  <1>10. X \cap ModuleFields \subseteq E /\ \A f \in E \cap ModuleFields : s[f] = PartOf(mod, f)
    BY <1>5, <1>8 DEF ModuleFields, PartOf
  <1>11. Same(q, s, X) /\ "bodies" \notin X
    BY <1>5, <1>8
  <1>12. "kinds" \notin {"file", "module", "insts"} \cup AfterModule
    BY DEF AfterModule
  <1> QED
    BY <1>5, <1>7, <1>9, <1>10, <1>11, <1>12, StageIs

LEMMA KindsStage ==
    ASSUME NEW mod, IsModule(mod), NEW q, Follows(q, "kinds", mod)
    PROVE  Stage(q, WriteModuleMetadataStore(mod), "kinds", "names", mod)
  <1>1. AtModule(q)
    BY FollowsIs DEF OpenAt, AfterModule
  <1>2. IsReader(q) /\ IsSeq(q.open)
    BY <1>1, AtModuleIn
  <1>3. q.kinds = Empty
    BY FollowsIs DEF Knows, ModuleFields, DoneAt
  <1>4. PICK s, v : v = KindsRead(mod.kinds) /\ s = Set(q, "kinds", v)
    OBVIOUS
  <1>5. AtModule(s) /\ Same(q, s, {"kinds"}) /\ s["kinds"] = v
    <2>1. "kinds" \in Fields
      BY FieldsAre
    <2>2. /\ AtModule(Set(q, "kinds", v)) /\ Same(q, Set(q, "kinds", v), {"kinds"})
          /\ Set(q, "kinds", v)["kinds"] = v
      BY <1>1, <2>1, AtModuleSet
    <2> QED
      BY <1>4, <2>2
  <1>6. s.tys = q.tys /\ s.told = q.told
    BY <1>5, FieldsAre DEF Same
  <1>7. ValuesAt(s, "names", mod)
    BY <1>6, FollowsIs DEF ValuesAt, BeforeInfo, AfterConstants
  <1>8. PICK E, X : E = {"kinds"} /\ X = {"kinds"}
    OBVIOUS
  <1>9. DoneAt("names") = DoneAt("kinds") \cup E
    BY <1>8 DEF DoneAt, ModuleFields
  <1>10. X \cap ModuleFields \subseteq E /\ \A f \in E \cap ModuleFields : s[f] = PartOf(mod, f)
    BY <1>4, <1>5, <1>8 DEF ModuleFields, PartOf
  <1>11. Same(q, s, X) /\ "bodies" \notin X
    BY <1>5, <1>8
  <1>12. "names" \notin {"file", "module", "insts"} \cup AfterModule
    BY DEF AfterModule
  <1>13. Reads(q, WriteModuleMetadataStore(mod), s)
    BY <1>2, <1>3, <1>4, ReadsKinds
  <1> QED
    BY <1>5, <1>7, <1>9, <1>10, <1>11, <1>12, <1>13, StageIs

LEMMA NamesStage ==
    ASSUME NEW mod, IsModule(mod), NEW q, Follows(q, "names", mod)
    PROVE  Stage(q, WriteValueSymbolTable(mod.names), "names", "uselists", mod)
  <1>1. AtModule(q)
    BY FollowsIs DEF OpenAt, AfterModule
  <1>2. IsReader(q) /\ IsSeq(q.open) /\ Where(q, "module")
    BY <1>1, AtModuleWhere
  <1>3. q.names = Empty /\ Got(q, "module", "names") = Empty
    BY FollowsIs DEF Knows, ModuleFields, DoneAt, Got
  <1>4. PICK s, v : v = mod.names /\ s = Set(q, "names", v)
    OBVIOUS
  <1>5. AtModule(s) /\ Same(q, s, {"names"}) /\ s["names"] = v
    <2>1. "names" \in Fields
      BY FieldsAre
    <2>2. /\ AtModule(Set(q, "names", v)) /\ Same(q, Set(q, "names", v), {"names"})
          /\ Set(q, "names", v)["names"] = v
      BY <1>1, <2>1, AtModuleSet
    <2> QED
      BY <1>4, <2>2
  <1>6. s.tys = q.tys /\ s.told = q.told
    BY <1>5, FieldsAre DEF Same
  <1>7. ValuesAt(s, "uselists", mod)
    BY <1>6, FollowsIs DEF ValuesAt, BeforeInfo, AfterConstants
  <1>8. PICK E, X : E = {"names"} /\ X = {"names"}
    OBVIOUS
  <1>9. DoneAt("uselists") = DoneAt("names") \cup E
    BY <1>8 DEF DoneAt, ModuleFields
  <1>10. X \cap ModuleFields \subseteq E /\ \A f \in E \cap ModuleFields : s[f] = PartOf(mod, f)
    BY <1>4, <1>5, <1>8 DEF ModuleFields, PartOf
  <1>11. Same(q, s, X) /\ "bodies" \notin X
    BY <1>5, <1>8
  <1>12. "uselists" \notin {"file", "module", "insts"} \cup AfterModule
    BY DEF AfterModule
  <1>13. Reads(q, WriteValueSymbolTable(mod.names), s)
    <2>1. mod.names \in Seq(NameEntries)
      BY DEF IsModule
    <2>2. Reads(q, WriteValueSymbolTable(mod.names), Put(q, "module", "names", mod.names))
      BY <1>2, <1>3, <2>1, ReadsSymbolTable
    <2>3. Put(q, "module", "names", mod.names) = s
      BY <1>4 DEF Put, PutField, PutValue
    <2> QED
      BY <2>2, <2>3
  <1> QED
    BY <1>5, <1>7, <1>9, <1>10, <1>11, <1>12, <1>13, StageIs

LEMMA UseListsStage ==
    ASSUME NEW mod, IsModule(mod), NEW q, Follows(q, "uselists", mod)
    PROVE  Stage(q, WriteModuleUseLists(mod), "uselists", "function", mod)
  <1>1. AtModule(q)
    BY FollowsIs DEF OpenAt, AfterModule
  <1>2. IsReader(q) /\ IsSeq(q.open) /\ mod.preserveUseLists \in BOOLEAN
    BY <1>1, AtModuleIn DEF IsModule
  <1>3. Reads(q, WriteModuleUseLists(mod), q)
    BY <1>2, ReadsUseLists
  <1>4. PICK E : E = {}
    OBVIOUS
  <1>5. Same(q, q, E) /\ "bodies" \notin E /\ E \cap ModuleFields \subseteq E
          /\ \A f \in E \cap ModuleFields : q[f] = PartOf(mod, f)
    BY <1>4 DEF Same
  <1>6. DoneAt("function") = DoneAt("uselists") \cup E
    BY <1>4 DEF DoneAt
  <1>7. ValuesAt(q, "function", mod)
    BY FollowsIs DEF ValuesAt, BeforeInfo, AfterConstants
  <1>8. "function" \notin {"file", "module", "insts"} \cup AfterModule
    BY DEF AfterModule
  <1> QED
    BY <1>1, <1>3, <1>5, <1>6, <1>7, <1>8, StageIs

LEMMA EndModuleReads ==
    ASSUME NEW mod, IsModule(mod), NEW q, Follows(q, "function", mod)
    PROVE  Stage(q, <<Exit>>, "function", "trailer", mod)
  <1>1. AtModule(q)
    BY FollowsIs DEF OpenAt, AfterModule
  <1>2. IsReader(q)
    BY <1>1 DEF AtModule
  <1>3. PICK t : q.open = Append(Empty, t) /\ t.id = 8
    BY <1>1, FrameFields DEF AtModule
  <1>4. Reads(q, <<Exit>>, Set(q, "open", Empty))
    <2>1. PICK o : o = Empty
      OBVIOUS
    <2>2. IsSeq(o) /\ q.open = Append(o, t) /\ t.id # 12
      BY <1>3, <2>1, NoneSeq
    <2>3. Reads(q, <<Exit>>, Set(q, "open", o))
      BY <1>2, <2>2, ReadsClose
    <2> QED
      BY <2>1, <2>3, Zenon
  <1>5. PICK s : s = Set(q, "open", Empty)
    OBVIOUS
  <1>6. IsReader(s) /\ s["open"] = Empty /\ \A f \in Fields : f # "open" => s[f] = q[f]
    <2>1. "open" \in Fields
      BY FieldsAre
    <2> QED
      BY <1>2, <1>5, <2>1, SetFields
  <1>7. s.tys = q.tys /\ s.told = q.told /\ s.bodies = q.bodies
    BY <1>6, FieldsAre
  <1>8. Same(q, s, {"open"})
    BY <1>6 DEF Same
  <1>9. Knows(s, mod, DoneAt("trailer"))
    <2>1. Knows(s, mod, DoneAt("function"))
      BY <1>8, KnowsSame, FollowsIs DEF Others
    <2> QED
      BY <2>1 DEF DoneAt
  <1>10. OpenAt(s, "trailer")
    BY <1>6 DEF OpenAt, AfterModule
  <1>11. ValuesAt(s, "trailer", mod)
    BY <1>7, FollowsIs DEF ValuesAt, BeforeInfo, AfterConstants
  <1> QED
    BY <1>4, <1>5, <1>6, <1>7, <1>9, <1>10, <1>11 DEF Stage, Follows

------------------------------------------------------------------------------
(* Which body comes when.                                                   *)

DefinedFunctions(list) == Kept(LAMBDA f : f.isproto = 0, list)
DefinedAt(list) == {k \in 1..Len(list) : list[k].isproto = 0}
\* What is defined of the first k functions, for every k.
InOrder(P, list) == KeptUpTo(P, list, DefinedAt(list), Len(list)) /\ DefinedFunctions(list) = P[Len(list)]
Order(list) == CHOOSE P : InOrder(P, list)

LEMMA OrderIs ==
    ASSUME NEW list, IsSeq(list)
    PROVE  InOrder(Order(list), list)
  <1> DEFINE n == Len(list)
             T == DefinedAt(list)
             ss == [k \in DOMAIN list |-> IF list[k].isproto = 0 THEN <<list[k]>> ELSE Empty]
  <1>1. DOMAIN list = 1..n /\ n \in Nat
    BY SeqShape
  <1>2. DOMAIN ss = DOMAIN list /\ ss = [k \in DOMAIN ss |-> ss[k]]
    OBVIOUS
  <1>3. \A k \in 1..n : ss[k] = IF k \in T THEN <<list[k]>> ELSE Empty
    BY <1>1 DEF DefinedAt
  <1>4. DefinedFunctions(list) = FlattenSeq(ss)
    BY DEF DefinedFunctions, Kept, Flat, Map, One, Empty
  <1> HIDE DEF ss, T
  <1>5. IsSeq(ss) /\ Len(ss) = n
    BY <1>2, MapShape
  <1>6. \E P : KeptUpTo(P, list, T, Len(ss)) /\ FlattenSeq(ss) = P[Len(ss)]
    BY <1>3, <1>5, KeptJoined
  <1>7. \E P : InOrder(P, list)
    BY <1>4, <1>5, <1>6 DEF InOrder, T
  <1> QED
    BY <1>7 DEF Order

\* The bodies before that of function f.
BodiesBefore(list, f) == Len(Order(list)[f - 1])

LEMMA BodiesCount ==
    ASSUME NEW list, IsSeq(list), NEW f \in 1..Len(list)
    PROVE  /\ BodiesBefore(list, f) \in Nat
           /\ list[f].isproto = 0 => /\ BodiesBefore(list, f + 1) = BodiesBefore(list, f) + 1
                                     /\ DefinedFunctions(list)[BodiesBefore(list, f) + 1] = list[f]
           /\ list[f].isproto # 0 => BodiesBefore(list, f + 1) = BodiesBefore(list, f)
  <1>1. PICK P, n, T : P = Order(list) /\ n = Len(list) /\ T = DefinedAt(list)
    OBVIOUS
  <1>2. n \in Nat
    BY <1>1, SeqShape
  <1>3. KeptUpTo(P, list, T, n) /\ DefinedFunctions(list) = P[n]
    BY <1>1, OrderIs DEF InOrder
  <1>4. KeptFrom(P, list, T, n)
    BY <1>2, <1>3, KeptShape
  <1>5. f \in 1..n /\ f - 1 \in 0..n /\ f \in 0..n /\ (f + 1) - 1 = f /\ n \in 0..n
    BY <1>1, <1>2
  <1>6. IsSeq(P[f - 1]) /\ Len(P[f - 1]) \in Nat
    BY <1>3, <1>5, SeqShape DEF KeptUpTo
  <1>7. f \in T <=> list[f].isproto = 0
    BY <1>1 DEF DefinedAt
  <1>8. f \in T => P[f] = Append(P[f - 1], list[f]) /\ Len(P[f]) = Len(P[f - 1]) + 1
    <2>1. f \in T => P[f] = Append(P[f - 1], list[f])
      BY <1>3, <1>5 DEF KeptUpTo
    <2>2. Len(Append(P[f - 1], list[f])) = Len(P[f - 1]) + 1
      BY <1>6, AppendShape
    <2> QED
      BY <2>1, <2>2
  <1>9. f \notin T => P[f] = P[f - 1]
    BY <1>3, <1>5 DEF KeptUpTo
  <1>10. f \in T => P[n][Len(P[f - 1]) + 1] = list[f]
    BY <1>4, <1>5 DEF KeptFrom
  <1> QED
    BY <1>1, <1>3, <1>5, <1>6, <1>7, <1>8, <1>9, <1>10 DEF BodiesBefore

LEMMA NoneBefore ==
    ASSUME NEW list, IsSeq(list)
    PROVE  BodiesBefore(list, 1) = 0
  <1>1. Order(list)[0] = Empty
    BY OrderIs DEF InOrder, KeptUpTo
  <1> QED
    BY <1>1, NoneSeq DEF BodiesBefore

\* Declarations have no bodies.
LEMMA NoneBetween ==
    ASSUME NEW list, IsSeq(list), NEW f \in 1..(Len(list) + 1), NEW g \in f..(Len(list) + 1),
           \A h \in f..(g - 1) : list[h].isproto # 0
    PROVE  BodiesBefore(list, g) = BodiesBefore(list, f)
  <1> DEFINE P(k) == f + k <= g => BodiesBefore(list, f + k) = BodiesBefore(list, f)
  <1>1. Len(list) \in Nat
    BY SeqShape
  <1>2. P(0)
    OBVIOUS
  <1>3. ASSUME NEW k \in Nat, P(k) PROVE P(k + 1)
    <2>1. SUFFICES ASSUME f + (k + 1) <= g PROVE BodiesBefore(list, f + (k + 1)) = BodiesBefore(list, f)
      OBVIOUS
    <2>2. PICK h : h = f + k
      OBVIOUS
    <2>3. h \in f..(g - 1) /\ h \in 1..Len(list) /\ h + 1 = f + (k + 1)
      BY <1>1, <2>1, <2>2
    <2>4. BodiesBefore(list, h) = BodiesBefore(list, f)
      BY <1>1, <1>3, <2>1, <2>2
    <2>5. BodiesBefore(list, h + 1) = BodiesBefore(list, h)
      BY <2>3, BodiesCount
    <2> QED
      BY <2>3, <2>4, <2>5
  <1> HIDE DEF P
  <1>4. \A k \in Nat : P(k)
    <2> DEFINE S == {k \in Nat : P(k)}
    <2>1. 0 \in S /\ \A k \in Nat : k \in S => k + 1 \in S
      BY <1>2, <1>3
    <2> HIDE DEF S
    <2>2. Nat \subseteq S
      BY <2>1, NatSetInduction
    <2> QED
      BY <2>2 DEF S
  <1>5. PICK k \in Nat : f + k = g
    BY <1>1
  <1>6. P(k)
    BY <1>4
  <1> QED
    BY <1>1, <1>5, <1>6 DEF P

\* Where the reader gets to.
LEMMA ReadsTo ==
    ASSUME NEW r, IsReader(r), NEW s, IsReader(s), NEW items, Reads(r, items, s)
    PROVE  Like(ReadAll(r, items), s) /\ ReadAll(r, items).bytes = r.bytes
  <1>1. PICK m, b : m = r.misfits /\ b = r.bytes
    OBVIOUS
  <1>2. With(r, m, b) = r
    <2>1. "misfits" \in Fields /\ "bytes" \in Fields
      BY FieldsAre
    <2>2. Set(r, "misfits", r["misfits"]) = r /\ Set(r, "bytes", r["bytes"]) = r
      BY <2>1, SetFields
    <2> QED
      BY <1>1, <2>2 DEF With
  <1>3. PICK n : ReadAll(With(r, m, b), items) = With(s, n, b)
    BY DEF Reads
  <1>4. PICK y : y = With(s, n, b)
    OBVIOUS
  <1>5. ReadAll(r, items) = y
    BY <1>2, <1>3, <1>4
  <1>6. IsReader(y) /\ y["bytes"] = b /\ \A f \in Fields \ {"misfits", "bytes"} : y[f] = s[f]
    BY <1>4, WithReader
  <1>7. Like(y, s)
    BY <1>6 DEF Like
  <1> QED
    BY <1>1, <1>5, <1>6, <1>7

FreshBody(params) ==
  [args |-> params, blocks |-> 0, consts |-> <<>>, local |-> <<>>, insts |-> <<>>, names |-> <<>>,
   told |-> {}, lastloc |-> Unknown]

LEMMA FreshBodyIs ==
    ASSUME NEW params
    PROVE  /\ IsBodyRead(FreshBody(params)) /\ FreshBody(params)["args"] = params
           /\ FreshBody(params)["consts"] = Empty /\ FreshBody(params)["local"] = Empty
           /\ FreshBody(params)["insts"] = Empty /\ FreshBody(params)["names"] = Empty
           /\ FreshBody(params)["lastloc"] = Unknown
  BY DEF FreshBody, IsBodyRead, IsRecord, BodyFields, Empty

\* A body is entered and left.
EnteredBody(r, params, z) ==
  /\ IsReader(z) /\ Same(r, z, {"tys", "moduleTys", "moduleTold", "told", "bodies"})
  /\ z.tys = r.tys \o params /\ z.moduleTys = r.tys /\ z.moduleTold = r.told /\ z.told = {}
  /\ z.bodies = Append(r.bodies, FreshBody(params))
FiveSet(r, a, b, c, d, e) ==
  Set(Set(Set(Set(Set(r, "tys", a), "moduleTys", b), "moduleTold", c), "told", d), "bodies", e)

LEMMA FiveIs ==
    ASSUME NEW r, IsReader(r), NEW a, NEW b, NEW c, NEW d, NEW e, NEW z, z = FiveSet(r, a, b, c, d, e)
    PROVE  /\ IsReader(z) /\ Same(r, z, {"tys", "moduleTys", "moduleTold", "told", "bodies"})
           /\ z.tys = a /\ z.moduleTys = b /\ z.moduleTold = c /\ z.told = d /\ z.bodies = e
  <1>1. PICK z1, z2, z3, z4 : /\ z1 = Set(r, "tys", a) /\ z2 = Set(z1, "moduleTys", b)
                              /\ z3 = Set(z2, "moduleTold", c) /\ z4 = Set(z3, "told", d)
    OBVIOUS
  <1>2. z = Set(z4, "bodies", e)
    BY <1>1 DEF FiveSet
  <1>3. /\ "tys" \in Fields /\ "moduleTys" \in Fields /\ "moduleTold" \in Fields /\ "told" \in Fields
        /\ "bodies" \in Fields
    BY FieldsAre
  <1>4. IsReader(z1) /\ z1["tys"] = a /\ \A f \in Fields : f # "tys" => z1[f] = r[f]
    BY <1>1, <1>3, SetFields
  <1>5. IsReader(z2) /\ z2["moduleTys"] = b /\ \A f \in Fields : f # "moduleTys" => z2[f] = z1[f]
    BY <1>1, <1>3, <1>4, SetFields
  <1>6. IsReader(z3) /\ z3["moduleTold"] = c /\ \A f \in Fields : f # "moduleTold" => z3[f] = z2[f]
    BY <1>1, <1>3, <1>5, SetFields
  <1>7. IsReader(z4) /\ z4["told"] = d /\ \A f \in Fields : f # "told" => z4[f] = z3[f]
    BY <1>1, <1>3, <1>6, SetFields
  <1>8. IsReader(z) /\ z["bodies"] = e /\ \A f \in Fields : f # "bodies" => z[f] = z4[f]
    BY <1>2, <1>3, <1>7, SetFields
  <1>9. z["tys"] = a /\ z["moduleTys"] = b /\ z["moduleTold"] = c /\ z["told"] = d
    BY <1>3, <1>4, <1>5, <1>6, <1>7, <1>8
  <1>10. \A f \in Fields : f \notin {"tys", "moduleTys", "moduleTold", "told", "bodies"} => z[f] = r[f]
    BY <1>4, <1>5, <1>6, <1>7, <1>8
  <1> QED
    BY <1>8, <1>9, <1>10 DEF Same

LEMMA EnterBodyIs ==
    ASSUME NEW r, IsReader(r),
           NEW params, params = ParamTypes(PointedTo(r, DefinedFunctions(r.functions)[Len(r.bodies) + 1].ty)),
           NEW z, z = EnterBody(r)
    PROVE  EnteredBody(r, params, z)
  <1>1. z = [r EXCEPT !.tys = @ \o params, !.moduleTys = r.tys, !.moduleTold = r.told, !.told = {},
                      !.bodies = Append(@, FreshBody(params))]
    BY DEF EnterBody, DefinedFunctions, FreshBody
  <1>2. z = FiveSet(r, r.tys \o params, r.tys, r.told, {}, Append(r.bodies, FreshBody(params)))
    BY <1>1, FieldsAre DEF FiveSet, Set, IsReader
  <1>3. PICK a, b, c, d, e : /\ a = r.tys \o params /\ b = r.tys /\ c = r.told /\ d = {}
                             /\ e = Append(r.bodies, FreshBody(params))
    OBVIOUS
  <1>4. z = FiveSet(r, a, b, c, d, e)
    BY <1>2, <1>3
  <1>5. /\ IsReader(z) /\ Same(r, z, {"tys", "moduleTys", "moduleTold", "told", "bodies"})
        /\ z.tys = a /\ z.moduleTys = b /\ z.moduleTold = c /\ z.told = d /\ z.bodies = e
    BY <1>4, FiveIs
  <1> QED
    BY <1>3, <1>5, Zenon DEF EnteredBody

OpenInBody(r) ==
  \E a, c : IsSeq(a) /\ r.open = Append(Append(Empty, Frame(8, 3, a, NoType)), Frame(12, 4, c, NoType))
\* The body t is read, after those of past; the module is known.
ReadingAfter(r, past, t) == IsBodyRead(t) /\ IsSeq(past) /\ r.bodies = Append(past, t)
Keeping(r, mod) ==
  /\ IsReader(r) /\ Knows(r, mod, ModuleFields)
  /\ r.moduleTys = ModuleTypes(mod) /\ ToldRight(r.moduleTold, ModuleTypes(mod))
  /\ IsSeq(r.tys)
InBody(r, mod, past, t) == OpenInBody(r) /\ Keeping(r, mod) /\ ReadingAfter(r, past, t)
BodyChanges == {"tys", "told", "bodies", "misfits", "bytes"}

LEMMA KeepingStays ==
    ASSUME NEW r, NEW mod, Keeping(r, mod), NEW s, IsReader(s), Same(r, s, BodyChanges \cup {"open", "infos"}), IsSeq(s.tys)
    PROVE  Keeping(s, mod)
  <1>1. \A f \in ModuleFields : s[f] = r[f]
    BY ModuleFieldsAre DEF Same, ModuleFields, BodyChanges
  <1>2. Knows(s, mod, ModuleFields)
    BY <1>1 DEF Keeping, Knows
  <1>3. s.moduleTys = r.moduleTys /\ s.moduleTold = r.moduleTold
    BY FieldsAre DEF Same, BodyChanges
  <1> QED
    BY <1>2, <1>3 DEF Keeping

LEMMA BodyStays ==
    ASSUME NEW r, NEW mod, NEW past, NEW t, InBody(r, mod, past, t), NEW s, IsReader(s),
           Same(r, s, BodyChanges), IsSeq(s.tys), NEW u, ReadingAfter(s, past, u)
    PROVE  InBody(s, mod, past, u)
  <1>1. Keeping(s, mod)
    <2>1. Same(r, s, BodyChanges \cup {"open", "infos"})
      BY DEF Same
    <2> QED
      BY <2>1, KeepingStays DEF InBody
  <1>2. s.open = r.open
    BY FieldsAre DEF Same, BodyChanges
  <1>3. OpenInBody(s)
    BY <1>2 DEF InBody, OpenInBody
  <1> QED
    BY <1>1, <1>3 DEF InBody

LEMMA InBodyIs ==
    ASSUME NEW r, NEW mod, NEW past, NEW t, InBody(r, mod, past, t)
    PROVE  /\ IsReader(r) /\ IsSeq(r.open) /\ IsSeq(r.tys) /\ InFunction(r) /\ Where(r, "body")
           /\ r.types = mod.types /\ Top(r).id = 12 /\ Last(r.bodies) = t /\ IsBodyRead(t)
           /\ \A f : Got(r, "body", f) = t[f]
  <1>1. IsReader(r) /\ IsSeq(r.tys) /\ IsBodyRead(t)
    BY DEF InBody, Keeping, ReadingAfter
  <1>2. PICK a, c, m, o, u : /\ IsSeq(a) /\ m = Frame(8, 3, a, NoType) /\ o = Append(Empty, m)
                             /\ u = Frame(12, 4, c, NoType) /\ r.open = Append(o, u)
    BY DEF InBody, OpenInBody
  <1>3. IsSeq(o)
    BY <1>2, NoneSeq, AppendShape
  <1>4. IsSeq(r.open) /\ Len(r.open) = Len(o) + 1 /\ r.open[Len(o) + 1] = u /\ Last(r.open) = u
    <2>1. AppendsOne(Append(o, u), o, u)
      BY <1>3, AppendIs
    <2>2. Last(Append(o, u)) = u
      BY <1>3, EndsAre
    <2> QED
      BY <1>2, <2>1, <2>2 DEF AppendsOne
  <1>5. u.id = 12
    BY <1>2, FrameFields
  <1>6. InFunction(r)
    <2>1. Len(o) \in Nat
      BY <1>3 DEF IsSeq
    <2>2. Len(o) + 1 \in DOMAIN r.open
      BY <1>4, <2>1, SeqShape
    <2> QED
      BY <1>4, <1>5, <2>2 DEF InFunction, BlockIDs
  <1>7. PICK p : IsSeq(p) /\ r.bodies = Append(p, t)
    BY DEF InBody, ReadingAfter
  <1>8. Last(r.bodies) = t
    BY <1>7, EndsAre
  <1>9. Where(r, "body")
    BY <1>1, <1>6, <1>7 DEF Where
  <1>10. r.types = mod.types
    BY DEF InBody, Keeping, Knows, ModuleFields, PartOf
  <1>11. Top(r).id = 12
    BY <1>4, <1>5 DEF Top
  <1> QED
    BY <1>1, <1>4, <1>6, <1>8, <1>9, <1>10, <1>11 DEF Got

\* Of the body something is set.
LEMMA SetBodyStays ==
    ASSUME NEW r, NEW mod, NEW past, NEW t, InBody(r, mod, past, t), NEW f \in BodyFields, NEW x,
           NEW u, u = Updated(t, f, x), NEW s, s = SetBody(r, f, x)
    PROVE  /\ InBody(s, mod, past, u) /\ s.tys = r.tys /\ s.told = r.told /\ Same(r, s, {"bodies"})
           /\ u[f] = x /\ \A g \in BodyFields : g # f => u[g] = t[g]
  <1>1. IsReader(r) /\ IsSeq(r.tys) /\ IsBodyRead(t)
    BY InBodyIs
  <1>2. PICK o : IsSeq(o) /\ o = past /\ r.bodies = Append(o, t)
    BY DEF InBody, ReadingAfter
  <1>3. s = Set(r, "bodies", Append(o, u))
    BY <1>1, <1>2, SetBodyIs
  <1>4. PICK b : b = Append(o, u)
    OBVIOUS
  <1>5. IsReader(s) /\ s["bodies"] = b /\ \A g \in Fields : g # "bodies" => s[g] = r[g]
    <2>1. "bodies" \in Fields
      BY FieldsAre
    <2>2. IsReader(Set(r, "bodies", b)) /\ Set(r, "bodies", b)["bodies"] = b
            /\ \A g \in Fields : g # "bodies" => Set(r, "bodies", b)[g] = r[g]
      BY <1>1, <2>1, SetFields
    <2> QED
      BY <1>3, <1>4, <2>2, Zenon
  <1>6. IsBodyRead(u) /\ u[f] = x /\ \A g \in BodyFields : g # f => u[g] = t[g]
    BY <1>1, UpdatedShape
  <1>7. ReadingAfter(s, past, u)
    BY <1>2, <1>4, <1>5, <1>6 DEF ReadingAfter
  <1>8. Same(r, s, {"bodies"}) /\ Same(r, s, BodyChanges) /\ s.tys = r.tys /\ s.told = r.told
    BY <1>5, FieldsAre DEF Same, BodyChanges
  <1>9. InBody(s, mod, past, u)
    BY <1>1, <1>5, <1>7, <1>8, BodyStays
  <1> QED
    BY <1>6, <1>8, <1>9

LEMMA LikeInBody ==
    ASSUME NEW u, NEW r, Like(u, r), NEW mod, NEW past, NEW t, InBody(r, mod, past, t)
    PROVE  InBody(u, mod, past, t) /\ u.tys = r.tys /\ u.told = r.told
  <1>1. IsReader(u) /\ u.tys = r.tys /\ u.told = r.told /\ u.bodies = r.bodies
    BY LikeFields
  <1>2. Same(r, u, BodyChanges)
    BY DEF Like, Same, BodyChanges
  <1>3. ReadingAfter(u, past, t) /\ IsSeq(u.tys)
    BY <1>1, InBodyIs DEF InBody, ReadingAfter
  <1> QED
    BY <1>1, <1>2, <1>3, BodyStays
==============================================================================
