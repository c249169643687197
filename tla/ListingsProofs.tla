--------------------------- MODULE ListingsProofs ---------------------------
(***************************************************************************)
(* Proofs about Listings: what a client gets page by page, what a walk     *)
(* through pages it reorders itself reaches, and what the loops over the   *)
(* trash and over the children leave behind, for any number of rows and    *)
(* any page size.  The first part is about Only, the order-keeping         *)
(* selection that every page is made of.                                   *)
(***************************************************************************)
EXTENDS Listings, TLAPS, FiniteSetTheorems, SequenceTheorems, WellFoundedInduction

(* Induction, for sets: over the numbers and over the sequences. *)
LEMMA NatInd ==
    ASSUME NEW X \in SUBSET Nat, 0 \in X, \A n \in X : n + 1 \in X
    PROVE  X = Nat
  <1> SUFFICES ASSUME Nat \ X # {} PROVE FALSE
      OBVIOUS
  <1>1. PICK k \in Nat \ X : \A j \in Nat \ X : <<j, k>> \notin OpToRel(<, Nat)
      BY WFMin, NatLessThanWellFounded
  <1>2. k # 0 /\ k - 1 \in Nat
      OBVIOUS
  <1>3. <<k - 1, k>> \in OpToRel(<, Nat)
      BY <1>2 DEF OpToRel
  <1>4. k - 1 \in X
      BY <1>1, <1>2, <1>3
  <1> QED BY <1>4

LEMMA SeqInd ==
    ASSUME NEW D, NEW X \in SUBSET Seq(D), <<>> \in X, \A s \in X, d \in D : Append(s, d) \in X
    PROVE  X = Seq(D)
  <1> DEFINE N == {n \in Nat : \A s \in Seq(D) : Len(s) = n => s \in X}
  <1>1. 0 \in N
    <2>1. \A s \in Seq(D) : Len(s) = 0 => s = <<>>
        BY EmptySeq
    <2> QED BY <2>1
  <1>2. ASSUME NEW n \in N PROVE n + 1 \in N
    <2> SUFFICES ASSUME NEW s \in Seq(D), Len(s) = n + 1 PROVE s \in X
        OBVIOUS
    <2>1. s # <<>>
        OBVIOUS
    <2>2. PICK t \in Seq(D), d \in D : s = Append(t, d)
        BY <2>1, SequenceEmptyOrAppend
    <2>3. Len(t) = n
        BY <2>2
    <2> QED BY <2>2, <2>3
  <1>3. N = Nat
    <2> HIDE DEF N
    <2>1. N \in SUBSET Nat
        BY DEF N
    <2> QED BY <1>1, <1>2, <2>1, NatInd
  <1>4. \A s \in Seq(D) : Len(s) \in Nat
      OBVIOUS
  <1> QED BY <1>3, <1>4
----------------------------------------------------------------------------
(* The function Only is computed with: its entry i is the selection from    *)
(* the first i entries of s.                                                *)
IsUpTo(f, s, S, n) ==
    f = [i \in 0 .. n |-> IF i = 0 THEN <<>>
                          ELSE IF s[i] \in S THEN Append(f[i - 1], s[i]) ELSE f[i - 1]]

LEMMA UpToAt ==
    ASSUME NEW f, NEW s, NEW S, NEW n \in Nat, IsUpTo(f, s, S, n), NEW i \in 0 .. n
    PROVE  f[i] = IF i = 0 THEN <<>>
                  ELSE IF s[i] \in S THEN Append(f[i - 1], s[i]) ELSE f[i - 1]
  <1>1. ASSUME NEW g, NEW h,
               g = [j \in 0 .. n |-> IF j = 0 THEN <<>>
                                     ELSE IF s[j] \in S THEN Append(h[j - 1], s[j]) ELSE h[j - 1]]
        PROVE  g[i] = IF i = 0 THEN <<>>
                      ELSE IF s[i] \in S THEN Append(h[i - 1], s[i]) ELSE h[i - 1]
      BY <1>1
  <1> QED BY <1>1, Zenon DEF IsUpTo

(* There is such a function, for any length. *)
LEMMA UpToExists ==
    ASSUME NEW s, NEW S
    PROVE  \A n \in Nat : \E f : IsUpTo(f, s, S, n)
  <1> DEFINE N == {n \in Nat : \E f : IsUpTo(f, s, S, n)}
  <1>1. 0 \in N
    <2> DEFINE f == [i \in 0 .. 0 |-> <<>>]
    <2>1. IsUpTo(f, s, S, 0)
        BY DEF IsUpTo
    <2> QED BY <2>1
  <1>2. ASSUME NEW n \in N PROVE n + 1 \in N
    <2>1. PICK f : IsUpTo(f, s, S, n)
        OBVIOUS
    <2> DEFINE g == [i \in 0 .. n + 1 |->
                       IF i = 0 THEN <<>>
                       ELSE IF s[i] \in S THEN Append(f[i - 1], s[i]) ELSE f[i - 1]]
    <2>2. \A i \in 0 .. n : g[i] = f[i]
      <3> SUFFICES ASSUME NEW i \in 0 .. n PROVE g[i] = f[i]
          OBVIOUS
      <3>1. g[i] = IF i = 0 THEN <<>>
                   ELSE IF s[i] \in S THEN Append(f[i - 1], s[i]) ELSE f[i - 1]
          OBVIOUS
      <3> HIDE DEF g
      <3> QED BY <2>1, <3>1, UpToAt
    <2>3. \A i \in 0 .. n + 1 : i # 0 => i - 1 \in 0 .. n
        OBVIOUS
    <2>4. IsUpTo(g, s, S, n + 1)
        BY <2>2, <2>3 DEF IsUpTo
    <2> QED BY <2>4
  <1>3. N = Nat
    <2> HIDE DEF N
    <2>1. N \in SUBSET Nat
        BY DEF N
    <2> QED BY <1>1, <1>2, <2>1, NatInd
  <1> QED BY <1>3

(* Two of them agree as far as the sequences do. *)
LEMMA UpToAgree ==
    ASSUME NEW S, NEW f, NEW s, NEW n \in Nat, IsUpTo(f, s, S, n),
           NEW g, NEW t, NEW m \in Nat, IsUpTo(g, t, S, m),
           NEW k \in Nat, k <= n, k <= m, \A i \in 1 .. k : s[i] = t[i]
    PROVE  f[k] = g[k]
  <1> DEFINE N == {i \in Nat : i <= k => f[i] = g[i]}
  <1>1. 0 \in N
      BY DEF IsUpTo
  <1>2. ASSUME NEW i \in N PROVE i + 1 \in N
    <2> SUFFICES ASSUME i + 1 <= k PROVE f[i + 1] = g[i + 1]
        OBVIOUS
    <2>1. /\ i + 1 \in 0 .. n /\ i + 1 \in 0 .. m /\ i + 1 \in 1 .. k /\ i + 1 # 0
          /\ (i + 1) - 1 = i /\ f[i] = g[i]
        OBVIOUS
    <2>2. /\ f[i + 1] = IF s[i + 1] \in S THEN Append(f[i], s[i + 1]) ELSE f[i]
          /\ g[i + 1] = IF t[i + 1] \in S THEN Append(g[i], t[i + 1]) ELSE g[i]
      <3> HIDE DEF N
      <3> QED BY <2>1, UpToAt
    <2> QED BY <2>1, <2>2
  <1>3. N = Nat
    <2> HIDE DEF N
    <2>1. N \in SUBSET Nat
        BY DEF N
    <2> QED BY <1>1, <1>2, <2>1, NatInd
  <1> QED BY <1>3

LEMMA OnlyUpTo ==
    ASSUME NEW s, NEW S, Len(s) \in Nat
    PROVE  \E f : IsUpTo(f, s, S, Len(s)) /\ Only(s, S) = f[Len(s)]
  <1> DEFINE c == CHOOSE f : IsUpTo(f, s, S, Len(s))
  <1>1. IsUpTo(c, s, S, Len(s))
      BY UpToExists
  <1>2. Only(s, S) = c[Len(s)]
      BY DEF Only, IsUpTo
  <1> QED BY <1>1, <1>2

(* What Only is for the empty sequence and for one entry more. *)
LEMMA OnlyEmpty ==
    ASSUME NEW S
    PROVE  Only(<<>>, S) = <<>>
  <1>1. Len(<<>>) = 0
      OBVIOUS
  <1>2. PICK f : IsUpTo(f, <<>>, S, 0) /\ Only(<<>>, S) = f[0]
      BY <1>1, OnlyUpTo
  <1> QED BY <1>2 DEF IsUpTo

LEMMA OnlyAppend ==
    ASSUME NEW D, NEW S, NEW s \in Seq(D), NEW x \in D
    PROVE  Only(Append(s, x), S) = IF x \in S THEN Append(Only(s, S), x) ELSE Only(s, S)
  <1>1. PICK t : t = Append(s, x)
      OBVIOUS
  <1>2. PICK n \in Nat : n = Len(s)
      OBVIOUS
  <1>3. Len(t) = n + 1 /\ t[n + 1] = x /\ \A i \in 1 .. n : s[i] = t[i]
      BY <1>1, <1>2
  <1>4. PICK f : IsUpTo(f, s, S, n) /\ Only(s, S) = f[n]
      BY <1>2, OnlyUpTo
  <1>5. PICK g : IsUpTo(g, t, S, n + 1) /\ Only(t, S) = g[n + 1]
      BY <1>3, OnlyUpTo
  <1>6. f[n] = g[n]
      BY <1>3, <1>4, <1>5, UpToAgree
  <1>7. g[n + 1] = IF t[n + 1] \in S THEN Append(g[n], t[n + 1]) ELSE g[n]
    <2>1. n + 1 \in Nat /\ n + 1 \in 0 .. n + 1 /\ n + 1 # 0 /\ (n + 1) - 1 = n
        OBVIOUS
    <2> QED BY <1>5, <2>1, UpToAt
  <1> QED BY <1>1, <1>3, <1>4, <1>5, <1>6, <1>7
LEMMA OnlyOne ==
    ASSUME NEW S, NEW x
    PROVE  Only(<<x>>, S) = IF x \in S THEN <<x>> ELSE <<>>
  <1>1. PICK e \in Seq({x}) : e = <<>>
    <2>1. <<>> \in Seq({x})
        BY EmptySeq
    <2> QED BY <2>1
  <1>2. Only(Append(e, x), S) = IF x \in S THEN Append(Only(e, S), x) ELSE Only(e, S)
      BY OnlyAppend
  <1>3. Append(e, x) = <<x>>
      BY <1>1
  <1>4. Only(e, S) = e
      BY <1>1, OnlyEmpty
  <1> QED BY <1>1, <1>2, <1>3, <1>4

(* Only keeps the entries of the sequence that are in the set. *)
LEMMA OnlySeq ==
    ASSUME NEW D, NEW S
    PROVE  \A s \in Seq(D) : Only(s, S) \in Seq(D) /\ ToSet(Only(s, S)) = ToSet(s) \cap S
  <1> DEFINE X == {s \in Seq(D) : Only(s, S) \in Seq(D) /\ ToSet(Only(s, S)) = ToSet(s) \cap S}
  <1>1. <<>> \in X
    <2>1. ToSet(<<>>) = {}
        BY DEF ToSet
    <2>2. <<>> \in Seq(D)
        OBVIOUS
    <2> QED BY <2>1, <2>2, OnlyEmpty
  <1>2. ASSUME NEW s \in X, NEW d \in D PROVE Append(s, d) \in X
    <2>1. \A t \in Seq(D) : ToSet(Append(t, d)) = ToSet(t) \cup {d}
      <3> SUFFICES ASSUME NEW t \in Seq(D) PROVE ToSet(Append(t, d)) = ToSet(t) \cup {d}
          OBVIOUS
      <3>1. PICK n \in Nat : n = Len(t) /\ DOMAIN t = 1 .. n
          OBVIOUS
      <3>2. /\ DOMAIN Append(t, d) = 1 .. n + 1 /\ Append(t, d)[n + 1] = d
            /\ \A i \in 1 .. n : Append(t, d)[i] = t[i]
          BY <3>1
      <3>3. \A i \in 1 .. n + 1 : i \in 1 .. n \/ i = n + 1
          BY <3>1
      <3>4. 1 .. n \subseteq 1 .. n + 1 /\ n + 1 \in 1 .. n + 1
          BY <3>1
      <3> QED BY <3>1, <3>2, <3>3, <3>4 DEF ToSet
    <2>2. Only(Append(s, d), S) = IF d \in S THEN Append(Only(s, S), d) ELSE Only(s, S)
        BY OnlyAppend
    <2>3. Append(s, d) \in Seq(D)
        OBVIOUS
    <2>4. CASE d \in S
      <3>1. Only(Append(s, d), S) \in Seq(D)
          BY <2>2, <2>4
      <3> QED BY <2>1, <2>2, <2>3, <2>4, <3>1
    <2>5. CASE d \notin S
        BY <2>1, <2>2, <2>3, <2>5
    <2> QED BY <2>4, <2>5
  <1>3. X = Seq(D)
    <2> HIDE DEF X
    <2>1. X \in SUBSET Seq(D)
        BY DEF X
    <2> QED BY <1>1, <1>2, <2>1, SeqInd
  <1> QED BY <1>3

(* Nothing is dropped when all entries are in the set. *)
LEMMA OnlyAll ==
    ASSUME NEW D, NEW S, NEW s \in Seq(D), D \subseteq S
    PROVE  Only(s, S) = s
  <1> DEFINE X == {t \in Seq(D) : Only(t, S) = t}
  <1>1. <<>> \in X
      BY OnlyEmpty
  <1>2. ASSUME NEW t \in X, NEW d \in D PROVE Append(t, d) \in X
    <2>1. Only(Append(t, d), S) = Append(Only(t, S), d)
        BY OnlyAppend
    <2> QED BY <2>1
  <1>3. X = Seq(D)
    <2> HIDE DEF X
    <2>1. X \in SUBSET Seq(D)
        BY DEF X
    <2> QED BY <1>1, <1>2, <2>1, SeqInd
  <1> QED BY <1>3

(* Selecting from a concatenation, and selecting twice. *)
LEMMA OnlyConcat ==
    ASSUME NEW D, NEW S, NEW s \in Seq(D), NEW t \in Seq(D)
    PROVE  Only(s \o t, S) = Only(s, S) \o Only(t, S)
  <1> DEFINE X == {u \in Seq(D) : Only(s \o u, S) = Only(s, S) \o Only(u, S)}
  <1>0. Only(s, S) \in Seq(D)
      BY OnlySeq
  <1>1. <<>> \in X
      BY <1>0, OnlyEmpty, ConcatEmptySeq
  <1>2. ASSUME NEW u \in X, NEW d \in D PROVE Append(u, d) \in X
    <2>1. s \o u \in Seq(D) /\ s \o Append(u, d) = Append(s \o u, d)
      <3>1. s \o u \in Seq(D) /\ s \o Append(u, d) \in Seq(D) /\ Append(s \o u, d) \in Seq(D)
          OBVIOUS
      <3>2. /\ Len(s \o Append(u, d)) = Len(Append(s \o u, d))
            /\ \A i \in 1 .. Len(s \o Append(u, d)) : (s \o Append(u, d))[i] = Append(s \o u, d)[i]
          OBVIOUS
      <3> QED BY <3>1, <3>2, SeqEqual
    <2>2. Only(u, S) \in Seq(D)
        BY OnlySeq
    <2>3. /\ Only(Append(s \o u, d), S) = IF d \in S THEN Append(Only(s \o u, S), d) ELSE Only(s \o u, S)
          /\ Only(Append(u, d), S) = IF d \in S THEN Append(Only(u, S), d) ELSE Only(u, S)
      <3>1. u \in Seq(D)
          OBVIOUS
      <3> HIDE DEF X
      <3>2. PICK v \in Seq(D) : v = s \o u
          BY <2>1
      <3>3. Only(Append(v, d), S) = IF d \in S THEN Append(Only(v, S), d) ELSE Only(v, S)
          BY OnlyAppend
      <3>4. Only(Append(u, d), S) = IF d \in S THEN Append(Only(u, S), d) ELSE Only(u, S)
          BY <3>1, OnlyAppend
      <3> QED BY <3>2, <3>3, <3>4
    <2>4. Append(Only(s, S) \o Only(u, S), d) = Only(s, S) \o Append(Only(u, S), d)
      <3> DEFINE a == Only(s, S)
                 b == Only(u, S)
      <3> HIDE DEF a, b
      <3>0. a \in Seq(D) /\ b \in Seq(D)
          BY <1>0, <2>2 DEF a, b
      <3>1. a \o b \in Seq(D) /\ a \o Append(b, d) \in Seq(D) /\ Append(a \o b, d) \in Seq(D)
          BY <3>0
      <3>2. /\ Len(a \o Append(b, d)) = Len(Append(a \o b, d))
            /\ \A i \in 1 .. Len(a \o Append(b, d)) : (a \o Append(b, d))[i] = Append(a \o b, d)[i]
          BY <3>0
      <3>3. a \o Append(b, d) = Append(a \o b, d)
          BY <3>1, <3>2, SeqEqual
      <3> QED BY <3>3 DEF a, b
    <2>5. Append(u, d) \in Seq(D) /\ Only(s \o u, S) = Only(s, S) \o Only(u, S)
        OBVIOUS
    <2>6. Only(s \o Append(u, d), S) = Only(s, S) \o Only(Append(u, d), S)
      <3> HIDE DEF X
      <3> QED BY <2>1, <2>3, <2>4, <2>5
    <2> QED BY <2>5, <2>6
  <1>3. X = Seq(D)
    <2> HIDE DEF X
    <2>1. X \in SUBSET Seq(D)
        BY DEF X
    <2> QED BY <1>1, <1>2, <2>1, SeqInd
  <1> QED BY <1>3

(* Entries that are related in the order they come in still are. *)
LEMMA OnlyRelated ==
    ASSUME NEW D, NEW A, NEW R, NEW s \in Seq(D),
           \A i, j \in DOMAIN s : i < j => <<s[i], s[j]>> \in R
    PROVE  \A i, j \in DOMAIN Only(s, A) : i < j => <<Only(s, A)[i], Only(s, A)[j]>> \in R
  <1> DEFINE Rel(t) == \A i, j \in DOMAIN t : i < j => <<t[i], t[j]>> \in R
             X == {t \in Seq(D) : Rel(t) => Rel(Only(t, A))}
  <1>1. <<>> \in X
      BY OnlyEmpty
  <1>2. ASSUME NEW t \in X, NEW d \in D PROVE Append(t, d) \in X
    <2>1. PICK u \in Seq(D) : u = t
        OBVIOUS
    <2>2. PICK v \in Seq(D) : v = Only(u, A) /\ ToSet(v) = ToSet(u) \cap A
        BY OnlySeq
    <2>3. Rel(u) => Rel(v)
        BY <2>1, <2>2
    <2>4. Only(Append(u, d), A) = IF d \in A THEN Append(v, d) ELSE v
        BY <2>2, OnlyAppend
    <2>5. PICK n \in Nat, m \in Nat : /\ n = Len(u) /\ DOMAIN u = 1 .. n
                                     /\ m = Len(v) /\ DOMAIN v = 1 .. m
        OBVIOUS
    <2>6. /\ DOMAIN Append(u, d) = 1 .. n + 1 /\ Append(u, d)[n + 1] = d
          /\ \A i \in 1 .. n : Append(u, d)[i] = u[i]
          /\ DOMAIN Append(v, d) = 1 .. m + 1 /\ Append(v, d)[m + 1] = d
          /\ \A i \in 1 .. m : Append(v, d)[i] = v[i]
        BY <2>5
    <2>7. ASSUME Rel(Append(u, d)) PROVE Rel(u) /\ \A i \in 1 .. n : <<u[i], d>> \in R
      <3>1. 1 .. n \subseteq 1 .. n + 1 /\ n + 1 \in 1 .. n + 1 /\ \A i \in 1 .. n : i < n + 1
          OBVIOUS
      <3> QED BY <2>5, <2>6, <2>7, <3>1
    <2>8. ASSUME Rel(Append(u, d)), d \in A PROVE Rel(Append(v, d))
      <3> SUFFICES ASSUME NEW i \in 1 .. m + 1, NEW j \in 1 .. m + 1, i < j
                   PROVE  <<Append(v, d)[i], Append(v, d)[j]>> \in R
          BY <2>6
      <3>1. CASE j \in 1 .. m
        <4>1. i \in 1 .. m
            BY <3>1
        <4> QED BY <2>3, <2>5, <2>6, <2>7, <2>8, <3>1, <4>1
      <3>2. CASE j = m + 1
        <4>1. i \in 1 .. m
            BY <3>2
        <4>2. v[i] \in ToSet(u)
            BY <2>2, <2>5, <4>1 DEF ToSet
        <4>3. PICK k \in 1 .. n : v[i] = u[k]
            BY <2>5, <4>2 DEF ToSet
        <4> QED BY <2>6, <2>7, <2>8, <3>2, <4>1, <4>3
      <3>3. j \in 1 .. m \/ j = m + 1
          OBVIOUS
      <3> QED BY <3>1, <3>2, <3>3
    <2>9. Rel(Append(u, d)) => Rel(Only(Append(u, d), A))
      <3> HIDE DEF Rel
      <3>1. CASE d \in A
          BY <2>4, <2>8, <3>1
      <3>2. CASE d \notin A
          BY <2>3, <2>4, <2>7, <3>2
      <3> QED BY <3>1, <3>2
    <2>10. Append(u, d) \in Seq(D)
        OBVIOUS
    <2> QED BY <2>1, <2>9, <2>10
  <1>3. X = Seq(D)
    <2> HIDE DEF X
    <2>1. X \in SUBSET Seq(D)
        BY DEF X
    <2> QED BY <1>1, <1>2, <2>1, SeqInd
  <1> QED BY <1>3
----------------------------------------------------------------------------
(* That many pages hold all rows. *)
LEMMA PagesHoldAll ==
    ASSUME NEW total \in Nat, NEW n \in Nat \ {0}
    PROVE  /\ GetPageCount(total, n) \in Nat
           /\ \A k \in Nat : k >= GetPageCount(total, n) => k * n >= total
  <1>1. PICK q \in Nat, r \in 0 .. n - 1 : total = q * n + r /\ q = total \div n
    <2>1. total \div n \in Nat
        OBVIOUS
    <2>2. total % n \in 0 .. n - 1 /\ total = (total \div n) * n + (total % n)
        OBVIOUS
    <2> QED BY <2>1, <2>2
  <1>2. q * n \in Nat
      OBVIOUS
  <1>3. GetPageCount(total, n) = IF q * n < total THEN q + 1 ELSE q
      BY <1>1 DEF GetPageCount
  <1>4. ASSUME NEW k \in Nat, NEW m \in Nat, k >= m PROVE k * n >= m * n
      BY <1>4
  <1>5. (q + 1) * n = q * n + n
      OBVIOUS
  <1>6. ASSUME NEW k \in Nat, k >= GetPageCount(total, n) PROVE k * n >= total
    <2>0. k * n \in Nat
        OBVIOUS
    <2>1. CASE q * n < total
      <3>1. k >= q + 1
          BY <1>3, <1>6, <2>1
      <3>2. k * n >= (q + 1) * n
          BY <1>4, <3>1
      <3> QED BY <1>1, <1>2, <1>5, <2>0, <3>2
    <2>2. CASE ~(q * n < total)
      <3>1. k * n >= q * n
          BY <1>3, <1>4, <1>6, <2>2
      <3> QED BY <1>2, <2>0, <2>2, <3>1
    <2> QED BY <2>1, <2>2
  <1> QED BY <1>3, <1>6

LEMMA SizeIsPositive ==
    ASSUME NEW n \in PageSizes
    PROVE  SanitizedSize(n) \in Nat \ {0}
  BY ListingsAssumption DEF SanitizedSize
----------------------------------------------------------------------------
(* Every row once. *)
IsOrder(s) ==
    /\ s \in Seq(Objs) /\ ToSet(s) = Objs
    /\ \A i, j \in DOMAIN s : s[i] = s[j] => i = j

LEMMA InitOrder == IsOrder(SetToSeq(Objs))
  <1>1. IsFiniteSet(Objs)
      BY ListingsAssumption
  <1>2. PICK n \in Nat : n = Cardinality(Objs) /\ ExistsBijection(1 .. n, Objs)
      BY <1>1, FS_CardinalityType
  <1>3. \E f \in [1 .. n -> Objs] : IsInjective(f)
      BY <1>2 DEF ExistsBijection, Bijection, Injection, IsInjective
  <1>4. PICK s \in [1 .. n -> Objs] : s = SetToSeq(Objs) /\ IsInjective(s)
      BY <1>2, <1>3 DEF SetToSeq
  <1>5. s \in Injection(1 .. n, Objs)
      BY <1>4 DEF IsInjective, Injection
  <1>6. Cardinality(1 .. n) = n
      BY FS_Interval
  <1>7. s \in Surjection(1 .. n, Objs)
      BY <1>1, <1>2, <1>5, <1>6, FS_Injection
  <1>8. ToSet(s) = Objs
      BY <1>4, <1>7 DEF Surjection, ToSet
  <1>9. s \in Seq(Objs)
      BY <1>4
  <1> QED BY <1>4, <1>8, <1>9 DEF IsOrder, IsInjective

(* Putting a row in front: the rows before it move back by one place, the   *)
(* others stay.                                                             *)
LEMMA FrontSplits ==
    ASSUME IsOrder(order), NEW o \in Objs
    PROVE  \E u, v \in Seq(Objs) : /\ order = (u \o <<o>>) \o v
                                   /\ InFront(o) = (<<o>> \o u) \o v
                                   /\ o \notin ToSet(u) /\ o \notin ToSet(v)
  <1>1. PICK n \in Nat : n = Len(order) /\ DOMAIN order = 1 .. n
      BY DEF IsOrder
  <1>2. PICK k \in 1 .. n : order[k] = o
      BY <1>1 DEF IsOrder, ToSet
  <1> DEFINE u == SubSeq(order, 1, k - 1)
             v == SubSeq(order, k + 1, n)
  <1>3. /\ u \in Seq(Objs) /\ Len(u) = k - 1 /\ DOMAIN u = 1 .. k - 1
        /\ \A i \in 1 .. k - 1 : u[i] = order[i]
      BY <1>1, <1>2 DEF IsOrder
  <1>4. /\ v \in Seq(Objs) /\ Len(v) = n - k /\ DOMAIN v = 1 .. n - k
        /\ \A i \in 1 .. n - k : v[i] = order[i + k]
      BY <1>1, <1>2 DEF IsOrder
  <1> HIDE DEF u, v
  <1>5. <<o>> \in Seq(Objs) /\ Len(<<o>>) = 1 /\ <<o>>[1] = o
      OBVIOUS
  <1>6. order = (u \o <<o>>) \o v
    <2>1. /\ u \o <<o>> \in Seq(Objs) /\ Len(u \o <<o>>) = k
          /\ \A i \in 1 .. k : (u \o <<o>>)[i] = IF i <= k - 1 THEN u[i] ELSE o
        BY <1>2, <1>3, <1>5
    <2> DEFINE w == u \o <<o>>
    <2>0. /\ w \in Seq(Objs) /\ Len(w) = k
          /\ \A i \in 1 .. k : w[i] = IF i <= k - 1 THEN u[i] ELSE o
        BY <2>1
    <2> HIDE DEF w
    <2>2. /\ w \o v \in Seq(Objs) /\ Len(w \o v) = n
          /\ \A i \in 1 .. n : (w \o v)[i] = IF i <= k THEN w[i] ELSE v[i - k]
        BY <1>2, <1>4, <2>0
    <2>3. \A i \in 1 .. n : (w \o v)[i] = order[i]
      <3> SUFFICES ASSUME NEW i \in 1 .. n PROVE (w \o v)[i] = order[i]
          OBVIOUS
      <3>1. CASE i <= k - 1
          BY <1>2, <1>3, <2>0, <2>2, <3>1
      <3>2. CASE i = k
          BY <1>2, <2>0, <2>2, <3>2
      <3>3. CASE i > k
        <4>1. i - k \in 1 .. n - k /\ (i - k) + k = i /\ ~(i <= k)
            BY <1>2, <3>3
        <4> QED BY <1>4, <2>2, <4>1
      <3>4. i <= k - 1 \/ i = k \/ i > k
          BY <1>2
      <3> QED BY <3>1, <3>2, <3>3, <3>4
    <2> QED BY <1>1, <2>2, <2>3, SeqEqual DEF w, IsOrder
  <1>7. o \notin ToSet(u) /\ o \notin ToSet(v)
    <2>1. \A i \in 1 .. k - 1 : i \in 1 .. n /\ k \in 1 .. n /\ i # k
        BY <1>2
    <2>2. \A i \in 1 .. n - k : i + k \in 1 .. n /\ i + k # k
        BY <1>2
    <2>3. \A i \in 1 .. n : i # k => order[i] # o
        BY <1>1, <1>2 DEF IsOrder
    <2> QED BY <1>3, <1>4, <2>1, <2>2, <2>3, SMTT(30) DEF ToSet
  <1>8. Only(order, Objs \ {o}) = u \o v
    <2>0. \A s \in Seq(Objs) : o \notin ToSet(s) => Only(s, Objs \ {o}) = s
      <3> SUFFICES ASSUME NEW s \in Seq(Objs), o \notin ToSet(s) PROVE Only(s, Objs \ {o}) = s
          OBVIOUS
      <3>1. s \in Seq(Objs \ {o})
          BY DEF ToSet
      <3> QED BY <3>1, OnlyAll
    <2>1. Only(<<o>>, Objs \ {o}) = <<>>
        BY OnlyOne
    <2>2. Only(u \o <<o>>, Objs \ {o}) = u
      <3>1. Only(u \o <<o>>, Objs \ {o}) = Only(u, Objs \ {o}) \o Only(<<o>>, Objs \ {o})
          BY <1>3, <1>5, OnlyConcat
      <3> QED BY <1>3, <1>7, <2>0, <2>1, <3>1, ConcatEmptySeq
    <2>3. u \o <<o>> \in Seq(Objs)
        BY <1>3, <1>5
    <2>4. Only((u \o <<o>>) \o v, Objs \ {o}) = Only(u \o <<o>>, Objs \ {o}) \o Only(v, Objs \ {o})
        BY <1>4, <2>3, OnlyConcat
    <2> QED BY <1>4, <1>6, <1>7, <2>0, <2>2, <2>4
  <1>9. InFront(o) = (<<o>> \o u) \o v
    <2>1. PICK a \in Seq(Objs) : a = <<o>>
        BY <1>5
    <2>2. u \in Seq(Objs) /\ v \in Seq(Objs)
        BY <1>3, <1>4
    <2>3. (a \o u) \o v = a \o (u \o v)
        BY <2>2, ConcatAssociative, SMTT(30)
    <2> QED BY <1>8, <2>1, <2>3 DEF InFront
  <1> QED BY <1>3, <1>4, <1>6, <1>7, <1>9
LEMMA FrontOrder ==
    ASSUME IsOrder(order), NEW o \in Objs
    PROVE  IsOrder(InFront(o))
  <1>1. PICK u, v \in Seq(Objs) : /\ order = (u \o <<o>>) \o v
                                  /\ InFront(o) = (<<o>> \o u) \o v
                                  /\ o \notin ToSet(u) /\ o \notin ToSet(v)
      BY FrontSplits
  <1>2. PICK k \in Nat, m \in Nat : k = Len(u) /\ m = Len(v) /\ DOMAIN u = 1 .. k /\ DOMAIN v = 1 .. m
      OBVIOUS
  <1>3. \A i \in 1 .. k : u[i] \in ToSet(u)
      BY <1>2 DEF ToSet
  <1>4. \A i \in 1 .. m : v[i] \in ToSet(v)
      BY <1>2 DEF ToSet
  <1> DEFINE s == InFront(o)
  <1>5. /\ s \in Seq(Objs) /\ DOMAIN s = 1 .. k + m + 1 /\ s[1] = o
        /\ \A i \in 2 .. k + 1 : s[i] = u[i - 1]
        /\ \A i \in k + 2 .. k + m + 1 : s[i] = v[i - (k + 1)]
    <2>1. /\ <<o>> \o u \in Seq(Objs) /\ Len(<<o>> \o u) = k + 1 /\ (<<o>> \o u)[1] = o
          /\ \A i \in 2 .. k + 1 : (<<o>> \o u)[i] = u[i - 1]
        BY <1>2
    <2>2. PICK w \in Seq(Objs) : w = <<o>> \o u
        BY <2>1
    <2>3. /\ w \o v \in Seq(Objs) /\ DOMAIN (w \o v) = 1 .. k + m + 1
          /\ \A i \in 1 .. k + 1 : (w \o v)[i] = w[i]
          /\ \A i \in k + 2 .. k + m + 1 : (w \o v)[i] = v[i - (k + 1)]
        BY <1>2, <2>1, <2>2
    <2>4. 1 \in 1 .. k + 1 /\ 2 .. k + 1 \subseteq 1 .. k + 1
        BY <1>2
    <2> QED BY <1>1, <2>1, <2>2, <2>3, <2>4
  <1>6. /\ DOMAIN order = 1 .. k + m + 1 /\ order[k + 1] = o
        /\ \A i \in 1 .. k : order[i] = u[i]
        /\ \A i \in k + 2 .. k + m + 1 : order[i] = v[i - (k + 1)]
    <2>1. /\ u \o <<o>> \in Seq(Objs) /\ Len(u \o <<o>>) = k + 1 /\ (u \o <<o>>)[k + 1] = o
          /\ \A i \in 1 .. k : (u \o <<o>>)[i] = u[i]
        BY <1>2
    <2>2. PICK w \in Seq(Objs) : w = u \o <<o>>
        BY <2>1
    <2>3. /\ w \o v \in Seq(Objs) /\ DOMAIN (w \o v) = 1 .. k + m + 1
          /\ \A i \in 1 .. k + 1 : (w \o v)[i] = w[i]
          /\ \A i \in k + 2 .. k + m + 1 : (w \o v)[i] = v[i - (k + 1)]
        BY <1>2, <2>1, <2>2
    <2>4. k + 1 \in 1 .. k + 1 /\ 1 .. k \subseteq 1 .. k + 1
        BY <1>2
    <2> QED BY <1>1, <2>1, <2>2, <2>3, <2>4
  <1> HIDE DEF s
  <1> DEFINE at(i) == IF i = 1 THEN k + 1 ELSE IF i <= k + 1 THEN i - 1 ELSE i
  <1>7. \A i \in 1 .. k + m + 1 : at(i) \in 1 .. k + m + 1 /\ s[i] = order[at(i)]
    <2> SUFFICES ASSUME NEW i \in 1 .. k + m + 1
                 PROVE  at(i) \in 1 .. k + m + 1 /\ s[i] = order[at(i)]
        OBVIOUS
    <2>1. CASE i = 1
        BY <1>5, <1>6, <2>1
    <2>2. CASE i # 1 /\ i <= k + 1
      <3>1. i \in 2 .. k + 1 /\ i - 1 \in 1 .. k /\ at(i) = i - 1 /\ i - 1 \in 1 .. k + m + 1
          BY <2>2
      <3> QED BY <1>5, <1>6, <3>1
    <2>3. CASE i > k + 1
      <3>1. i \in k + 2 .. k + m + 1 /\ at(i) = i
          BY <2>3
      <3> QED BY <1>5, <1>6, <3>1
    <2>4. i = 1 \/ (i # 1 /\ i <= k + 1) \/ i > k + 1
        OBVIOUS
    <2> QED BY <2>1, <2>2, <2>3, <2>4
  <1>8. \A i, j \in 1 .. k + m + 1 : at(i) = at(j) => i = j
      OBVIOUS
  <1>9. \A j \in 1 .. k + m + 1 : \E i \in 1 .. k + m + 1 : at(i) = j
    <2> SUFFICES ASSUME NEW j \in 1 .. k + m + 1
                 PROVE  \E i \in 1 .. k + m + 1 : at(i) = j
        OBVIOUS
    <2>1. CASE j <= k
      <3>1. j + 1 \in 1 .. k + m + 1 /\ at(j + 1) = j
          BY <2>1
      <3> QED BY <3>1
    <2>2. CASE j = k + 1
      <3>1. 1 \in 1 .. k + m + 1 /\ at(1) = j
          BY <2>2
      <3> QED BY <3>1
    <2>3. CASE j > k + 1
      <3>1. at(j) = j
          BY <2>3
      <3> QED BY <3>1
    <2>4. j <= k \/ j = k + 1 \/ j > k + 1
        OBVIOUS
    <2> QED BY <2>1, <2>2, <2>3, <2>4
  <1> HIDE DEF at
  <1>10. ToSet(s) = ToSet(order)
    <2>1. ToSet(s) = {s[i] : i \in 1 .. k + m + 1} /\ ToSet(order) = {order[i] : i \in 1 .. k + m + 1}
        BY <1>5, <1>6 DEF ToSet
    <2>2. \A j \in 1 .. k + m + 1 : \E i \in 1 .. k + m + 1 : order[j] = s[i]
        BY <1>7, <1>9
    <2>3. \A i \in 1 .. k + m + 1 : \E j \in 1 .. k + m + 1 : s[i] = order[j]
        BY <1>7
    <2> QED BY <2>1, <2>2, <2>3
  <1>11. \A i, j \in DOMAIN s : s[i] = s[j] => i = j
      BY <1>5, <1>6, <1>7, <1>8 DEF IsOrder
  <1>12. IsOrder(s)
      BY <1>5, <1>10, <1>11 DEF IsOrder
  <1> QED BY <1>12 DEF s

(* In any selection no row but o comes forward. *)
LEMMA FrontShifts ==
    ASSUME IsOrder(order), NEW o \in Objs, NEW C
    PROVE  LET L == Only(order, C)
               M == Only(InFront(o), C)
           IN  /\ Len(L) \in Nat /\ Len(M) = Len(L)
               /\ \A i \in 1 .. Len(L) : \/ M[i] = o
                                         \/ M[i] = L[i]
                                         \/ i - 1 \in 1 .. Len(L) /\ M[i] = L[i - 1]
  <1>1. PICK u, v \in Seq(Objs) : /\ order = (u \o <<o>>) \o v
                                  /\ InFront(o) = (<<o>> \o u) \o v
      BY FrontSplits
  <1>2. <<o>> \in Seq(Objs) /\ u \o <<o>> \in Seq(Objs) /\ <<o>> \o u \in Seq(Objs)
      OBVIOUS
  <1>3. PICK a, b \in Seq(Objs) : a = Only(u, C) /\ b = Only(v, C)
      BY OnlySeq
  <1>4. PICK x \in Seq(Objs) : x = Only(<<o>>, C) /\ (x = <<o>> \/ x = <<>>)
    <2>1. Only(<<o>>, C) = <<o>> \/ Only(<<o>>, C) = <<>>
        BY OnlyOne
    <2>2. Only(<<o>>, C) \in Seq(Objs)
        BY <1>2, OnlySeq
    <2> QED BY <2>1, <2>2
  <1>5. Only(order, C) = (a \o x) \o b
    <2>1. Only((u \o <<o>>) \o v, C) = Only(u \o <<o>>, C) \o Only(v, C)
        BY <1>2, OnlyConcat
    <2>2. Only(u \o <<o>>, C) = Only(u, C) \o Only(<<o>>, C)
        BY <1>2, OnlyConcat
    <2> QED BY <1>1, <1>3, <1>4, <2>1, <2>2
  <1>6. Only(InFront(o), C) = (x \o a) \o b
    <2>1. Only((<<o>> \o u) \o v, C) = Only(<<o>> \o u, C) \o Only(v, C)
        BY <1>2, OnlyConcat
    <2>2. Only(<<o>> \o u, C) = Only(<<o>>, C) \o Only(u, C)
        BY <1>2, OnlyConcat
    <2> QED BY <1>1, <1>3, <1>4, <2>1, <2>2
  <1>7. CASE x = <<>>
    <2>1. a \o x = a /\ x \o a = a /\ a \o b \in Seq(Objs)
        BY <1>7, ConcatEmptySeq
    <2> QED BY <1>5, <1>6, <2>1
  <1>8. CASE x = <<o>>
    <2>1. PICK k \in Nat, m \in Nat : k = Len(a) /\ m = Len(b)
        OBVIOUS
    <2>2. PICK c, d \in Seq(Objs) : c = a \o <<o>> /\ d = <<o>> \o a
      <3>1. a \o <<o>> \in Seq(Objs) /\ <<o>> \o a \in Seq(Objs)
          OBVIOUS
      <3> QED BY <3>1
    <2>3. /\ Len(c) = k + 1 /\ Len(d) = k + 1
          /\ \A i \in 1 .. k : c[i] = a[i]
          /\ d[1] = o /\ \A i \in 2 .. k + 1 : d[i] = a[i - 1]
        BY <2>1, <2>2
    <2>4. /\ Len(c \o b) = k + m + 1 /\ Len(d \o b) = k + m + 1
          /\ \A i \in 1 .. k + 1 : (c \o b)[i] = c[i] /\ (d \o b)[i] = d[i]
          /\ \A i \in k + 2 .. k + m + 1 : (c \o b)[i] = b[i - (k + 1)] /\ (d \o b)[i] = b[i - (k + 1)]
      <3>1. /\ Len(c \o b) = k + m + 1
            /\ \A i \in 1 .. k + m + 1 : (c \o b)[i] = IF i <= k + 1 THEN c[i] ELSE b[i - (k + 1)]
        <4>1. Len(c) + Len(b) = k + m + 1
            BY <2>1, <2>3
        <4> QED BY <2>3, <4>1, ConcatProperties, SMTT(30)
      <3>2. /\ Len(d \o b) = k + m + 1
            /\ \A i \in 1 .. k + m + 1 : (d \o b)[i] = IF i <= k + 1 THEN d[i] ELSE b[i - (k + 1)]
        <4>1. Len(d) + Len(b) = k + m + 1 /\ Len(d) = k + 1
            BY <2>1, <2>3
        <4>2. /\ Len(d \o b) = Len(d) + Len(b)
              /\ \A i \in 1 .. Len(d) + Len(b) : (d \o b)[i] = IF i <= Len(d) THEN d[i] ELSE b[i - Len(d)]
            BY ConcatProperties
        <4> QED BY <4>1, <4>2
      <3>3. /\ \A i \in 1 .. k + 1 : i \in 1 .. k + m + 1 /\ i <= k + 1
            /\ \A i \in k + 2 .. k + m + 1 : i \in 1 .. k + m + 1 /\ ~(i <= k + 1)
          OBVIOUS
      <3> QED BY <3>1, <3>2, <3>3
    <2>5. ASSUME NEW i \in 1 .. k + m + 1
          PROVE  \/ (d \o b)[i] = o
                 \/ (d \o b)[i] = (c \o b)[i]
                 \/ i - 1 \in 1 .. k + m + 1 /\ (d \o b)[i] = (c \o b)[i - 1]
      <3>1. CASE i = 1
        <4>1. 1 \in 1 .. k + 1
            OBVIOUS
        <4> QED BY <2>3, <2>4, <3>1, <4>1
      <3>2. CASE i # 1 /\ i <= k + 1
        <4>1. i \in 2 .. k + 1 /\ i \in 1 .. k + 1 /\ i - 1 \in 1 .. k /\ i - 1 \in 1 .. k + 1
              /\ i - 1 \in 1 .. k + m + 1
            BY <3>2
        <4> QED BY <2>3, <2>4, <4>1
      <3>3. CASE i > k + 1
        <4>1. i \in k + 2 .. k + m + 1
            BY <3>3
        <4> QED BY <2>4, <4>1
      <3>4. i = 1 \/ (i # 1 /\ i <= k + 1) \/ i > k + 1
          OBVIOUS
      <3> QED BY <3>1, <3>2, <3>3, <3>4
    <2>6. Only(order, C) = c \o b /\ Only(InFront(o), C) = d \o b
        BY <1>5, <1>6, <1>8, <2>2
    <2>7. k + m + 1 \in Nat
        OBVIOUS
    <2> QED BY <2>4, <2>5, <2>6, <2>7
  <1> QED BY <1>4, <1>7, <1>8
----------------------------------------------------------------------------
(* The types.  The rows of a client's listing are never changed and may be  *)
(* anything; those of the loops are the user's own.                         *)
Parents == {Top} \cup UNION {{tree[o] : o \in Objs} : tree \in Trees}
Rows == [parent : Parents, deleted : BOOLEAN, anc : BOOLEAN, expunged : BOOLEAN, owner : {"me"},
         read : {TRUE}, everyone : {FALSE}, mine : {FALSE}, name : {1}, prop : {0}, may : BOOLEAN]
Lists == [kind : Kinds \cup {"none"}, req : {NewPagingRequest(q) : q \in Queries} \cup {NoFilter},
          page : Nat \ {0}, got : Seq(Objs), done : BOOLEAN]
Todos == [id : Objs, ver : Nat]
Walks == [st : {"off", "list", "apply", "sub", "done"}, page : Nat, todo : Seq(Todos),
          more : BOOLEAN, sub : Objs \cup {Top}]
Batches == [page : Nat \ {0}, one : BOOLEAN, done : BOOLEAN, failed : BOOLEAN, lost : BOOLEAN,
            told : SUBSET Objs]

TypeInv ==
    /\ job \in {"list", "walk", "empty", "remove"}
    /\ size \in Nat \ {0}
    /\ IsOrder(order)
    /\ ver \in [Objs -> Nat] /\ applied \subseteq Objs
    /\ list \in Lists
    /\ walk \in [Objs \cup {Top} -> Walks]
    /\ \A f \in Objs \cup {Top} : walk[f].st # "off" => walk[f].page > 0
    /\ batch \in Batches
    /\ row \in [Objs -> IF job = "list" THEN ListRows ELSE Rows]

(* The client's listing: every row it got was among the first               *)
(* (page - 1) * size of an arrangement, and every row that is alone with    *)
(* its sort value and is there in any arrangement was got, once.            *)
Arranged == Arrangements(list.kind, Top, list.req)
Passed == (list.page - 1) * size
Single(o) == \A x \in Hits(list.kind, Top, list.req) :
                SortValue(list.req, x) = SortValue(list.req, o) => x = o
ListInv ==
    job = "list" =>
        /\ \A i \in DOMAIN list.got :
              /\ list.got[i] \in Kept(list.req)
              /\ \E s \in Arranged : \E p \in DOMAIN s : p <= Passed /\ s[p] = list.got[i]
        /\ \A s \in Arranged : \A p \in DOMAIN s :
              p <= Passed /\ Single(s[p]) /\ s[p] \in Kept(list.req) => s[p] \in ToSet(list.got)
        /\ \A i, j \in DOMAIN list.got : i < j =>
              /\ ~Before(list.req, list.got[j], list.got[i])
              /\ list.got[i] = list.got[j] => ~Single(list.got[i])
        /\ list.done => \E s \in Arranged : Len(s) <= Passed

(* The walk: the children of a folder in the order of its pages, and the    *)
(* rows it still has to reach.                                              *)
Kids(f) == {o \in Objs : row[o].parent = f}
Listed(f) == Only(order, Kids(f))
Touched(o) == o \in others \/ o \in applied
Pending(o) == row[o].may /\ ~Touched(o)

(* The walk goes from a folder to its children, and never into a row that   *)
(* is its own parent.                                                       *)
WalkTree ==
    /\ \A o \in Objs : row[o].parent = o => walk[o].st = "off"
    /\ \A f \in Objs \cup {Top}, i \in Nat :
          i \in DOMAIN walk[f].todo => row[walk[f].todo[i].id].parent = f

(* A row nobody touched still has the token it was listed with, and every   *)
(* row that was reached is walked into.                                     *)
WalkTokens ==
    /\ \A o \in Objs : ~row[o].deleted /\ (~Touched(o) => ver[o] = 0)
    /\ walk[Top].st # "off" /\ \A o \in applied : walk[o].st # "off"
    /\ \A f \in Objs \cup {Top}, i \in Nat :
          i \in DOMAIN walk[f].todo /\ ~Touched(walk[f].todo[i].id) => walk[f].todo[i].ver = 0

(* A pending child of a folder is on the page the walk has in hand, or it   *)
(* is on none of the pages before the next one.                             *)
WalkAhead(f) ==
    walk[f].st # "off" =>
        /\ walk[f].st = "list" => walk[f].todo = <<>>
        /\ \A o \in Kids(f) :
              Pending(o) => \/ \E i \in DOMAIN walk[f].todo : walk[f].todo[i].id = o
                            \/ \A i \in 1 .. Len(Listed(f)) :
                                  i <= (walk[f].page - 1) * size => Listed(f)[i] # o
        /\ walk[f].st \in {"apply", "sub"} /\ ~walk[f].more => (walk[f].page - 1) * size >= Len(Listed(f))
        /\ walk[f].st = "done" => \A o \in Kids(f) : ~Pending(o)

WalkInv ==
    job = "walk" => /\ WalkTree
                    /\ removed = {} => WalkTokens /\ \A f \in Objs \cup {Top} : WalkAhead(f)

(* Emptying the trash: what is expunged was told, until the last batch.     *)
EmptyInv ==
    job = "empty" =>
        /\ \A o \in Objs : ~row[o].anc
        /\ ~batch.done => ~batch.failed /\ \A o \in Objs : row[o].expunged => o \in batch.told
        /\ batch.done /\ ~batch.failed =>
              /\ size > 1 /\ ~batch.lost => \A o \in Objs : row[o].deleted => row[o].expunged
              /\ \E x : \A o \in Objs : row[o].expunged => o \in batch.told \/ o = x

(* Deleting children: the page number stays at 1 as long as all may go and  *)
(* every page could be listed.                                              *)
RemoveInv ==
    job = "remove" =>
        /\ \A o \in Objs : row[o].parent = Top
        /\ ~batch.lost /\ (\A o \in Objs : row[o].may) =>
              /\ batch.page = 1 /\ batch.one
              /\ batch.done => \A o \in Objs : row[o].deleted

Inv == TypeInv /\ ListInv /\ WalkInv /\ EmptyInv /\ RemoveInv
----------------------------------------------------------------------------
(* What a page holds. *)
LEMMA SortInt ==
    ASSUME IsOrder(order), row \in [Objs -> ListRows], NEW req, NEW o \in Objs
    PROVE  SortValue(req, o) \in Int
  <1>1. row[o].name \in Int
      BY ListingsAssumption
  <1>2. Len(order) - (CHOOSE i \in DOMAIN order : order[i] = o) \in Int
    <2>1. \E i \in DOMAIN order : order[i] = o
        BY DEF IsOrder, ToSet
    <2>2. (CHOOSE i \in DOMAIN order : order[i] = o) \in DOMAIN order
        BY <2>1
    <2>3. order \in Seq(Objs)
        BY DEF IsOrder
    <2> QED BY <2>2, <2>3
  <1> QED BY <1>1, <1>2 DEF SortValue

(* An arrangement holds every hit once, in order. *)
LEMMA ArrangementIs ==
    ASSUME NEW kind, NEW f, NEW req, NEW s \in Arrangements(kind, f, req)
    PROVE  /\ s \in Seq(Objs) /\ ToSet(s) = Hits(kind, f, req)
           /\ \A i, j \in DOMAIN s : i < j => ~Before(req, s[j], s[i]) /\ s[i] # s[j]
  <1>1. PICK H : H = Hits(kind, f, req)
      OBVIOUS
  <1>2. H \subseteq Objs /\ IsFiniteSet(H)
      BY <1>1, ListingsAssumption, FS_Subset DEF Hits
  <1>3. PICK n \in Nat : n = Cardinality(H)
      BY <1>2, FS_CardinalityType
  <1>4. /\ s \in [1 .. n -> H] /\ \A i, j \in 1 .. n : i # j => s[i] # s[j]
        /\ \A i, j \in DOMAIN s : i < j => ~Before(req, s[j], s[i])
      BY <1>1, <1>3 DEF Arrangements, SetToSeqs
  <1>5. s \in Injection(1 .. n, H)
      BY <1>4 DEF Injection, IsInjective
  <1>6. Cardinality(1 .. n) = n
      BY FS_Interval
  <1>7. s \in Surjection(1 .. n, H)
      BY <1>2, <1>3, <1>5, <1>6, FS_Injection
  <1>8. ToSet(s) = H
      BY <1>4, <1>7 DEF Surjection, ToSet
  <1>9. s \in Seq(H) /\ DOMAIN s = 1 .. n
      BY <1>4
  <1>10. s \in Seq(Objs)
      BY <1>2, <1>9
  <1>11. \A i, j \in DOMAIN s : i < j => s[i] # s[j]
      BY <1>4, <1>9
  <1> QED BY <1>1, <1>4, <1>8, <1>10, <1>11

(* Of two arrangements of one result: a row that sorts before another comes *)
(* earlier in the one than the other row in the other: there are too many   *)
(* rows that come no later.                                                 *)
LEMMA RankBefore ==
    ASSUME IsOrder(order), row \in [Objs -> ListRows], NEW kind, NEW f, NEW req,
           NEW s \in Arrangements(kind, f, req), NEW t \in Arrangements(kind, f, req),
           NEW i \in DOMAIN s, NEW j \in DOMAIN t, Before(req, t[j], s[i])
    PROVE  j < i
  <1>1. /\ s \in Seq(Objs) /\ t \in Seq(Objs) /\ ToSet(s) = ToSet(t)
        /\ \A a, b \in DOMAIN s : a < b => ~Before(req, s[b], s[a])
        /\ \A a, b \in DOMAIN t : a < b => ~Before(req, t[b], t[a]) /\ t[a] # t[b]
      BY ArrangementIs
  <1>2. i \in Nat \ {0} /\ j \in Nat \ {0} /\ DOMAIN s = 1 .. Len(s) /\ DOMAIN t = 1 .. Len(t)
        /\ Len(s) \in Nat /\ Len(t) \in Nat
      BY <1>1
  <1>3. (\A a \in DOMAIN s : s[a] \in Objs) /\ (\A a \in DOMAIN t : t[a] \in Objs)
      BY <1>1
  <1>4. ASSUME NEW k \in 1 .. j PROVE \E m \in 1 .. i - 1 : s[m] = t[k]
    <2>1. k \in DOMAIN t
        BY <1>2
    <2>2. PICK m \in DOMAIN s : s[m] = t[k]
        BY <1>1, <2>1 DEF ToSet
    <2>3. PICK x \in Int, y \in Int, z \in Int :
             x = SortValue(req, t[k]) /\ y = SortValue(req, t[j]) /\ z = SortValue(req, s[i])
        BY <1>3, <2>1, SortInt
    <2>4. k = j \/ ~Before(req, t[j], t[k])
        BY <1>1, <1>2, <2>1
    <2>5. Before(req, t[k], s[i])
        BY <2>3, <2>4 DEF Before
    <2>6. ~(i < m)
        BY <1>1, <2>2, <2>5
    <2>7. m # i
        BY <2>2, <2>3, <2>5 DEF Before
    <2>8. m \in 1 .. i - 1
        BY <1>2, <2>6, <2>7
    <2> QED BY <2>2, <2>8
  <1> DEFINE g == [k \in 1 .. j |-> CHOOSE m \in 1 .. i - 1 : s[m] = t[k]]
  <1>5. \A k \in 1 .. j : g[k] \in 1 .. i - 1 /\ s[g[k]] = t[k]
      BY <1>4
  <1>6. g \in [1 .. j -> 1 .. i - 1]
      BY <1>5
  <1>7. \A a, b \in 1 .. j : g[a] = g[b] => a = b
    <2> SUFFICES ASSUME NEW a \in 1 .. j, NEW b \in 1 .. j, g[a] = g[b], a # b PROVE FALSE
        OBVIOUS
    <2>1. t[a] = t[b]
        BY <1>5
    <2>2. a \in DOMAIN t /\ b \in DOMAIN t /\ (a < b \/ b < a)
        BY <1>2
    <2> QED BY <1>1, <2>1, <2>2
  <1> HIDE DEF g
  <1>8. g \in Injection(1 .. j, 1 .. i - 1)
      BY <1>6, <1>7 DEF Injection, IsInjective
  <1>9. /\ IsFiniteSet(1 .. i - 1) /\ Cardinality(1 .. i - 1) = i - 1 /\ Cardinality(1 .. j) = j
    <2>1. PICK a \in Int, b \in Int, c \in Int : a = i - 1 /\ b = j /\ c = 1
        BY <1>2
    <2>2. /\ IsFiniteSet(c .. a) /\ Cardinality(c .. a) = IF c > a THEN 0 ELSE a - c + 1
          /\ Cardinality(c .. b) = IF c > b THEN 0 ELSE b - c + 1
        BY FS_Interval
    <2>3. (IF c > a THEN 0 ELSE a - c + 1) = i - 1 /\ (IF c > b THEN 0 ELSE b - c + 1) = j
        BY <1>2, <2>1
    <2> QED BY <2>1, <2>2, <2>3
  <1>10. j <= i - 1
      BY <1>8, <1>9, FS_Injection
  <1> QED BY <1>2, <1>10

(* A row that is alone with its sort value has one place. *)
LEMMA RankSame ==
    ASSUME IsOrder(order), row \in [Objs -> ListRows], NEW kind, NEW f, NEW req,
           NEW s \in Arrangements(kind, f, req), NEW t \in Arrangements(kind, f, req),
           NEW i \in DOMAIN s, NEW j \in DOMAIN t, s[i] = t[j],
           \A x \in Hits(kind, f, req) : SortValue(req, x) = SortValue(req, t[j]) => x = t[j]
    PROVE  ~(i < j)
  <1> SUFFICES ASSUME i < j PROVE FALSE
      OBVIOUS
  <1>1. /\ s \in Seq(Objs) /\ t \in Seq(Objs) /\ ToSet(t) = Hits(kind, f, req)
        /\ \A a, b \in DOMAIN t : a < b => ~Before(req, t[b], t[a]) /\ t[a] # t[b]
      BY ArrangementIs
  <1>2. i \in Nat \ {0} /\ j \in Nat \ {0} /\ DOMAIN t = 1 .. Len(t) /\ Len(t) \in Nat
      BY <1>1
  <1>3. j - 1 \in DOMAIN t /\ j - 1 < j /\ ~(j - 1 < i)
      BY <1>2
  <1>4. PICK x \in Int, y \in Int : x = SortValue(req, t[j - 1]) /\ y = SortValue(req, t[j])
      BY <1>1, <1>3, SortInt
  <1>5. ~Before(req, t[j], t[j - 1]) /\ t[j - 1] # t[j] /\ t[j - 1] \in Hits(kind, f, req)
      BY <1>1, <1>3 DEF ToSet
  <1>6. x # y
      BY <1>4, <1>5
  <1>7. Before(req, t[j - 1], s[i])
      BY <1>4, <1>5, <1>6 DEF Before
  <1> QED BY <1>3, <1>7, RankBefore

LEMMA NewestPage ==
    ASSUME IsOrder(order), NEW kind, NEW f, NEW page \in Nat \ {0}, NEW n \in Nat \ {0}
    PROVE  /\ Newest(kind, f) \in Seq(Objs) /\ ToSet(Newest(kind, f)) = Hits(kind, f, NoFilter)
           /\ Page(Newest(kind, f), NoFilter, page, n).pages = GetPageCount(Len(Newest(kind, f)), n)
           /\ Page(Newest(kind, f), NoFilter, page, n).objs \in Seq(Objs)
           /\ ToSet(Page(Newest(kind, f), NoFilter, page, n).objs) \subseteq Hits(kind, f, NoFilter)
           /\ \A i \in 1 .. Len(Newest(kind, f)) :
                 i <= page * n => \/ i <= (page - 1) * n
                                  \/ Newest(kind, f)[i] \in ToSet(Page(Newest(kind, f), NoFilter, page, n).objs)
           /\ page = 1 => /\ n < Len(Newest(kind, f)) => Len(Page(Newest(kind, f), NoFilter, page, n).objs) = n
                          /\ n >= Len(Newest(kind, f)) => Page(Newest(kind, f), NoFilter, page, n).objs = Newest(kind, f)
  <1> DEFINE L == Only(order, Hits(kind, f, NoFilter))
             from == (page - 1) * n
             upto == IF from + n < Len(L) THEN from + n ELSE Len(L)
             p == Page(Newest(kind, f), NoFilter, page, n)
  <1>2. Objs \subseteq Kept(NoFilter)
      BY DEF Kept, PostProcess, NoFilter
  <1>3. L \in Seq(Objs) /\ ToSet(L) = Hits(kind, f, NoFilter)
    <2>1. Hits(kind, f, NoFilter) \subseteq Objs
        BY DEF Hits
    <2>2. order \in Seq(Objs) /\ ToSet(order) = Objs
        BY DEF IsOrder
    <2>3. L \in Seq(Objs) /\ ToSet(L) = ToSet(order) \cap Hits(kind, f, NoFilter)
        BY <2>2, OnlySeq
    <2> QED BY <2>1, <2>2, <2>3
  <1>4. L = Newest(kind, f)
      BY DEF Newest
  <1> HIDE DEF L
  <1>5. from \in Nat /\ from = (page - 1) * n
      OBVIOUS
  <1> HIDE DEF from
  <1>6. upto \in Nat /\ upto <= Len(L) /\ upto = IF from + n < Len(L) THEN from + n ELSE Len(L)
      BY <1>3, <1>5
  <1> HIDE DEF upto
  <1>7. PICK cut \in Seq(Objs) : cut = SubSeq(L, from + 1, upto)
    <2>1. \A i \in from + 1 .. upto : L[i] \in Objs
        BY <1>3, <1>5, <1>6
    <2>2. SubSeq(L, from + 1, upto) \in Seq(Objs)
        BY <1>5, <1>6, <2>1, SubSeqProperties
    <2> QED BY <2>2
  <1>8. Only(cut, Kept(NoFilter)) = cut
      BY <1>2, OnlyAll
  <1>9. GetOffset(page, n) = from
      BY <1>5 DEF GetOffset
  <1>10. p.pages = GetPageCount(Len(L), n) /\ p.objs = Only(SubSeq(L, from + 1, upto), Kept(NoFilter))
      BY <1>4, <1>6, <1>9 DEF Page
  <1> HIDE DEF p
  <1>11. p.objs = cut
      BY <1>7, <1>8, <1>10
  <1>12. page * n = from + n
      BY <1>5
  <1>13. /\ Len(cut) = IF from + 1 <= upto THEN upto - (from + 1) + 1 ELSE 0
         /\ \A i \in 1 .. upto - (from + 1) + 1 : cut[i] = L[(from + 1) + i - 1]
    <2>1. \A i \in from + 1 .. upto : L[i] \in Objs
        BY <1>3, <1>5, <1>6
    <2>2. PICK a, b \in Int : a = from + 1 /\ b = upto
        BY <1>5, <1>6
    <2>3. /\ Len(SubSeq(L, a, b)) = IF a <= b THEN b - a + 1 ELSE 0
          /\ \A i \in 1 .. b - a + 1 : SubSeq(L, a, b)[i] = L[a + i - 1]
        BY <2>1, <2>2, SubSeqProperties
    <2> QED BY <1>7, <2>2, <2>3
  <1>14. \A i \in 1 .. Len(L) : i <= from + n => i <= from \/ L[i] \in ToSet(cut)
    <2> SUFFICES ASSUME NEW i \in 1 .. Len(L), i <= from + n, ~(i <= from) PROVE L[i] \in ToSet(cut)
        OBVIOUS
    <2>0. Len(L) \in Nat
        BY <1>3
    <2>1. i - from \in 1 .. upto - (from + 1) + 1 /\ from + 1 <= upto /\ (from + 1) + (i - from) - 1 = i
        BY <1>5, <1>6, <2>0
    <2>2. cut[i - from] = L[i] /\ i - from \in DOMAIN cut
        BY <1>5, <1>6, <1>13, <2>1
    <2> QED BY <2>2 DEF ToSet
  <1>15. ToSet(cut) \subseteq ToSet(L)
    <2> SUFFICES ASSUME NEW i \in DOMAIN cut PROVE cut[i] \in ToSet(L)
        BY DEF ToSet
    <2>1. i \in 1 .. upto - (from + 1) + 1 /\ (from + 1) + i - 1 \in 1 .. Len(L)
      <3>1. i \in 1 .. Len(cut) /\ Len(L) \in Nat
          BY <1>3, <1>7
      <3>2. from + 1 <= upto /\ Len(cut) = upto - (from + 1) + 1
        <4>1. Len(cut) # 0
            BY <3>1
        <4> QED BY <1>13, <4>1
      <3>3. upto \in Nat /\ upto <= Len(L)
          BY <1>6
      <3> QED BY <1>5, <3>1, <3>2, <3>3
    <2>2. DOMAIN L = 1 .. Len(L)
        BY <1>3
    <2> QED BY <1>13, <2>1, <2>2 DEF ToSet
  <1>16. ASSUME page = 1 PROVE /\ n < Len(L) => Len(cut) = n
                               /\ n >= Len(L) => cut = L
    <2>0. Len(L) \in Nat
        BY <1>3
    <2>1. from = 0
        BY <1>5, <1>16
    <2>2. n < Len(L) => Len(cut) = n
        BY <1>6, <1>13, <2>0, <2>1
    <2>3. ASSUME n >= Len(L) PROVE cut = L
      <3>1. upto = Len(L)
          BY <1>6, <2>0, <2>1, <2>3
      <3>2. SubSeq(L, 1, Len(L)) = L
          BY <1>3, SubSeqFull
      <3> QED BY <1>7, <2>1, <3>1, <3>2
    <2> QED BY <2>2, <2>3
  <1>17. Newest(kind, f) = L
      BY <1>4 
  <1> QED BY <1>3, <1>5, <1>10, <1>11, <1>12, <1>14, <1>15, <1>16, <1>17 DEF p

LEMMA NewestHits ==
    /\ \A r : BuildFilter(NoFilter, r)
    /\ \A f : Hits("children", f, NoFilter) = {o \in Objs : ~row[o].deleted /\ row[o].parent = f}
    /\ row \in [Objs -> Rows] /\ (\A o \in Objs : ~row[o].anc) =>
          \A f : Hits("trash", f, NoFilter) = {o \in Objs : row[o].deleted /\ ~row[o].expunged}
  <1>1. ToSet(NoFilter.filters) = {}
      BY DEF NoFilter, ToSet
  <1>2. \A r : BuildFilter(NoFilter, r)
      BY <1>1 DEF BuildFilter
  <1>3. ASSUME NEW f, NEW o \in Objs
        PROVE  Where("children", f, row[o]) <=> ~row[o].deleted /\ row[o].parent = f
      BY DEF Where, GetChildObjects
  <1>4. ASSUME row \in [Objs -> Rows], NEW f, NEW o \in Objs, ~row[o].anc
        PROVE  Where("trash", f, row[o]) <=> row[o].deleted /\ ~row[o].expunged
    <2>1. row[o] \in Rows
        BY <1>4
    <2>2. Where("trash", f, row[o]) <=> GetTrashedObjectsByUser(row[o])
        BY DEF Where
    <2> QED BY <1>4, <2>1, <2>2 DEF GetTrashedObjectsByUser, JoinUserToACM, IOrMyGroupsOwn, Rows
  <1> QED BY <1>2, <1>3, <1>4 DEF Hits
----------------------------------------------------------------------------
LEMMA InitType == ASSUME Init PROVE TypeInv
  <1>1. IsOrder(order)
      BY InitOrder DEF Init
  <1>2. ver \in [Objs -> Nat] /\ applied \subseteq Objs
      BY DEF Init
  <1>3. MaxPageSize \in Nat \ {0} /\ \A n \in 1 .. MaxPageSize : n \in Nat \ {0}
      BY ListingsAssumption
  <1>4. NoList \in Lists /\ NoBatch \in Batches /\ [NoBatch EXCEPT !.done = FALSE] \in Batches
    <2>1. <<>> \in Seq(Objs) /\ {} \in SUBSET Objs /\ 1 \in Nat \ {0}
        BY EmptySeq
    <2>2. NoList \in Lists
        BY <2>1 DEF NoList, Lists
    <2>3. NoBatch \in Batches
        BY <2>1 DEF NoBatch, Batches
    <2>4. [NoBatch EXCEPT !.done = FALSE] \in Batches
        BY <2>3 DEF Batches
    <2> QED BY <2>2, <2>3, <2>4
  <1>5. NoWalk \in Walks /\ Begin \in Walks
    <2>1. <<>> \in Seq(Todos)
        BY EmptySeq
    <2> QED BY <2>1 DEF NoWalk, Begin, Walks
  <1>6. \A f \in Objs \cup {Top} : walk[f].st # "off" => walk[f].page > 0
    <2>1. \A f \in Objs \cup {Top} : walk[f] = NoWalk \/ walk[f] = Begin
        BY DEF Init
    <2>2. NoWalk.st = "off" /\ Begin.page = 1
        BY DEF NoWalk, Begin
    <2> QED BY <2>1, <2>2
  <1>7. Top \in Parents
      BY DEF Parents
  <1>8. CASE job = "list"
    <2>1. \A n \in PageSizes : SanitizedSize(n) \in Nat \ {0}
        BY SizeIsPositive
    <2>2. size \in Nat \ {0} /\ batch \in Batches /\ walk \in [Objs \cup {Top} -> Walks]
        BY <1>4, <1>5, <1>8, <2>1 DEF Init
    <2>3. list \in [kind : Kinds, req : {NewPagingRequest(q) : q \in Queries}, page : {1}, got : {<<>>}, done : {FALSE}]
        BY <1>8 DEF Init
    <2>4. <<>> \in Seq(Objs)
        BY EmptySeq
    <2>5. list \in Lists
      <3>1. /\ list = [kind |-> list.kind, req |-> list.req, page |-> list.page, got |-> list.got, done |-> list.done]
            /\ list.kind \in Kinds /\ list.req \in {NewPagingRequest(q) : q \in Queries}
            /\ list.page = 1 /\ list.got = <<>> /\ list.done = FALSE
          BY <2>3
      <3>2. list.got \in Seq(Objs) /\ list.page \in Nat \ {0}
          BY <2>4, <3>1
      <3>5. list.done \in BOOLEAN
        <4>1. list.done \in {FALSE}
            BY <2>3
        <4> QED BY <4>1, Zenon
      <3>3. list.kind \in Kinds \cup {"none"}
          BY <3>1
      <3>4. list.req \in {NewPagingRequest(q) : q \in Queries} \cup {NoFilter}
          BY <3>1, Zenon
      <3> QED BY <3>1, <3>2, <3>3, <3>4, <3>5 DEF Lists
    <2>6. row \in [Objs -> ListRows]
        BY <1>8 DEF Init
    <2> QED BY <1>1, <1>2, <1>6, <1>8, <2>2, <2>5, <2>6 DEF TypeInv
  <1>9. CASE job = "walk"
    <2>1. size \in Nat \ {0} /\ batch \in Batches /\ list \in Lists /\ walk \in [Objs \cup {Top} -> Walks]
        BY <1>3, <1>4, <1>5, <1>9 DEF Init
    <2>2. PICK tree \in Trees, may \in SUBSET Objs :
             row = [o \in Objs |-> [NewRow EXCEPT !.parent = tree[o], !.may = o \in may]]
        BY <1>9 DEF Init
    <2>3. \A o \in Objs : tree[o] \in Parents
        BY DEF Parents
    <2>4. \A o \in Objs : [NewRow EXCEPT !.parent = tree[o], !.may = o \in may] \in Rows
      <3> SUFFICES ASSUME NEW o \in Objs
                   PROVE  [NewRow EXCEPT !.parent = tree[o], !.may = o \in may] \in Rows
          OBVIOUS
      <3>1. (o \in may) \in BOOLEAN
          OBVIOUS
      <3>2. \A b \in BOOLEAN : [NewRow EXCEPT !.parent = tree[o], !.may = b] \in Rows
          BY <2>3 DEF NewRow, Rows
      <3> QED BY <3>1, <3>2
    <2>5. row \in [Objs -> Rows]
        BY <2>2, <2>4
    <2> QED BY <1>1, <1>2, <1>6, <1>9, <2>1, <2>5 DEF TypeInv
  <1>10. CASE job = "empty"
    <2>1. size \in Nat \ {0} /\ batch \in Batches /\ list \in Lists /\ walk \in [Objs \cup {Top} -> Walks]
        BY <1>3, <1>4, <1>5, <1>10 DEF Init
    <2>2. PICK trash \in SUBSET Objs : row = [o \in Objs |-> [NewRow EXCEPT !.deleted = o \in trash]]
        BY <1>10 DEF Init
    <2>3. \A o \in Objs : [NewRow EXCEPT !.deleted = o \in trash] \in Rows
      <3> SUFFICES ASSUME NEW o \in Objs
                   PROVE  [NewRow EXCEPT !.deleted = o \in trash] \in Rows
          OBVIOUS
      <3>1. (o \in trash) \in BOOLEAN
          OBVIOUS
      <3>2. \A b \in BOOLEAN : [NewRow EXCEPT !.deleted = b] \in Rows
          BY <1>7 DEF NewRow, Rows
      <3> QED BY <3>1, <3>2
    <2>4. row \in [Objs -> Rows]
        BY <2>2, <2>3
    <2> QED BY <1>1, <1>2, <1>6, <1>10, <2>1, <2>4 DEF TypeInv
  <1>11. CASE job = "remove"
    <2>1. size \in Nat \ {0} /\ batch \in Batches /\ list \in Lists /\ walk \in [Objs \cup {Top} -> Walks]
        BY <1>3, <1>4, <1>5, <1>11 DEF Init
    <2>2. PICK may \in SUBSET Objs : row = [o \in Objs |-> [NewRow EXCEPT !.may = o \in may]]
        BY <1>11 DEF Init
    <2>3. \A o \in Objs : [NewRow EXCEPT !.may = o \in may] \in Rows
      <3> SUFFICES ASSUME NEW o \in Objs
                   PROVE  [NewRow EXCEPT !.may = o \in may] \in Rows
          OBVIOUS
      <3>1. (o \in may) \in BOOLEAN
          OBVIOUS
      <3>2. \A b \in BOOLEAN : [NewRow EXCEPT !.may = b] \in Rows
          BY <1>7 DEF NewRow, Rows
      <3> QED BY <3>1, <3>2
    <2>4. row \in [Objs -> Rows]
        BY <2>2, <2>3
    <2> QED BY <1>1, <1>2, <1>6, <1>11, <2>1, <2>4 DEF TypeInv
  <1> QED BY <1>8, <1>9, <1>10, <1>11 DEF Init

LEMMA InitInv == ASSUME Init PROVE Inv
  <1>1. TypeInv
      BY InitType
  <1>2. ListInv
    <2> SUFFICES ASSUME job = "list" PROVE ListInv
        BY DEF ListInv
    <2>1. list.page = 1 /\ list.got = <<>> /\ list.done = FALSE
        BY DEF Init
    <2>2. Passed = 0
      <3>1. size \in Nat
          BY <1>1 DEF TypeInv
      <3> QED BY <2>1, <3>1 DEF Passed
    <2>3. \A s \in Arranged : \A p \in DOMAIN s : ~(p <= Passed)
      <3> SUFFICES ASSUME NEW s \in Arranged, NEW p \in DOMAIN s PROVE ~(p <= 0)
          BY <2>2
      <3>1. s \in Seq(Objs)
          BY ArrangementIs DEF Arranged
      <3> QED BY <3>1
    <2>4. DOMAIN list.got = {}
        BY <2>1
    <2> QED BY <2>1, <2>3, <2>4 DEF ListInv
  <1>3. WalkInv
    <2> SUFFICES ASSUME job = "walk" PROVE WalkTree /\ WalkTokens /\ \A f \in Objs \cup {Top} : WalkAhead(f)
        BY DEF WalkInv
    <2>1. PICK tree \in Trees, may \in SUBSET Objs :
             row = [o \in Objs |-> [NewRow EXCEPT !.parent = tree[o], !.may = o \in may]]
        BY DEF Init
    <2>2. /\ walk = [f \in Objs \cup {Top} |-> IF f = Top THEN Begin ELSE NoWalk]
          /\ ver = [o \in Objs |-> 0] /\ applied = {} /\ others = {}
        BY DEF Init
    <2>3. /\ NoWalk.st = "off" /\ NoWalk.todo = <<>>
          /\ Begin.st = "list" /\ Begin.todo = <<>> /\ Begin.page = 1
        BY DEF NoWalk, Begin
    <2>4. Top \notin Objs
        BY ListingsAssumption
    <2>5. \A o \in Objs : row[o].deleted = FALSE
        BY <2>1 DEF NewRow
    <2>6. \A f \in Objs \cup {Top} : walk[f].todo = <<>>
        BY <2>2, <2>3
    <2>7. WalkTokens
        BY <2>2, <2>3, <2>4, <2>5, <2>6 DEF WalkTokens
    <2>8. ASSUME NEW f \in Objs \cup {Top} PROVE WalkAhead(f)
      <3>1. CASE f = Top
        <4>1. walk[f] = Begin
            BY <2>2, <3>1
        <4>2. (walk[f].page - 1) * size = 0
            BY <1>1, <2>3, <4>1 DEF TypeInv
        <4>3. \A i \in 1 .. Len(Listed(f)) : ~(i <= 0)
            OBVIOUS
        <4> QED BY <2>3, <4>1, <4>2, <4>3 DEF WalkAhead
      <3>2. CASE f # Top
          BY <2>2, <2>3, <3>2 DEF WalkAhead
      <3> QED BY <3>1, <3>2
    <2>9. WalkTree
        BY <2>2, <2>3, <2>4, <2>6 DEF WalkTree
    <2> QED BY <2>7, <2>8, <2>9
  <1>4. EmptyInv
    <2> SUFFICES ASSUME job = "empty" PROVE EmptyInv
        BY DEF EmptyInv
    <2>1. PICK trash \in SUBSET Objs : row = [o \in Objs |-> [NewRow EXCEPT !.deleted = o \in trash]]
        BY DEF Init
    <2>2. \A o \in Objs : row[o].anc = FALSE /\ row[o].expunged = FALSE
        BY <2>1 DEF NewRow
    <2>3. batch.done = FALSE /\ batch.failed = FALSE
        BY DEF Init, NoBatch
    <2> QED BY <2>2, <2>3 DEF EmptyInv
  <1>5. RemoveInv
    <2> SUFFICES ASSUME job = "remove" PROVE RemoveInv
        BY DEF RemoveInv
    <2>1. PICK may \in SUBSET Objs : row = [o \in Objs |-> [NewRow EXCEPT !.may = o \in may]]
        BY DEF Init
    <2>2. \A o \in Objs : row[o].parent = Top
        BY <2>1 DEF NewRow
    <2>3. batch.done = FALSE /\ batch.page = 1 /\ batch.one = TRUE
        BY DEF Init, NoBatch
    <2> QED BY <2>2, <2>3 DEF RemoveInv
  <1> QED BY <1>1, <1>2, <1>3, <1>4, <1>5 DEF Inv
----------------------------------------------------------------------------
(* What follows what in two sequences put together. *)
LEMMA Joined ==
    ASSUME NEW a \in Seq(Objs), NEW b \in Seq(Objs),
           NEW m \in Nat, m = Len(a), NEW l \in Nat, l = Len(b)
    PROVE  /\ DOMAIN (a \o b) = 1 .. m + l
           /\ \A i \in 1 .. m : (a \o b)[i] = a[i]
           /\ \A i \in 1 .. l : (a \o b)[m + i] = b[i]
  <1>1. PICK c \in Seq(Objs) : c = a \o b
    <2>1. a \o b \in Seq(Objs)
        BY ConcatProperties
    <2> QED BY <2>1
  <1>2. /\ Len(c) = m + l
        /\ \A i \in 1 .. m + l : c[i] = IF i <= m THEN a[i] ELSE b[i - m]
      BY <1>1, ConcatProperties
  <1>3. DOMAIN c = 1 .. m + l
      BY <1>2
  <1>4. \A i \in 1 .. m : i \in 1 .. m + l /\ i <= m
      OBVIOUS
  <1>5. \A i \in 1 .. l : m + i \in 1 .. m + l /\ ~(m + i <= m) /\ (m + i) - m = i
      OBVIOUS
  <1> QED BY <1>1, <1>2, <1>3, <1>4, <1>5

(* A page more for the client. *)
LEMMA ListStep == ASSUME Inv, ListPage PROVE Inv'
  <1>1. TypeInv /\ ListInv /\ job = "list" /\ job' = "list"
      BY DEF Inv, ListPage
  <1>2. UNCHANGED <<row, order, ver, size, walk, applied, batch>>
      BY DEF ListPage
  <1>3. PICK n \in Nat \ {0}, k \in Nat \ {0} : n = size /\ k = list.page
      BY <1>1 DEF TypeInv, Lists
  <1>4. PICK L \in Seq(Objs) :
           /\ L \in Arranged
           /\ list' = [list EXCEPT !.got = @ \o Page(L, list.req, list.page, size).objs,
                                   !.page = @ + 1,
                                   !.done = list.page >= Page(L, list.req, list.page, size).pages]
    <2>1. PICK s \in Arranged :
             list' = [list EXCEPT !.got = @ \o Page(s, list.req, list.page, size).objs,
                                  !.page = @ + 1,
                                  !.done = list.page >= Page(s, list.req, list.page, size).pages]
        BY DEF ListPage, Arranged
    <2>2. s \in Seq(Objs)
        BY ArrangementIs DEF Arranged
    <2> QED BY <2>1, <2>2
  <1> DEFINE start == (k - 1) * n
             stop == IF start + n < Len(L) THEN start + n ELSE Len(L)
             p == Page(L, list.req, list.page, size)
             K == Kept(list.req)
  <1>5. p.pages = GetPageCount(Len(L), n) /\ p.objs = Only(SubSeq(L, start + 1, stop), K)
    <2>1. list.page \in Nat \ {0} /\ size \in Nat \ {0}
        BY <1>3
    <2>2. start = (list.page - 1) * size /\ stop = IF start + size < Len(L) THEN start + size ELSE Len(L)
        BY <1>3
    <2> HIDE DEF start, stop
    <2>3. GetOffset(list.page, size) = start
        BY <2>1, <2>2 DEF GetOffset
    <2>4. p.pages = GetPageCount(Len(L), size) /\ p.objs = Only(SubSeq(L, start + 1, stop), K)
        BY <2>2, <2>3 DEF Page
    <2> QED BY <1>3, <2>4
  <1>6. /\ ToSet(L) = Hits(list.kind, Top, list.req)
        /\ \A i, j \in DOMAIN L : i < j => ~Before(list.req, L[j], L[i]) /\ L[i] # L[j]
      BY <1>4, ArrangementIs DEF Arranged
  <1>7. /\ list'.got = list.got \o p.objs /\ list'.page = k + 1 /\ list'.done = (k >= p.pages)
        /\ list'.kind = list.kind /\ list'.req = list.req
      BY <1>1, <1>3, <1>4 DEF TypeInv, Lists
  <1>8. Arranged' = Arranged /\ Kept(list.req)' = K
      BY <1>2, <1>7 DEF Arranged, Arrangements, Before, SortValue, Hits, Kept
  <1>9. Passed = start /\ Passed' = start + n
    <2>1. (k + 1 - 1) * n = (k - 1) * n + n
        OBVIOUS
    <2> QED BY <1>2, <1>3, <1>7, <2>1 DEF Passed
  <1>10. ASSUME NEW x, NEW y PROVE Before(list.req, x, y)' <=> Before(list.req, x, y)
      BY <1>2, <1>7 DEF Before, SortValue
  <1>11. ASSUME NEW x PROVE Single(x)' <=> Single(x)
      BY <1>2, <1>7 DEF Single, Hits, SortValue
  <1>12. IsOrder(order) /\ row \in [Objs -> ListRows]
      BY <1>1 DEF TypeInv
  <1> HIDE DEF K, p
  <1>13. PICK from \in Nat, len \in Nat, upto \in Nat :
            /\ from = start /\ len = Len(L) /\ upto = stop
            /\ upto = IF from + n < len THEN from + n ELSE len
    <2>1. start \in Nat /\ Len(L) \in Nat
        OBVIOUS
    <2> HIDE DEF start
    <2>2. stop \in Nat
        BY <2>1
    <2> QED BY <2>1, <2>2
  <1>14. k * n = from + n
      BY <1>13
  <1> HIDE DEF start, stop
  <1>15a. /\ p.pages = GetPageCount(len, n) /\ p.objs = Only(SubSeq(L, from + 1, upto), K)
          /\ Passed = from /\ Passed' = from + n
          /\ DOMAIN L = 1 .. len /\ len = Len(L)
      BY <1>5, <1>9, <1>13
  (* The rows of the page. *)
  <1>15. PICK cut \in Seq(Objs) :
            /\ cut = SubSeq(L, from + 1, upto)
            /\ DOMAIN cut = 1 .. upto - from
            /\ \A i \in 1 .. upto - from : cut[i] = L[from + i] /\ from + i \in DOMAIN L
    <2>1. PICK a, b \in Int : a = from + 1 /\ b = upto
        OBVIOUS
    <2>2. \A i \in a .. b : L[i] \in Objs
        BY <1>6, <1>13, <1>15a, <2>1
    <2>3. /\ SubSeq(L, a, b) \in Seq(Objs)
          /\ Len(SubSeq(L, a, b)) = IF a <= b THEN b - a + 1 ELSE 0
          /\ \A i \in 1 .. b - a + 1 : SubSeq(L, a, b)[i] = L[a + i - 1]
        BY <2>2, SubSeqProperties
    <2>4. b - a + 1 = upto - from
        BY <1>13, <1>15a, <2>1
    <2>5. DOMAIN SubSeq(L, a, b) = 1 .. upto - from
      <3>1. DOMAIN SubSeq(L, a, b) = 1 .. Len(SubSeq(L, a, b))
          BY <2>3
      <3>2. CASE a <= b
          BY <2>3, <2>4, <3>1, <3>2
      <3>3. CASE ~(a <= b)
        <4>1. 1 .. upto - from = {} /\ 1 .. 0 = {}
            BY <1>13, <1>15a, <2>1, <3>3
        <4> QED BY <2>3, <3>1, <3>3, <4>1
      <3> QED BY <3>2, <3>3
    <2>6. \A i \in 1 .. upto - from : a + i - 1 = from + i /\ from + i \in DOMAIN L
        BY <1>13, <1>15a, <2>1
    <2>7. PICK cut \in Seq(Objs) : cut = SubSeq(L, a, b)
        BY <2>3
    <2>8. \A i \in 1 .. upto - from : cut[i] = L[from + i]
        BY <2>3, <2>4, <2>6, <2>7
    <2>9. cut = SubSeq(L, from + 1, upto)
        BY <2>1, <2>7
    <2> QED BY <2>5, <2>6, <2>7, <2>8, <2>9
  <1>16. PICK new \in Seq(Objs) : new = Only(cut, K) /\ ToSet(new) = ToSet(cut) \cap K
      BY OnlySeq
  <1>17. \A i \in DOMAIN new : new[i] \in K /\ \E q \in DOMAIN L : q > from /\ q <= from + n /\ L[q] = new[i]
    <2> SUFFICES ASSUME NEW i \in DOMAIN new
                 PROVE  new[i] \in K /\ \E q \in DOMAIN L : q > from /\ q <= from + n /\ L[q] = new[i]
        OBVIOUS
    <2>1. new[i] \in ToSet(cut) \cap K
        BY <1>16 DEF ToSet
    <2>2. PICK j \in 1 .. upto - from : new[i] = cut[j]
        BY <1>15, <2>1 DEF ToSet
    <2>3. from + j \in DOMAIN L /\ from + j > from /\ from + j <= from + n /\ L[from + j] = new[i]
        BY <1>13, <1>15a, <1>15, <2>2
    <2> QED BY <2>1, <2>3
  <1>18. \A i, j \in DOMAIN new : i < j => ~Before(list.req, new[j], new[i]) /\ new[i] # new[j]
    <2> DEFINE R == {r \in Objs \X Objs : ~Before(list.req, r[2], r[1]) /\ r[1] # r[2]}
    <2>1. \A i, j \in DOMAIN cut : i < j => <<cut[i], cut[j]>> \in R
      <3> SUFFICES ASSUME NEW i \in DOMAIN cut, NEW j \in DOMAIN cut, i < j
                   PROVE  <<cut[i], cut[j]>> \in R
          OBVIOUS
      <3>1. from + i \in DOMAIN L /\ from + j \in DOMAIN L /\ from + i < from + j
          BY <1>13, <1>15a, <1>15
      <3>2. cut[i] = L[from + i] /\ cut[j] = L[from + j]
          BY <1>15
      <3>3. cut[i] \in Objs /\ cut[j] \in Objs
          OBVIOUS
      <3> QED BY <1>6, <3>1, <3>2, <3>3
    <2> HIDE DEF R
    <2>2. \A i, j \in DOMAIN Only(cut, K) : i < j => <<Only(cut, K)[i], Only(cut, K)[j]>> \in R
        BY <2>1, OnlyRelated
    <2> QED BY <1>16, <2>2 DEF R
  (* What the client has then. *)
  <1>19. PICK old \in Seq(Objs) : old = list.got
      BY <1>1 DEF TypeInv, Lists
  <1>20. PICK m \in Nat, l \in Nat : /\ m = Len(old) /\ DOMAIN old = 1 .. m
                                     /\ l = Len(new) /\ DOMAIN new = 1 .. l
      OBVIOUS
  <1>21. PICK got \in Seq(Objs) : got = old \o new /\ got = list'.got
    <2>1. list'.got = old \o new
        BY <1>7, <1>15, <1>15a, <1>16, <1>19
    <2>2. old \o new \in Seq(Objs)
        OBVIOUS
    <2> QED BY <2>1, <2>2
  <1>22. /\ DOMAIN got = 1 .. m + l
         /\ \A i \in 1 .. m : got[i] = old[i] /\ i \in DOMAIN got
         /\ \A i \in 1 .. l : got[m + i] = new[i] /\ m + i \in DOMAIN got
         /\ \A i \in DOMAIN got : i \in 1 .. m \/ (~(i \in 1 .. m) /\ i - m \in 1 .. l /\ got[i] = new[i - m])
    <2>0. /\ DOMAIN got = 1 .. m + l
          /\ \A i \in 1 .. m : got[i] = old[i]
          /\ \A i \in 1 .. l : got[m + i] = new[i]
      <3>1. m = Len(old) /\ l = Len(new)
          BY <1>20
      <3>2. /\ DOMAIN (old \o new) = 1 .. m + l
            /\ \A i \in 1 .. m : (old \o new)[i] = old[i]
            /\ \A i \in 1 .. l : (old \o new)[m + i] = new[i]
          BY <3>1, Joined
      <3> QED BY <1>21, <3>2, Zenon
    <2>1. DOMAIN got = 1 .. m + l
        BY <2>0
    <2>2. \A i \in 1 .. m : got[i] = old[i] /\ i \in DOMAIN got
        BY <2>0
    <2>3. \A i \in 1 .. l : got[m + i] = new[i] /\ m + i \in DOMAIN got
        BY <2>0
    <2>4. ASSUME NEW i \in 1 .. m + l, ~(i \in 1 .. m) PROVE i - m \in 1 .. l /\ got[i] = new[i - m]
      <3>1. i - m \in 1 .. l /\ m + (i - m) = i
          BY <2>4
      <3> QED BY <2>3, <3>1
    <2> QED BY <2>1, <2>2, <2>3, <2>4
  <1>23. \A i \in 1 .. m :
            old[i] \in K /\ \E s \in Arranged : \E q \in DOMAIN s : q <= from /\ s[q] = old[i]
      BY <1>1, <1>15a, <1>19, <1>20 DEF ListInv, K
  <1>24. ASSUME NEW i \in DOMAIN got
         PROVE  got[i] \in K /\ \E s \in Arranged : \E q \in DOMAIN s : q <= from + n /\ s[q] = got[i]
    <2>1. CASE i \in 1 .. m
      <3>5. got[i] = old[i]
          BY <1>22, <2>1
      <3>0. PICK s \in Arranged : \E q \in DOMAIN s : q <= from /\ s[q] = got[i]
          BY <1>23, <2>1, <3>5
      <3>1. PICK q \in DOMAIN s : q <= from /\ s[q] = got[i]
          BY <3>0
      <3>2. s \in Seq(Objs)
          BY ArrangementIs DEF Arranged
      <3>3. q <= from + n
          BY <1>13, <1>15a, <3>1, <3>2
      <3> QED BY <1>22, <1>23, <2>1, <3>1, <3>3
    <2>2. CASE i \notin 1 .. m
      <3>1. i - m \in DOMAIN new /\ got[i] = new[i - m]
          BY <1>20, <1>22, <2>2
      <3>2. PICK q \in DOMAIN L : q > from /\ q <= from + n /\ L[q] = new[i - m]
          BY <1>17, <3>1
      <3> QED BY <1>4, <1>17, <3>1, <3>2
    <2> QED BY <2>1, <2>2
  <1>25. ASSUME NEW s \in Arranged, NEW q \in DOMAIN s, q <= from + n, Single(s[q]), s[q] \in K
         PROVE  s[q] \in ToSet(got)
    <2>1. s \in Seq(Objs) /\ ToSet(s) = Hits(list.kind, Top, list.req)
        BY ArrangementIs DEF Arranged
    <2>2. CASE q <= from
      <3>1. s[q] \in ToSet(old)
          BY <1>1, <1>15a, <1>19, <1>25, <2>2 DEF ListInv, K
      <3> QED BY <1>20, <1>22, <3>1 DEF ToSet
    <2>3. CASE ~(q <= from)
      <3>1. PICK z \in DOMAIN L : L[z] = s[q]
          BY <1>6, <2>1 DEF ToSet
      <3>2. ~(z < q) /\ ~(q < z)
          BY <1>4, <1>12, <1>25, <3>1, RankSame DEF Arranged, Single
      <3>3. z = q
          BY <1>13, <1>15a, <2>1, <3>2
      <3>4. q - from \in 1 .. upto - from /\ from + (q - from) = q
          BY <1>13, <1>15a, <1>25, <2>1, <2>3, <3>3
      <3>5. cut[q - from] = s[q]
          BY <1>15, <3>1, <3>3, <3>4
      <3>6. s[q] \in ToSet(new)
          BY <1>15, <1>16, <1>25, <3>4, <3>5 DEF ToSet
      <3> QED BY <1>20, <1>22, <3>6 DEF ToSet
    <2> QED BY <2>2, <2>3
  <1>26. ASSUME NEW i \in DOMAIN got, NEW j \in DOMAIN got, i < j
         PROVE  ~Before(list.req, got[j], got[i]) /\ (got[i] = got[j] => ~Single(got[i]))
    <2>1. CASE j \in 1 .. m
      <3>1. i \in 1 .. m
          BY <1>22, <1>26, <2>1
      <3> QED BY <1>1, <1>19, <1>20, <1>22, <1>26, <2>1, <3>1 DEF ListInv
    <2>2. CASE i \notin 1 .. m
      <3>1. j \notin 1 .. m
          BY <1>20, <1>22, <1>26, <2>2
      <3>2. i - m \in DOMAIN new /\ j - m \in DOMAIN new /\ i - m < j - m
          BY <1>20, <1>22, <1>26, <2>2, <3>1
      <3> QED BY <1>18, <1>22, <2>2, <3>1, <3>2
    <2>3. CASE i \in 1 .. m /\ j \notin 1 .. m
      <3>6. got[i] = old[i]
          BY <1>22, <2>3
      <3>0. PICK s \in Arranged : \E q \in DOMAIN s : q <= from /\ s[q] = got[i]
          BY <1>23, <2>3, <3>6
      <3>1. PICK q \in DOMAIN s : q <= from /\ s[q] = got[i]
          BY <3>0
      <3>2. PICK z \in DOMAIN L : z > from /\ L[z] = got[j]
          BY <1>17, <1>20, <1>22, <2>3
      <3>3. q \in Nat /\ z \in Nat /\ q < z
        <4>1. s \in Seq(Objs)
            BY ArrangementIs DEF Arranged
        <4> QED BY <1>13, <1>15a, <3>1, <3>2, <4>1
      <3>4. ~Before(list.req, got[j], got[i])
        <4>1. Before(list.req, L[z], s[q]) => z < q
            BY <1>4, <1>12, RankBefore DEF Arranged
        <4> QED BY <3>1, <3>2, <3>3, <4>1
      <3>5. ASSUME got[i] = got[j], Single(got[i]) PROVE FALSE
        <4>1. \A x \in Hits(list.kind, Top, list.req) : SortValue(list.req, x) = SortValue(list.req, L[z]) => x = L[z]
            BY <3>2, <3>5 DEF Single
        <4>2. ~(q < z)
            BY <1>4, <1>12, <3>1, <3>2, <3>5, <4>1, RankSame DEF Arranged
        <4> QED BY <3>3, <4>2
      <3> QED BY <3>4, <3>5
    <2> QED BY <2>1, <2>2, <2>3
  <1>27. ASSUME list'.done PROVE Len(L) <= from + n
    <2>1. k >= GetPageCount(len, n) => k * n >= len
        BY <1>13, <1>15a, PagesHoldAll
    <2>2. k * n = from + n
        BY <1>14
    <2>3. k >= GetPageCount(len, n)
        BY <1>15a, <1>7, <1>27
    <2> QED BY <1>13, <1>15a, <2>1, <2>2, <2>3
  <1>28. ListInv'
    <2>1. \A i \in DOMAIN list'.got : list'.got[i] \in K /\ \E s \in Arranged : \E q \in DOMAIN s : q <= from + n /\ s[q] = list'.got[i]
        BY <1>21, <1>24
    <2>2. \A s \in Arranged : \A q \in DOMAIN s :
             q <= from + n /\ Single(s[q]) /\ s[q] \in K => s[q] \in ToSet(list'.got)
        BY <1>21, <1>25
    <2>3. \A i, j \in DOMAIN list'.got : i < j =>
             /\ ~Before(list.req, list'.got[j], list'.got[i])
             /\ list'.got[i] = list'.got[j] => ~Single(list'.got[i])
        BY <1>21, <1>26
    <2>4. list'.done => \E s \in Arranged : Len(s) <= from + n
        BY <1>4, <1>27
    <2> QED BY <1>8, <1>15a, <1>10, <1>11, <2>1, <2>2, <2>3, <2>4 DEF ListInv
  <1>29. TypeInv'
    <2>1. (k >= p.pages) \in BOOLEAN
        OBVIOUS
    <2>2. PICK g \in Seq(Objs), h \in Nat \ {0}, d \in BOOLEAN :
             list' = [list EXCEPT !.got = g, !.page = h, !.done = d]
      <3>1. list.page + 1 \in Nat \ {0}
          BY <1>3
      <3>2. list.got \o p.objs \in Seq(Objs)
          BY <1>7, <1>21
      <3>3. (list.page >= p.pages) \in BOOLEAN
          OBVIOUS
      <3> QED BY <1>4, <3>1, <3>2, <3>3 DEF p
    <2>3. list' \in Lists
        BY <1>1, <2>2 DEF TypeInv, Lists
    <2> QED BY <1>1, <1>2, <2>3 DEF TypeInv, IsOrder
  <1> QED BY <1>1, <1>28, <1>29 DEF Inv, WalkInv, EmptyInv, RemoveInv

(* One turn of the loop over the children. *)
LEMMA RemoveStep == ASSUME Inv, RemoveBatch PROVE Inv'
  <1>1. TypeInv /\ RemoveInv /\ job = "remove" /\ job' = "remove" /\ ~batch.done
      BY DEF Inv, RemoveBatch
  <1> DEFINE p == Children(Top, batch.page, size)
             one == AtLeastOne(p.objs, batch.one)
             gone(o) == o \in ToSet(p.objs) /\ row[o].may
  <1>2. /\ UNCHANGED <<order, ver, size, list, walk, applied>>
        /\ row' = [o \in Objs |-> IF gone(o) THEN [row[o] EXCEPT !.deleted = TRUE, !.anc = TRUE] ELSE row[o]]
        /\ batch' = [batch EXCEPT !.one = one, !.page = IF one THEN @ ELSE @ + 1,
                                  !.done = ~(p.pages > batch.page /\ batch.one)]
      BY DEF RemoveBatch
  <1>3. row \in [Objs -> Rows] /\ batch \in Batches /\ size \in Nat \ {0} /\ IsOrder(order)
      BY <1>1 DEF TypeInv
  <1>4. PICK n \in Nat \ {0}, k \in Nat \ {0} : n = size /\ k = batch.page
      BY <1>3 DEF Batches
  <1>8. p = Page(Newest("children", Top), NoFilter, k, n)
      BY <1>4 DEF Children
  <1> HIDE DEF p
  <1>5. PICK L : L = Newest("children", Top)
      OBVIOUS
  <1>9. /\ L \in Seq(Objs) /\ ToSet(L) = {o \in Objs : ~row[o].deleted /\ row[o].parent = Top}
        /\ p.pages = GetPageCount(Len(L), n) /\ p.objs \in Seq(Objs)
        /\ k = 1 /\ n >= Len(L) => p.objs = L
      BY <1>3, <1>5, <1>8, NewestPage, NewestHits
  <1>10. one \in BOOLEAN
    <2>1. CASE p.objs = <<>>
        BY <1>3, <2>1 DEF AtLeastOne, Batches
    <2>2. CASE p.objs # <<>>
      <3>1. Last(p.objs) \in Objs
          BY <1>9, <2>2 DEF Last
      <3> QED BY <1>3, <2>2, <3>1 DEF AtLeastOne, Rows
    <2> QED BY <2>1, <2>2
  <1>11. \A o \in Objs : row'[o].may = row[o].may /\ row'[o].parent = row[o].parent
                         /\ (row'[o].deleted <=> row[o].deleted \/ gone(o))
    <2> SUFFICES ASSUME NEW o \in Objs
                 PROVE  row'[o].may = row[o].may /\ row'[o].parent = row[o].parent
                         /\ (row'[o].deleted <=> row[o].deleted \/ gone(o))
        OBVIOUS
    <2>1. row[o] \in Rows
        BY <1>3
    <2>2. row'[o] = IF gone(o) THEN [row[o] EXCEPT !.deleted = TRUE, !.anc = TRUE] ELSE row[o]
        BY <1>2
    <2> HIDE DEF gone
    <2> QED BY <2>1, <2>2 DEF Rows
  <1>12. TypeInv'
    <2>1. row' \in [Objs -> Rows]
      <3>1. \A r \in Rows : [r EXCEPT !.deleted = TRUE, !.anc = TRUE] \in Rows
          BY DEF Rows
      <3> QED BY <1>2, <1>3, <3>1
    <2>2. batch' \in Batches
      <3>1. (~(p.pages > batch.page /\ batch.one)) \in BOOLEAN
          OBVIOUS
      <3>2. (IF one THEN batch.page ELSE batch.page + 1) \in Nat \ {0}
          BY <1>4
      <3> HIDE DEF one
      <3> QED BY <1>2, <1>3, <1>10, <3>1, <3>2 DEF Batches
    <2> QED BY <1>1, <1>2, <2>1, <2>2 DEF TypeInv, IsOrder
  <1>13. ASSUME \A o \in Objs : row'[o].may, ~batch'.lost
         PROVE  /\ batch'.page = 1 /\ batch'.one
                /\ batch'.done => \A o \in Objs : row'[o].deleted
    <2>1. (\A o \in Objs : row[o].may) /\ k = 1 /\ batch.one
      <3>1. batch'.lost = batch.lost
          BY <1>2, <1>3 DEF Batches
      <3> QED BY <1>1, <1>4, <1>11, <1>13, <3>1 DEF RemoveInv
    <2>2. one = TRUE
      <3>1. CASE p.objs = <<>>
          BY <1>3, <2>1, <3>1 DEF AtLeastOne, Batches
      <3>2. CASE p.objs # <<>>
        <4>1. Last(p.objs) \in Objs
            BY <1>9, <3>2 DEF Last
        <4>2. row[Last(p.objs)].may = TRUE
            BY <1>3, <2>1, <4>1 DEF Rows
        <4> QED BY <3>2, <4>2 DEF AtLeastOne
      <3> QED BY <3>1, <3>2
    <2>3. batch'.page = 1 /\ batch'.one /\ batch'.done = ~(p.pages > 1 /\ batch.one)
      <3> HIDE DEF one
      <3> QED BY <1>2, <1>3, <1>4, <2>1, <2>2 DEF Batches
    <2>4. ASSUME batch'.done PROVE \A o \in Objs : row'[o].deleted
      <3>1. ~(p.pages > 1)
          BY <2>1, <2>3, <2>4
      <3>2. 1 * n >= Len(L)
        <4>1. Len(L) \in Nat
            BY <1>9
        <4>2. 1 >= GetPageCount(Len(L), n)
            BY <1>9, <3>1, <4>1, PagesHoldAll
        <4> QED BY <4>1, <4>2, PagesHoldAll
      <3>4. p.objs = L
          BY <1>9, <2>1, <3>2
      <3> QED BY <1>1, <1>3, <1>9, <1>11, <2>1, <3>4 DEF RemoveInv, Rows
    <2> QED BY <2>3, <2>4
  <1>14. RemoveInv'
      BY <1>1, <1>11, <1>13 DEF RemoveInv
  <1> QED BY <1>1, <1>12, <1>14 DEF Inv, ListInv, WalkInv, EmptyInv

(* A page that could not be listed ends the claim, not the types. *)
LEMMA RemoveUnlistedStep == ASSUME Inv, RemoveUnlisted PROVE Inv'
  <1>1. TypeInv /\ RemoveInv /\ job = "remove" /\ job' = "remove"
        /\ UNCHANGED <<order, ver, size, list, walk, applied>>
      BY DEF Inv, RemoveUnlisted
  <1>2. row \in [Objs -> Rows] /\ batch \in Batches
      BY <1>1 DEF TypeInv
  <1>3. PICK S : \E d \in BOOLEAN :
           /\ row' = [o \in Objs |-> IF o \in S /\ row[o].may
                                     THEN [row[o] EXCEPT !.deleted = TRUE, !.anc = TRUE] ELSE row[o]]
           /\ batch' = [batch EXCEPT !.one = FALSE, !.page = @ + 1, !.lost = TRUE, !.done = d]
    <2>1. PICK k, counted :
             /\ row' = [o \in Objs |-> IF o \in ToSet(SubSeq(Children(Top, batch.page, size).objs, 1, k)) /\ row[o].may
                                       THEN [row[o] EXCEPT !.deleted = TRUE, !.anc = TRUE] ELSE row[o]]
             /\ batch' = [batch EXCEPT !.one = FALSE, !.page = @ + 1, !.lost = TRUE,
                                       !.done = ~(counted /\ Children(Top, batch.page, size).pages > batch.page /\ batch.one)]
        BY DEF RemoveUnlisted
    <2>2. (~(counted /\ Children(Top, batch.page, size).pages > batch.page /\ batch.one)) \in BOOLEAN
        OBVIOUS
    <2> QED BY <2>1, <2>2, Zenon
  <1>4. \A r \in Rows : /\ [r EXCEPT !.deleted = TRUE, !.anc = TRUE] \in Rows
                        /\ [r EXCEPT !.deleted = TRUE, !.anc = TRUE].parent = r.parent
      BY DEF Rows
  <1>5. row' \in [Objs -> Rows] /\ \A o \in Objs : row'[o].parent = row[o].parent
    <2>1. row' = [o \in Objs |-> IF o \in S /\ row[o].may
                                 THEN [row[o] EXCEPT !.deleted = TRUE, !.anc = TRUE] ELSE row[o]]
        BY <1>3
    <2>2. \A o \in Objs : row'[o] \in Rows /\ row'[o].parent = row[o].parent
      <3> SUFFICES ASSUME NEW o \in Objs PROVE row'[o] \in Rows /\ row'[o].parent = row[o].parent
          OBVIOUS
      <3>1. row[o] \in Rows
          BY <1>2
      <3>2. CASE row'[o] = [row[o] EXCEPT !.deleted = TRUE, !.anc = TRUE]
          BY <1>4, <3>1, <3>2
      <3>3. CASE row'[o] = row[o]
          BY <3>1, <3>3
      <3> QED BY <2>1, <3>2, <3>3
    <2> QED BY <2>1, <2>2
  <1>6. batch' \in Batches /\ batch'.lost = TRUE
    <2>1. PICK d \in BOOLEAN :
             batch' = [batch EXCEPT !.one = FALSE, !.page = @ + 1, !.lost = TRUE, !.done = d]
        BY <1>3
    <2>2. PICK page \in Nat \ {0} : page = batch.page + 1
        BY <1>2 DEF Batches
    <2>3. batch' = [batch EXCEPT !.one = FALSE, !.page = page, !.lost = TRUE, !.done = d]
        BY <2>1, <2>2
    <2> QED BY <1>2, <2>3 DEF Batches
  <1>7. TypeInv'
      BY <1>1, <1>5, <1>6 DEF TypeInv, IsOrder
  <1>8. RemoveInv'
      BY <1>1, <1>5, <1>6 DEF RemoveInv
  <1> QED BY <1>1, <1>7, <1>8 DEF Inv, ListInv, WalkInv, EmptyInv

(* One batch of the trash. *)
LEMMA EmptyStep == ASSUME Inv, EmptyBatch PROVE Inv'
  <1>1. TypeInv /\ EmptyInv /\ job = "empty" /\ job' = "empty" /\ ~batch.done
      BY DEF Inv, EmptyBatch
  <1>0. PICK listed \in BOOLEAN, committed \in BOOLEAN :
           LET page == IF listed THEN Page(Newest("trash", Top), NoFilter, 1, size).objs ELSE <<>>
               rows == ToSet(page)
               last == BatchPages(Len(page), size) = 0
           IN  /\ row' = IF committed
                         THEN [o \in Objs |-> IF o \in rows THEN [row[o] EXCEPT !.expunged = TRUE] ELSE row[o]]
                         ELSE row
               /\ batch' = [batch EXCEPT !.done = last, !.told = IF last THEN @ ELSE @ \cup rows,
                                         !.lost = last /\ ~(listed /\ committed)]
      BY DEF EmptyBatch
  <1> DEFINE p == IF listed THEN Page(Newest("trash", Top), NoFilter, 1, size).objs ELSE <<>>
             ids == ToSet(p)
             stop == BatchPages(Len(p), size) = 0
             lost == stop /\ ~(listed /\ committed)
  <1>2. /\ UNCHANGED <<order, ver, size, list, walk, applied>>
        /\ row' = IF committed
                  THEN [o \in Objs |-> IF o \in ids THEN [row[o] EXCEPT !.expunged = TRUE] ELSE row[o]]
                  ELSE row
        /\ batch' = [batch EXCEPT !.done = stop, !.told = IF stop THEN @ ELSE @ \cup ids, !.lost = lost]
      BY <1>0 DEF EmptyBatch
  <1>3. /\ row \in [Objs -> Rows] /\ batch \in Batches /\ size \in Nat \ {0} /\ IsOrder(order)
        /\ \A o \in Objs : ~row[o].anc
        /\ ~batch.failed /\ \A o \in Objs : row[o].expunged => o \in batch.told
      BY <1>1 DEF TypeInv, EmptyInv
  <1>4. PICK n \in Nat \ {0} : n = size
      BY <1>3
  <1>5. PICK L : L = Newest("trash", Top)
      OBVIOUS
  <1>8. /\ L \in Seq(Objs) /\ ToSet(L) = {o \in Objs : row[o].deleted /\ ~row[o].expunged}
        /\ p \in Seq(Objs)
        /\ listed => /\ n < Len(L) => Len(p) = n
                     /\ n >= Len(L) => p = L
    <2>1. PICK one \in Nat \ {0} : one = 1
        OBVIOUS
    <2>2. PICK q : q = Page(Newest("trash", Top), NoFilter, one, n)
        OBVIOUS
    <2>3. /\ L \in Seq(Objs) /\ ToSet(L) = Hits("trash", Top, NoFilter)
          /\ q.objs \in Seq(Objs)
          /\ n < Len(L) => Len(q.objs) = n
          /\ n >= Len(L) => q.objs = L
        BY <1>3, <1>5, <2>1, <2>2, NewestPage
    <2>4. IF listed THEN p = q.objs ELSE p = <<>>
        BY <1>4, <2>1, <2>2
    <2>5. ToSet(L) = {o \in Objs : row[o].deleted /\ ~row[o].expunged}
        BY <1>3, <2>3, NewestHits
    <2>6. <<>> \in Seq(Objs)
        OBVIOUS
    <2> HIDE DEF p
    <2> QED BY <2>3, <2>4, <2>5, <2>6
  <1> HIDE DEF p
  <1>9. ids \subseteq Objs
      BY <1>8 DEF ToSet
  <1>10. ASSUME stop PROVE Len(p) <= 1
    <2>1. Len(p) \in Nat
        BY <1>8
    <2>2. CASE Len(p) = 0
        BY <2>2
    <2>3. CASE Len(p) # 0
      <3>1. GetPageCount(Len(p) - 1, n) = 0 /\ Len(p) - 1 \in Nat
          BY <1>4, <1>10, <2>1, <2>3 DEF BatchPages
      <3>2. 0 * n >= Len(p) - 1
          BY <3>1, PagesHoldAll
      <3> QED BY <2>1, <3>2
    <2> QED BY <2>2, <2>3
  <1>11. stop \in BOOLEAN /\ lost \in BOOLEAN /\ (IF stop THEN batch.told ELSE batch.told \cup ids) \in SUBSET Objs
      BY <1>3, <1>9 DEF Batches
  <1>12. /\ batch' \in Batches /\ batch'.failed = batch.failed /\ batch'.done = stop /\ batch'.lost = lost
         /\ batch'.told = IF stop THEN batch.told ELSE batch.told \cup ids
    <2> HIDE DEF stop, ids, lost
    <2> QED BY <1>2, <1>3, <1>11 DEF Batches
  <1>13. \A o \in Objs : /\ row'[o].deleted = row[o].deleted /\ row'[o].anc = row[o].anc
                         /\ row'[o].expunged <=> row[o].expunged \/ (committed /\ o \in ids)
    <2> SUFFICES ASSUME NEW o \in Objs
                 PROVE  /\ row'[o].deleted = row[o].deleted /\ row'[o].anc = row[o].anc
                        /\ row'[o].expunged <=> row[o].expunged \/ (committed /\ o \in ids)
        OBVIOUS
    <2>1. row[o] \in Rows
        BY <1>3
    <2>2. row'[o] = IF committed /\ o \in ids THEN [row[o] EXCEPT !.expunged = TRUE] ELSE row[o]
        BY <1>2
    <2> HIDE DEF ids
    <2> QED BY <2>1, <2>2 DEF Rows
  <1>14. TypeInv'
    <2>1. \A r \in Rows : [r EXCEPT !.expunged = TRUE] \in Rows
        BY DEF Rows
    <2>2. row' \in [Objs -> Rows]
        BY <1>2, <1>3, <2>1
    <2> QED BY <1>1, <1>2, <1>12, <2>2 DEF TypeInv, IsOrder
  <1>15. CASE ~stop
      BY <1>1, <1>3, <1>12, <1>13, <1>14, <1>15 DEF Inv, EmptyInv, ListInv, WalkInv, RemoveInv
  <1>16. CASE stop
    <2>1. ASSUME size > 1, ~lost PROVE p = L /\ committed
      <3>1. Len(L) \in Nat /\ listed /\ committed
          BY <1>8, <1>16, <2>1
      <3> QED BY <1>4, <1>8, <1>10, <1>16, <2>1, <3>1
    <2>2. \E x : \A o \in ids : o = x
      <3>1. CASE p = <<>>
          BY <3>1 DEF ToSet
      <3>2. CASE p # <<>>
        <4>1. DOMAIN p = {1}
          <5>1. Len(p) \in Nat \ {0}
              BY <1>8, <3>2, EmptySeq
          <5>2. Len(p) = 1
              BY <1>10, <1>16, <5>1
          <5>3. DOMAIN p = 1 .. 1
              BY <1>8, <5>2
          <5> QED BY <5>3
        <4> QED BY <4>1 DEF ToSet
      <3> QED BY <3>1, <3>2
    <2>3. PICK x : \A o \in ids : o = x
        BY <2>2
    <2>4. size > 1 /\ ~batch'.lost => \A o \in Objs : row'[o].deleted => row'[o].expunged
        BY <1>8, <1>12, <1>13, <2>1
    <2>5. \A o \in Objs : row'[o].expunged => o \in batch'.told \/ o = x
        BY <1>3, <1>12, <1>13, <1>16, <2>3
    <2>6. \E y : \A o \in Objs : row'[o].expunged => o \in batch'.told \/ o = y
        BY <2>5
    <2>7. \A o \in Objs : ~row'[o].anc
        BY <1>3, <1>13
    <2>8. batch'.done /\ (size' > 1 => size > 1)
        BY <1>2, <1>12, <1>16
    <2>9. EmptyInv'
        BY <2>4, <2>6, <2>7, <2>8 DEF EmptyInv
    <2> QED BY <1>1, <1>14, <2>9 DEF Inv, ListInv, WalkInv, RemoveInv
  <1> QED BY <1>15, <1>16

LEMMA EmptyFailsStep == ASSUME Inv, EmptyFails PROVE Inv'
  <1>1. /\ TypeInv /\ EmptyInv /\ job = "empty" /\ job' = "empty"
        /\ UNCHANGED <<row, order, ver, size, list, walk, applied>>
        /\ batch' = [batch EXCEPT !.done = TRUE, !.failed = TRUE, !.told = {}]
      BY DEF Inv, EmptyFails
  <1>2. batch \in Batches
      BY <1>1 DEF TypeInv
  <1>3. batch' \in Batches /\ batch'.done /\ batch'.failed
      BY <1>1, <1>2 DEF Batches
  <1>4. TypeInv'
      BY <1>1, <1>3 DEF TypeInv, IsOrder
  <1>5. EmptyInv'
      BY <1>1, <1>3 DEF EmptyInv
  <1> QED BY <1>1, <1>4, <1>5 DEF Inv, ListInv, WalkInv, RemoveInv

LEMMA OtherTrashesStep == ASSUME Inv, NEW o \in Objs, OtherTrashes(o) PROVE Inv'
  <1>1. /\ TypeInv /\ EmptyInv /\ job = "empty" /\ job' = "empty" /\ ~batch.done
        /\ UNCHANGED <<order, ver, size, list, walk, applied, batch>>
        /\ row' = [row EXCEPT ![o].deleted = TRUE]
      BY DEF Inv, OtherTrashes
  <1>2. row \in [Objs -> Rows]
      BY <1>1 DEF TypeInv
  <1>3. row' \in [Objs -> Rows]
    <2>1. \A r \in Rows : [r EXCEPT !.deleted = TRUE] \in Rows
        BY DEF Rows
    <2> QED BY <1>1, <1>2, <2>1
  <1>4. \A x \in Objs : row'[x].anc = row[x].anc /\ row'[x].expunged = row[x].expunged
    <2> SUFFICES ASSUME NEW x \in Objs
                 PROVE  row'[x].anc = row[x].anc /\ row'[x].expunged = row[x].expunged
        OBVIOUS
    <2>1. row'[x] = IF x = o THEN [row[o] EXCEPT !.deleted = TRUE] ELSE row[x]
        BY <1>1, <1>2
    <2>2. row[x] \in Rows
        BY <1>2
    <2> QED BY <2>1, <2>2 DEF Rows
  <1>5. TypeInv'
      BY <1>1, <1>3 DEF TypeInv, IsOrder
  <1>6. EmptyInv'
      BY <1>1, <1>4 DEF EmptyInv
  <1> QED BY <1>1, <1>5, <1>6 DEF Inv, ListInv, WalkInv, RemoveInv
----------------------------------------------------------------------------
(* A row that comes to the front brings no other row forward. *)
LEMMA FrontAhead ==
    ASSUME IsOrder(order), NEW o \in Objs, NEW C, NEW m \in Nat, NEW x, x # o,
           \A i \in 1 .. Len(Only(order, C)) : i <= m => Only(order, C)[i] # x
    PROVE  \A i \in 1 .. Len(Only(InFront(o), C)) : i <= m => Only(InFront(o), C)[i] # x
  <1>1. PICK L : L = Only(order, C)
      OBVIOUS
  <1>2. PICK M : M = Only(InFront(o), C)
      OBVIOUS
  <1>3. /\ Len(L) \in Nat /\ Len(M) = Len(L)
        /\ \A i \in 1 .. Len(L) : M[i] = o \/ M[i] = L[i] \/ (i - 1 \in 1 .. Len(L) /\ M[i] = L[i - 1])
      BY <1>1, <1>2, FrontShifts
  <1>4. ASSUME NEW i \in 1 .. Len(M), i <= m PROVE M[i] # x
    <2>1. i \in 1 .. Len(L) /\ i - 1 <= m
        BY <1>3, <1>4
    <2> QED BY <1>1, <1>3, <1>4, <2>1
  <1> QED BY <1>2, <1>4

(* What the walk of one folder leaves alone. *)
LEMMA AheadStays ==
    ASSUME NEW f \in Objs \cup {Top}, WalkAhead(f), UNCHANGED <<row, order, size, others, applied>>,
           walk'[f] = walk[f]
    PROVE  WalkAhead(f)'
  BY DEF WalkAhead, Kids, Listed, Pending, Touched

(* Another row comes to the front and is touched. *)
LEMMA AheadShifts ==
    ASSUME TypeInv, NEW f \in Objs \cup {Top}, NEW o \in Objs, WalkAhead(f),
           UNCHANGED <<row, size>>, order' = InFront(o),
           \A x \in Objs : Touched(x)' <=> Touched(x) \/ x = o,
           walk[f].st # "off" =>
               /\ walk'[f].page = walk[f].page /\ walk'[f].more = walk[f].more
               /\ (walk'[f].st = walk[f].st \/ (walk[f].st = "apply" /\ walk'[f].st = "sub"))
               /\ walk[f].st = "list" => walk'[f].todo = walk[f].todo
               /\ \A i \in DOMAIN walk[f].todo :
                     \/ walk[f].todo[i].id = o
                     \/ \E j \in DOMAIN walk'[f].todo : walk'[f].todo[j].id = walk[f].todo[i].id,
           walk[f].st = "off" => walk'[f].st = "off"
    PROVE  WalkAhead(f)'
  <1> SUFFICES ASSUME walk'[f].st # "off" PROVE WalkAhead(f)'
      BY DEF WalkAhead
  <1>1. walk[f].st # "off" /\ IsOrder(order)
      BY DEF TypeInv
  <1>2. Kids(f)' = Kids(f)
      BY DEF Kids
  <1>3. Listed(f) = Only(order, Kids(f)) /\ Listed(f)' = Only(InFront(o), Kids(f))
      BY <1>2 DEF Listed
  <1>4. Len(Listed(f)) \in Nat /\ Len(Listed(f)') = Len(Listed(f))
      BY <1>1, <1>3, FrontShifts
  <1>5. PICK m \in Nat : m = (walk[f].page - 1) * size /\ m = (walk'[f].page - 1) * size'
    <2>1. walk[f].page \in Nat /\ walk[f].page > 0 /\ size \in Nat
        BY <1>1 DEF TypeInv, Walks
    <2>2. (walk[f].page - 1) * size \in Nat
        BY <2>1
    <2> QED BY <1>1, <2>2
  <1>6. ASSUME NEW x \in Kids(f), Pending(x)'
        PROVE  \/ \E i \in DOMAIN walk'[f].todo : walk'[f].todo[i].id = x
               \/ \A i \in 1 .. Len(Listed(f)') : i <= m => Listed(f)'[i] # x
    <2>1. x \in Objs /\ Pending(x) /\ x # o
        BY <1>6 DEF Kids, Pending
    <2>2. CASE \E i \in DOMAIN walk[f].todo : walk[f].todo[i].id = x
        BY <1>1, <2>1, <2>2
    <2>3. CASE \A i \in 1 .. Len(Listed(f)) : i <= m => Listed(f)[i] # x
      <3>1. \A i \in 1 .. Len(Only(order, Kids(f))) : i <= m => Only(order, Kids(f))[i] # x
          BY <1>3, <2>3
      <3>2. \A i \in 1 .. Len(Only(InFront(o), Kids(f))) : i <= m => Only(InFront(o), Kids(f))[i] # x
          BY <1>1, <2>1, <3>1, FrontAhead
      <3> QED BY <1>3, <3>2
    <2> QED BY <1>1, <1>5, <2>1, <2>2, <2>3 DEF WalkAhead
  <1>7. \A x \in Kids(f) : Pending(x)' => Pending(x)
      BY DEF Kids, Pending
  <1>8. /\ walk'[f].st = "list" => walk'[f].todo = <<>>
        /\ walk'[f].st = "done" => \A x \in Kids(f) : ~Pending(x)'
      BY <1>1, <1>7 DEF WalkAhead
  <1>9. walk'[f].st \in {"apply", "sub"} /\ ~walk'[f].more => m >= Len(Listed(f)')
      BY <1>1, <1>4, <1>5 DEF WalkAhead
  <1> QED BY <1>2, <1>5, <1>6, <1>8, <1>9 DEF WalkAhead

(* The walk changes nothing else that matters to the other loops. *)
LEMMA OtherJobs ==
    ASSUME Inv, TypeInv', WalkInv', job' = job, UNCHANGED <<list, batch>>,
           job = "walk" \/ UNCHANGED <<row, order, size>>
    PROVE  Inv'
  <1>1. CASE job = "walk"
      BY <1>1 DEF Inv, ListInv, EmptyInv, RemoveInv
  <1>2. CASE UNCHANGED <<row, order, size>>
    <2>1. ListInv'
      <3>1. Arranged' = Arranged /\ Passed' = Passed /\ (\A o : Single(o)' <=> Single(o))
          BY <1>2 DEF Arranged, Arrangements, Passed, Single, Before, SortValue, Hits
      <3>2. \A a, b : Before(list.req, a, b)' <=> Before(list.req, a, b)
          BY <1>2 DEF Before, SortValue
      <3>3. Kept(list.req)' = Kept(list.req) /\ list' = list /\ (job' = "list" => job = "list")
          BY <1>2 DEF Kept
      <3> QED BY <3>1, <3>2, <3>3 DEF Inv, ListInv
    <2> QED BY <1>2, <2>1 DEF Inv, EmptyInv, RemoveInv
  <1> QED BY <1>1, <1>2

LEMMA WalkListStep == ASSUME Inv, NEW f \in Objs \cup {Top}, WalkList(f) PROVE Inv'
  <1> DEFINE p == Children(f, walk[f].page, size)
             todo == [i \in DOMAIN p.objs |-> [id |-> p.objs[i], ver |-> ver[p.objs[i]]]]
             more == walk[f].page + 1 <= p.pages
  <1>1. /\ TypeInv /\ WalkInv /\ job = "walk" /\ walk[f].st = "list"
        /\ UNCHANGED <<job, row, order, ver, size, list, mode, applied, others, removed, batch>>
        /\ walk' = [walk EXCEPT ![f].st = "apply", ![f].todo = todo, ![f].page = @ + 1, ![f].more = more]
      BY DEF Inv, WalkList
  <1>2. /\ IsOrder(order) /\ ver \in [Objs -> Nat] /\ walk \in [Objs \cup {Top} -> Walks]
        /\ row \in [Objs -> Rows]
      BY <1>1 DEF TypeInv
  <1>3. PICK n \in Nat \ {0}, k \in Nat \ {0} : n = size /\ k = walk[f].page
    <2>1. size \in Nat \ {0} /\ walk[f].page > 0 /\ walk[f] \in Walks
        BY <1>1 DEF TypeInv
    <2>2. walk[f].page \in Nat \ {0}
        BY <2>1 DEF Walks
    <2> QED BY <2>1, <2>2
  <1>4. PICK L : L = Newest("children", f)
      OBVIOUS
  <1>5. p = Page(Newest("children", f), NoFilter, k, n)
      BY <1>3 DEF Children
  <1> HIDE DEF p
  <1>6. /\ L \in Seq(Objs) /\ p.pages = GetPageCount(Len(L), n) /\ p.objs \in Seq(Objs)
        /\ ToSet(L) = Hits("children", f, NoFilter) /\ ToSet(p.objs) \subseteq Hits("children", f, NoFilter)
        /\ \A i \in 1 .. Len(L) : i <= k * n => i <= (k - 1) * n \/ L[i] \in ToSet(p.objs)
      BY <1>2, <1>4, <1>5, NewestPage
  <1>7. todo \in Seq(Todos) /\ DOMAIN todo = DOMAIN p.objs
        /\ \A i \in DOMAIN todo : todo[i].id = p.objs[i] /\ todo[i].ver = ver[p.objs[i]]
    <2>1. \A i \in DOMAIN p.objs : [id |-> p.objs[i], ver |-> ver[p.objs[i]]] \in Todos
        BY <1>2, <1>6 DEF Todos
    <2>2. DOMAIN p.objs = 1 .. Len(p.objs) /\ Len(p.objs) \in Nat
        BY <1>6
    <2> QED BY <2>1, <2>2
  <1> HIDE DEF todo
  <1>8. more \in BOOLEAN /\ k + 1 \in Nat
      BY <1>3
  <1>9. /\ walk' \in [Objs \cup {Top} -> Walks]
        /\ \A g \in Objs \cup {Top} : g # f => walk'[g] = walk[g]
        /\ walk'[f].st = "apply" /\ walk'[f].todo = todo /\ walk'[f].page = k + 1 /\ walk'[f].more = more
    <2>1. [walk[f] EXCEPT !.st = "apply", !.todo = todo, !.page = @ + 1, !.more = more] \in Walks
      <3> HIDE DEF more
      <3>1. walk[f] \in Walks
          BY <1>2
      <3> QED BY <1>3, <1>7, <1>8, <3>1 DEF Walks
    <2>2. walk'[f] = [walk[f] EXCEPT !.st = "apply", !.todo = todo, !.page = @ + 1, !.more = more]
        BY <1>1, <1>2
    <2>3. walk' = [walk EXCEPT ![f] = [walk[f] EXCEPT !.st = "apply", !.todo = todo, !.page = @ + 1, !.more = more]]
        BY <1>1, <1>2
    <2>4. walk[f] \in Walks
        BY <1>2
    <2> HIDE DEF more
    <2>5. walk'[f].st = "apply" /\ walk'[f].todo = todo /\ walk'[f].page = k + 1 /\ walk'[f].more = more
        BY <1>3, <2>2, <2>4 DEF Walks
    <2> QED BY <1>2, <2>1, <2>3, <2>5
  <1>10. TypeInv'
    <2>1. \A g \in Objs \cup {Top} : walk'[g].st # "off" => walk'[g].page > 0
        BY <1>1, <1>3, <1>9 DEF TypeInv
    <2> QED BY <1>1, <1>9, <2>1 DEF TypeInv, IsOrder
  <1>11. ASSUME removed = {} PROVE WalkTokens' /\ \A g \in Objs \cup {Top} : WalkAhead(g)'
    <2>1. WalkTokens /\ \A g \in Objs \cup {Top} : WalkAhead(g)
        BY <1>1, <1>11 DEF WalkInv
    <2>2. Hits("children", f, NoFilter) = Kids(f)
      <3>1. \A o \in Objs : ~row[o].deleted
          BY <2>1 DEF WalkTokens
      <3>2. Hits("children", f, NoFilter) = {o \in Objs : ~row[o].deleted /\ row[o].parent = f}
          BY NewestHits
      <3> QED BY <3>1, <3>2 DEF Kids
    <2>3. L = Listed(f)
        BY <1>4, <2>2 DEF Newest, Listed
    <2>4. \A i \in DOMAIN p.objs : p.objs[i] \in Kids(f)
        BY <1>6, <2>2 DEF ToSet
    <2>5. \A i \in DOMAIN todo : ~Touched(todo[i].id) => todo[i].ver = 0
        BY <1>7, <2>1, <2>4 DEF Kids, WalkTokens
    <2>6. WalkTokens'
      <3>1. \A g \in Objs \cup {Top} : walk'[g].st = "off" <=> walk[g].st = "off"
          BY <1>1, <1>9
      <3>2. \A g \in Objs \cup {Top}, i \in Nat :
               i \in DOMAIN walk'[g].todo /\ ~Touched(walk'[g].todo[i].id) => walk'[g].todo[i].ver = 0
          BY <1>9, <2>1, <2>5 DEF WalkTokens
      <3>3. walk'[Top].st # "off" /\ \A o \in applied : walk'[o].st # "off"
          BY <1>1, <2>1, <3>1 DEF WalkTokens, TypeInv
      <3>4. UNCHANGED <<row, ver, others, applied>>
          BY <1>1
      <3> QED BY <2>1, <3>1, <3>2, <3>3, <3>4 DEF WalkTokens, Touched
    <2>7. WalkAhead(f)'
      <3>0. Listed(f)' = Listed(f) /\ Kids(f)' = Kids(f) /\ \A o \in Objs : Pending(o)' <=> Pending(o)
          BY <1>1 DEF Listed, Kids, Pending, Touched
      <3>1. (walk'[f].page - 1) * size' = k * n
          BY <1>1, <1>3, <1>9
      <3>2. ASSUME NEW o \in Kids(f), Pending(o)
            PROVE  \/ \E i \in DOMAIN todo : todo[i].id = o
                   \/ \A i \in 1 .. Len(L) : i <= k * n => L[i] # o
        <4>1. \A i \in 1 .. Len(L) : i <= (k - 1) * n => L[i] # o
          <5>1. walk[f].todo = <<>>
              BY <1>1, <2>1 DEF WalkAhead
          <5>2. ~ \E i \in DOMAIN walk[f].todo : walk[f].todo[i].id = o
              BY <5>1
          <5> QED BY <1>1, <1>3, <2>1, <2>3, <3>2, <5>2 DEF WalkAhead
        <4>2. o \in ToSet(p.objs) => \E i \in DOMAIN todo : todo[i].id = o
            BY <1>7 DEF ToSet
        <4> QED BY <1>6, <4>1, <4>2
      <3>3. ~more => k * n >= Len(L)
        <4>1. Len(L) \in Nat
            BY <1>6
        <4>2. ~more => k >= GetPageCount(Len(L), n)
          <5>1. GetPageCount(Len(L), n) \in Nat
              BY <4>1, PagesHoldAll
          <5> QED BY <1>3, <1>6, <5>1
        <4> QED BY <4>1, <4>2, PagesHoldAll
      <3> HIDE DEF more
      <3> QED BY <1>9, <2>3, <3>0, <3>1, <3>2, <3>3 DEF WalkAhead, Kids
    <2>8. \A g \in Objs \cup {Top} : g # f => WalkAhead(g)'
        BY <1>1, <1>9, <2>1, AheadStays
    <2> QED BY <2>6, <2>7, <2>8
  <1>12. WalkTree'
    <2>1. WalkTree
        BY <1>1 DEF WalkInv
    <2>2. \A i \in DOMAIN todo : row[todo[i].id].parent = f
      <3>1. Hits("children", f, NoFilter) = {o \in Objs : ~row[o].deleted /\ row[o].parent = f}
          BY NewestHits
      <3> QED BY <1>6, <1>7, <3>1 DEF ToSet
    <2>3. \A g \in Objs \cup {Top}, i \in Nat :
             i \in DOMAIN walk'[g].todo => row[walk'[g].todo[i].id].parent = g
        BY <1>9, <2>1, <2>2 DEF WalkTree
    <2>4. \A o \in Objs : row[o].parent = o => walk'[o].st = "off"
        BY <1>1, <1>9, <2>1 DEF WalkTree
    <2>5. row' = row
        BY <1>1
    <2> QED BY <2>3, <2>4, <2>5 DEF WalkTree
  <1>13. WalkInv'
      BY <1>1, <1>11, <1>12 DEF WalkInv
  <1> QED BY <1>1, <1>10, <1>13, OtherJobs

LEMMA WalkReturnStep == ASSUME Inv, NEW f \in Objs \cup {Top}, WalkReturn(f) PROVE Inv'
  <1>1. /\ TypeInv /\ WalkInv /\ walk[f].st = "sub"
        /\ UNCHANGED <<job, row, order, ver, size, list, mode, applied, others, removed, batch>>
        /\ walk' = [walk EXCEPT ![f].st = "apply", ![f].sub = Top]
      BY DEF Inv, WalkReturn
  <1>2. walk \in [Objs \cup {Top} -> Walks] /\ walk[f] \in Walks
      BY <1>1 DEF TypeInv
  <1>3. /\ walk' \in [Objs \cup {Top} -> Walks]
        /\ \A g \in Objs \cup {Top} : g # f => walk'[g] = walk[g]
        /\ walk'[f].st = "apply" /\ walk'[f].todo = walk[f].todo
        /\ walk'[f].page = walk[f].page /\ walk'[f].more = walk[f].more
      BY <1>1, <1>2 DEF Walks
  <1>4. TypeInv'
    <2>1. \A g \in Objs \cup {Top} : walk'[g].st # "off" => walk'[g].page > 0
        BY <1>1, <1>3 DEF TypeInv
    <2> QED BY <1>1, <1>3, <2>1 DEF TypeInv, IsOrder
  <1>5. ASSUME job = "walk", removed = {} PROVE WalkTokens' /\ \A g \in Objs \cup {Top} : WalkAhead(g)'
    <2>1. WalkTokens /\ \A g \in Objs \cup {Top} : WalkAhead(g)
        BY <1>1, <1>5 DEF WalkInv
    <2>2. \A g \in Objs \cup {Top} : walk'[g].todo = walk[g].todo /\ (walk'[g].st = "off" <=> walk[g].st = "off")
        BY <1>1, <1>3
    <2>3. WalkTokens'
      <3>1. walk'[Top].st # "off" /\ \A o \in applied : walk'[o].st # "off"
          BY <1>1, <2>1, <2>2 DEF WalkTokens, TypeInv
      <3>2. UNCHANGED <<row, ver, others, applied>>
          BY <1>1
      <3> QED BY <2>1, <2>2, <3>1, <3>2 DEF WalkTokens, Touched
    <2>4. WalkAhead(f)'
        BY <1>1, <1>3, <2>1 DEF WalkAhead, Kids, Listed, Pending, Touched
    <2>5. \A g \in Objs \cup {Top} : g # f => WalkAhead(g)'
        BY <1>1, <1>3, <2>1, AheadStays
    <2> QED BY <2>3, <2>4, <2>5
  <1>6. job = "walk" => WalkTree'
    <2>1. \A g \in Objs \cup {Top} : walk'[g].todo = walk[g].todo /\ (walk'[g].st = "off" <=> walk[g].st = "off")
        BY <1>1, <1>3
    <2>2. row' = row /\ (job = "walk" => WalkTree)
        BY <1>1 DEF WalkInv
    <2> QED BY <2>1, <2>2 DEF WalkTree
  <1>7. WalkInv'
      BY <1>1, <1>5, <1>6 DEF WalkInv
  <1> QED BY <1>1, <1>4, <1>7, OtherJobs

LEMMA WalkNextStep == ASSUME Inv, NEW f \in Objs \cup {Top}, WalkNext(f) PROVE Inv'
  <1>1. /\ TypeInv /\ WalkInv /\ job = "walk" /\ walk[f].st = "apply" /\ walk[f].todo = <<>>
        /\ UNCHANGED <<job, row, order, ver, size, list, mode, applied, others, removed, batch>>
        /\ walk' = [walk EXCEPT ![f].st = IF walk[f].more THEN "list" ELSE "done"]
      BY DEF Inv, WalkNext
  <1>2. walk \in [Objs \cup {Top} -> Walks] /\ walk[f] \in Walks /\ IsOrder(order)
      BY <1>1 DEF TypeInv
  <1>3. /\ walk' \in [Objs \cup {Top} -> Walks]
        /\ \A g \in Objs \cup {Top} : g # f => walk'[g] = walk[g]
        /\ walk'[f].st = IF walk[f].more THEN "list" ELSE "done"
        /\ walk'[f].todo = walk[f].todo /\ walk'[f].page = walk[f].page /\ walk'[f].more = walk[f].more
      BY <1>1, <1>2 DEF Walks
  <1>4. TypeInv'
    <2>1. \A g \in Objs \cup {Top} : walk'[g].st # "off" => walk'[g].page > 0
        BY <1>1, <1>3 DEF TypeInv
    <2> QED BY <1>1, <1>3, <2>1 DEF TypeInv, IsOrder
  <1>5. ASSUME removed = {} PROVE WalkTokens' /\ \A g \in Objs \cup {Top} : WalkAhead(g)'
    <2>1. WalkTokens /\ \A g \in Objs \cup {Top} : WalkAhead(g)
        BY <1>1, <1>5 DEF WalkInv
    <2>2. \A g \in Objs \cup {Top} : walk'[g].todo = walk[g].todo /\ (walk'[g].st = "off" <=> walk[g].st = "off")
        BY <1>1, <1>3
    <2>3. WalkTokens'
      <3>1. walk'[Top].st # "off" /\ \A o \in applied : walk'[o].st # "off"
          BY <1>1, <2>1, <2>2 DEF WalkTokens, TypeInv
      <3>2. UNCHANGED <<row, ver, others, applied>>
          BY <1>1
      <3> QED BY <2>1, <2>2, <3>1, <3>2 DEF WalkTokens, Touched
    <2>4. ASSUME ~walk[f].more, NEW o \in Kids(f) PROVE ~Pending(o)
      <3>1. PICK m : m = (walk[f].page - 1) * size
          OBVIOUS
      <3>2. m >= Len(Listed(f)) /\ m \in Int
        <4>1. walk[f].page \in Nat /\ size \in Nat
            BY <1>1, <1>2 DEF TypeInv, Walks
        <4> QED BY <1>1, <2>1, <2>4, <3>1, <4>1 DEF WalkAhead
      <3>3. Listed(f) \in Seq(Objs) /\ ToSet(Listed(f)) = ToSet(order) \cap Kids(f)
          BY <1>2, OnlySeq DEF Listed, IsOrder
      <3>4. PICK i \in 1 .. Len(Listed(f)) : Listed(f)[i] = o
          BY <1>2, <3>3, SMTT(30) DEF ToSet, IsOrder, Kids
      <3>5. i <= m
          BY <3>2, <3>3, <3>4
      <3>6. ~ \E j \in DOMAIN walk[f].todo : walk[f].todo[j].id = o
          BY <1>1
      <3> QED BY <1>1, <2>1, <3>1, <3>4, <3>5, <3>6 DEF WalkAhead
    <2>5. WalkAhead(f)'
        BY <1>1, <1>3, <2>1, <2>4 DEF WalkAhead, Kids, Listed, Pending, Touched
    <2>6. \A g \in Objs \cup {Top} : g # f => WalkAhead(g)'
        BY <1>1, <1>3, <2>1, AheadStays
    <2> QED BY <2>3, <2>5, <2>6
  <1>6. job = "walk" => WalkTree'
    <2>1. \A g \in Objs \cup {Top} : walk'[g].todo = walk[g].todo /\ (walk'[g].st = "off" <=> walk[g].st = "off")
        BY <1>1, <1>3
    <2>2. row' = row /\ (job = "walk" => WalkTree)
        BY <1>1 DEF WalkInv
    <2> QED BY <2>1, <2>2 DEF WalkTree
  <1>7. WalkInv'
      BY <1>1, <1>5, <1>6 DEF WalkInv
  <1> QED BY <1>1, <1>4, <1>7, OtherJobs
(* The rest of a page. *)
LEMMA TodoTail ==
    ASSUME NEW s \in Seq(Todos), s # <<>>
    PROVE  /\ Head(s) \in Todos /\ Head(s) = s[1] /\ 1 \in DOMAIN s /\ Tail(s) \in Seq(Todos)
           /\ \A i \in DOMAIN Tail(s) : i + 1 \in DOMAIN s /\ Tail(s)[i] = s[i + 1]
           /\ \A i \in DOMAIN s : i = 1 \/ (i - 1 \in DOMAIN Tail(s) /\ Tail(s)[i - 1] = s[i])
  <1>1. Len(s) \in Nat \ {0} /\ DOMAIN s = 1 .. Len(s)
      BY EmptySeq
  <1>2. /\ Head(s) \in Todos /\ Tail(s) \in Seq(Todos) /\ Len(Tail(s)) = Len(s) - 1
        /\ \A i \in 1 .. Len(Tail(s)) : Tail(s)[i] = s[i + 1]
      BY HeadTailProperties
  <1>3. DOMAIN Tail(s) = 1 .. Len(s) - 1
      BY <1>2
  <1>4. Head(s) = s[1] /\ 1 \in DOMAIN s
      BY <1>1
  <1>5. \A i \in 1 .. Len(s) - 1 : i + 1 \in 1 .. Len(s) /\ Tail(s)[i] = s[i + 1]
      BY <1>1, <1>2
  <1>6. \A i \in 1 .. Len(s) : i = 1 \/ (i - 1 \in 1 .. Len(s) - 1 /\ (i - 1) + 1 = i)
      BY <1>1
  <1> QED BY <1>1, <1>2, <1>3, <1>4, <1>5, <1>6

LEMMA WalkApplyStep == ASSUME Inv, NEW f \in Objs \cup {Top}, WalkApply(f) PROVE Inv'
  <1> DEFINE c == Head(walk[f].todo)
             w == [walk EXCEPT ![f].todo = Tail(@)]
             x == c.id
             st == IF mode = "share" THEN "sub" ELSE "apply"
             sub == IF mode = "share" THEN x ELSE Top
  <1>1. /\ TypeInv /\ WalkInv /\ job = "walk" /\ walk[f].st = "apply" /\ walk[f].todo # <<>>
        /\ UNCHANGED <<job, row, size, list, mode, others, removed, batch>>
      BY DEF Inv, WalkApply
  <1>2. /\ walk \in [Objs \cup {Top} -> Walks] /\ walk[f] \in Walks /\ IsOrder(order)
        /\ ver \in [Objs -> Nat] /\ applied \subseteq Objs
      BY <1>1 DEF TypeInv
  <1>3. walk[f].todo \in Seq(Todos)
      BY <1>2 DEF Walks
  <1>4. /\ c \in Todos /\ c = walk[f].todo[1] /\ 1 \in DOMAIN walk[f].todo /\ Tail(walk[f].todo) \in Seq(Todos)
        /\ \A i \in DOMAIN Tail(walk[f].todo) :
              i + 1 \in DOMAIN walk[f].todo /\ Tail(walk[f].todo)[i] = walk[f].todo[i + 1]
        /\ \A i \in DOMAIN walk[f].todo :
              i = 1 \/ (i - 1 \in DOMAIN Tail(walk[f].todo) /\ Tail(walk[f].todo)[i - 1] = walk[f].todo[i])
      BY <1>1, <1>3, TodoTail
  <1>5. x \in Objs
      BY <1>4 DEF Todos
  <1>6. PICK rest \in Seq(Todos) : rest = Tail(walk[f].todo)
      BY <1>4
  <1>7. /\ w \in [Objs \cup {Top} -> Walks]
        /\ \A g \in Objs \cup {Top} : g # f => w[g] = walk[g]
        /\ w[f].todo = rest /\ w[f].st = "apply" /\ w[f].page = walk[f].page /\ w[f].more = walk[f].more
        /\ w[f].page > 0
      BY <1>1, <1>2, <1>6 DEF Walks, TypeInv
  <1>8. Begin \in Walks /\ Begin.page = 1 /\ Begin.st = "list" /\ Begin.todo = <<>>
    <2>1. <<>> \in Seq(Todos)
        BY EmptySeq
    <2> QED BY <2>1 DEF NoWalk, Begin, Walks
  <1>13. WalkTree /\ row[x].parent = f /\ x # f
    <2>1. WalkTree /\ 1 \in Nat
        BY <1>1 DEF WalkInv
    <2>2. row[x].parent = f
        BY <1>4, <2>1 DEF WalkTree
    <2>3. x # f
        BY <1>1, <1>5, <2>1, <2>2 DEF WalkTree
    <2> QED BY <2>1, <2>2, <2>3
  <1>14. /\ \A i \in DOMAIN rest : i + 1 \in DOMAIN walk[f].todo /\ rest[i] = walk[f].todo[i + 1]
         /\ \A i \in DOMAIN walk[f].todo :
               walk[f].todo[i].id = x \/ \E j \in DOMAIN rest : rest[j].id = walk[f].todo[i].id
         /\ DOMAIN walk[f].todo \subseteq Nat
    <2>1. DOMAIN walk[f].todo \subseteq Nat
        BY <1>3
    <2>2. \A i \in DOMAIN rest : i + 1 \in DOMAIN walk[f].todo /\ rest[i] = walk[f].todo[i + 1]
        BY <1>4, <1>6
    <2>3. \A i \in DOMAIN walk[f].todo : i = 1 \/ (i - 1 \in DOMAIN rest /\ rest[i - 1] = walk[f].todo[i])
        BY <1>4, <1>6
    <2>4. walk[f].todo[1].id = x
        BY <1>4
    <2> HIDE DEF x, c
    <2> QED BY <2>1, <2>2, <2>3, <2>4
  <1>9. ASSUME removed = {}
        PROVE  /\ WalkTokens /\ \A g \in Objs \cup {Top} : WalkAhead(g)
               /\ ~Touched(x) => c.ver = 0
    <2>1. WalkTokens /\ (\A g \in Objs \cup {Top} : WalkAhead(g)) /\ 1 \in Nat
        BY <1>1, <1>9 DEF WalkInv
    <2>2. ~Touched(x) => c.ver = 0
        BY <1>4, <2>1 DEF WalkTokens
    <2> QED BY <2>1, <2>2
  <1>10. ASSUME removed = {} PROVE \A i \in DOMAIN rest : ~Touched(rest[i].id) => rest[i].ver = 0
    <2>1. \A i \in DOMAIN walk[f].todo : ~Touched(walk[f].todo[i].id) => walk[f].todo[i].ver = 0
        BY <1>9, <1>10, <1>14 DEF WalkTokens
    <2> HIDE DEF x, c
    <2> QED BY <1>14, <2>1
  <1>15. ASSUME NEW g \in Objs \cup {Top}, walk'[g].todo \in {walk[g].todo, <<>>} \/ (g = f /\ walk'[g].todo = rest)
         PROVE  \A i \in Nat : i \in DOMAIN walk'[g].todo => row[walk'[g].todo[i].id].parent = g
    <2>1. \A i \in DOMAIN rest : row[rest[i].id].parent = f
      <3>1. \A i \in DOMAIN walk[f].todo : row[walk[f].todo[i].id].parent = f
          BY <1>13, <1>14 DEF WalkTree
      <3> HIDE DEF x, c
      <3> QED BY <1>14, <3>1
    <2>2. CASE walk'[g].todo = walk[g].todo
        BY <1>13, <2>2 DEF WalkTree
    <2>3. CASE walk'[g].todo = <<>>
        BY <2>3
    <2>4. CASE g = f /\ walk'[g].todo = rest
        BY <2>1, <2>4
    <2> QED BY <1>15, <2>2, <2>3, <2>4
  <1> HIDE DEF w
  <1>11. CASE ~Takes(c)
    <2>1. walk' = w /\ UNCHANGED <<applied, order, ver>>
        BY <1>11 DEF WalkApply, w
    <2>2. TypeInv'
      <3>1. \A g \in Objs \cup {Top} : walk'[g].st # "off" => walk'[g].page > 0
          BY <1>1, <1>7, <2>1 DEF TypeInv
      <3> QED BY <1>1, <1>7, <2>1, <3>1 DEF TypeInv, IsOrder
    <2>3. ASSUME removed = {} PROVE WalkTokens' /\ \A g \in Objs \cup {Top} : WalkAhead(g)'
      <3>1. \A g \in Objs \cup {Top} : walk'[g].st = walk[g].st
          BY <1>1, <1>7, <2>1
      <3>2. \A g \in Objs \cup {Top}, i \in Nat :
               i \in DOMAIN walk'[g].todo /\ ~Touched(walk'[g].todo[i].id) => walk'[g].todo[i].ver = 0
          BY <1>7, <1>9, <1>10, <2>1, <2>3 DEF WalkTokens
      <3>3. WalkTokens'
        <4>1. walk'[Top].st # "off" /\ \A o \in applied : walk'[o].st # "off"
            BY <1>2, <1>9, <2>3, <3>1 DEF WalkTokens
        <4>2. UNCHANGED <<row, ver, others, applied>>
            BY <1>1, <2>1
        <4> QED BY <1>9, <2>3, <3>1, <3>2, <4>1, <4>2 DEF WalkTokens, Touched
      <3>4. ~Pending(x)
        <4>1. (ver[x] = 0 /\ ~row[x].deleted) \/ Touched(x)
            BY <1>5, <1>9, <2>3 DEF WalkTokens
        <4> QED BY <1>9, <1>11, <2>3, <4>1 DEF Takes, Pending
      <3>5. WalkAhead(f)'
        <4>1. WalkAhead(f)
            BY <1>9, <2>3
        <4>2. \A o \in Kids(f) : Pending(o) /\ (\E i \in DOMAIN walk[f].todo : walk[f].todo[i].id = o)
                                   => \E i \in DOMAIN rest : rest[i].id = o
            BY <1>14, <3>4
        <4>3. UNCHANGED <<Kids(f), Listed(f), size>> /\ \A o : Pending(o)' <=> Pending(o)
            BY <1>1, <2>1 DEF Kids, Listed, Pending, Touched
        <4>4. walk'[f].todo = rest /\ walk'[f].st = "apply" /\ walk'[f].page = walk[f].page /\ walk'[f].more = walk[f].more
            BY <1>7, <2>1
        <4> QED BY <1>1, <4>1, <4>2, <4>3, <4>4 DEF WalkAhead
      <3>6. \A g \in Objs \cup {Top} : g # f => WalkAhead(g)'
          BY <1>1, <1>7, <1>9, <2>1, <2>3, AheadStays
      <3> QED BY <3>3, <3>5, <3>6
    <2>4. WalkTree'
      <3>1. \A g \in Objs \cup {Top} : walk'[g].st = walk[g].st
          BY <1>1, <1>7, <2>1
      <3>2. \A g \in Objs \cup {Top} : walk'[g].todo = walk[g].todo \/ (g = f /\ walk'[g].todo = rest)
          BY <1>7, <2>1
      <3>3. \A g \in Objs \cup {Top}, i \in Nat :
               i \in DOMAIN walk'[g].todo => row[walk'[g].todo[i].id].parent = g
          BY <1>15, <3>2
      <3>4. row' = row
          BY <1>1
      <3> QED BY <1>13, <3>1, <3>3, <3>4 DEF WalkTree
    <2>5. WalkInv'
        BY <1>1, <2>3, <2>4 DEF WalkInv
    <2> QED BY <1>1, <2>1, <2>2, <2>5, OtherJobs
  <1>12. CASE Takes(c)
    <2>1. /\ applied' = applied \cup {x} /\ order' = InFront(x) /\ ver' = [ver EXCEPT ![x] = @ + 1]
          /\ walk' = [w EXCEPT ![x] = Begin, ![f].st = IF mode = "share" THEN "sub" ELSE @,
                               ![f].sub = IF mode = "share" THEN x ELSE Top]
        BY <1>12 DEF WalkApply, w
    <2>2. IsOrder(order') /\ ver' \in [Objs -> Nat] /\ applied' \subseteq Objs
      <3>1. IsOrder(order')
          BY <1>2, <1>5, <2>1, FrontOrder
      <3>2. ver' \in [Objs -> Nat] /\ applied' \subseteq Objs
          BY <1>2, <1>5, <2>1
      <3> QED BY <3>1, <3>2
    <2>3. /\ walk' \in [Objs \cup {Top} -> Walks]
          /\ \A g \in Objs \cup {Top} : g # f /\ g # x => walk'[g] = walk[g]
          /\ walk'[x] = Begin /\ walk'[f].todo = rest /\ walk'[f].st = st
          /\ walk'[f].page = walk[f].page /\ walk'[f].more = walk[f].more
      <3> DEFINE b == [w[f] EXCEPT !.st = IF mode = "share" THEN "sub" ELSE @, !.sub = sub]
      <3>1. x \in Objs \cup {Top} /\ x # f /\ sub \in Objs \cup {Top} /\ st \in {"apply", "sub"} /\ w[f] \in Walks
          BY <1>5, <1>7, <1>13
      <3>2. walk' = [w EXCEPT ![x] = Begin, ![f].st = IF mode = "share" THEN "sub" ELSE @, ![f].sub = sub]
          BY <2>1
      <3> HIDE DEF x, sub, c
      <3>3. walk' = [g \in Objs \cup {Top} |-> IF g = f THEN b ELSE IF g = x THEN Begin ELSE w[g]]
          BY <1>7, <3>1, <3>2
      <3>4. b \in Walks /\ b.todo = rest /\ b.st = st /\ b.page = walk[f].page /\ b.more = walk[f].more
          BY <1>7, <3>1 DEF Walks
      <3> HIDE DEF b
      <3> QED BY <1>7, <1>8, <3>1, <3>3, <3>4
    <2>4. TypeInv'
      <3>1. \A g \in Objs \cup {Top} : walk'[g].st # "off" => walk'[g].page > 0
          BY <1>1, <1>7, <1>8, <2>3, SMTT(30) DEF TypeInv
      <3> QED BY <1>1, <2>2, <2>3, <3>1 DEF TypeInv, IsOrder
    <2>5. ASSUME removed = {} PROVE WalkTokens' /\ \A g \in Objs \cup {Top} : WalkAhead(g)'
      <3>0. x # f /\ Top # x /\ st # "off" /\ st # "list"
          BY <1>5, <1>13, ListingsAssumption
      <3>1. \A o \in Objs : Touched(o)' <=> Touched(o) \/ o = x
          BY <1>1, <2>1 DEF Touched
      <3>2. \A o \in Objs : ~row[o].deleted /\ (~Touched(o)' => ver'[o] = 0)
          BY <1>2, <1>9, <2>1, <2>5, <3>1 DEF WalkTokens
      <3>3. \A g \in Objs \cup {Top} : walk[g].st # "off" => walk'[g].st # "off"
          BY <1>8, <2>3, <3>0
      <3>4. walk'[Top].st # "off" /\ \A o \in applied' : walk'[o].st # "off"
          BY <1>2, <1>8, <1>9, <2>1, <2>3, <2>5, <3>0, <3>3 DEF WalkTokens
      <3>6. ASSUME NEW g \in Objs \cup {Top}, NEW i \in Nat, i \in DOMAIN walk'[g].todo
            PROVE  walk'[g].todo[i].id \notin others' /\ walk'[g].todo[i].id \notin applied'
                      => walk'[g].todo[i].ver = 0
        <4>0. \A o : o \notin others' /\ o \notin applied' => ~Touched(o)
            BY <1>1, <2>1 DEF Touched
        <4> HIDE DEF x, c
        <4>1. CASE g = x
          <5>1. walk'[g].todo = <<>>
              BY <1>8, <2>3, <3>0, <4>1
          <5> QED BY <3>6, <5>1
        <4>2. CASE g = f
          <5>1. walk'[g].todo = rest
              BY <2>3, <3>0, <4>2
          <5>2. ~Touched(rest[i].id) => rest[i].ver = 0
              BY <1>10, <2>5, <3>6, <5>1
          <5> QED BY <4>0, <4>2, <5>1, <5>2
        <4>3. CASE g # x /\ g # f
          <5>1. walk'[g].todo = walk[g].todo
              BY <2>3, <4>3
          <5>2. ~Touched(walk[g].todo[i].id) => walk[g].todo[i].ver = 0
              BY <1>9, <2>5, <3>6, <5>1 DEF WalkTokens
          <5> QED BY <4>0, <5>1, <5>2
        <4> QED BY <4>1, <4>2, <4>3
      <3>7. WalkTokens'
        <4>1. row' = row
            BY <1>1
        <4> QED BY <3>2, <3>4, <3>6, <4>1 DEF WalkTokens, Touched
      <3>8. ASSUME NEW g \in Objs \cup {Top} PROVE WalkAhead(g)'
        <4>1. CASE g = x
          <5>1. walk'[g] = Begin
              BY <2>3, <3>0, <4>1
          <5>2. (walk'[g].page - 1) * size' = 0
              BY <1>1, <1>8, <5>1 DEF TypeInv
          <5>3. \A i \in 1 .. Len(Listed(g)') : ~(i <= 0)
              OBVIOUS
          <5> QED BY <1>8, <5>1, <5>2, <5>3 DEF WalkAhead
        <4>2. CASE g # x
          <5>1. /\ walk'[g].page = walk[g].page /\ walk'[g].more = walk[g].more
                /\ (walk'[g].st = walk[g].st \/ (walk[g].st = "apply" /\ walk'[g].st = "sub"))
                /\ walk[g].st = "list" => walk'[g].todo = walk[g].todo
                /\ \A i \in DOMAIN walk[g].todo :
                      \/ walk[g].todo[i].id = x
                      \/ \E j \in DOMAIN walk'[g].todo : walk'[g].todo[j].id = walk[g].todo[i].id
            <6> HIDE DEF x, c
            <6>1. CASE g = f
              <7>1. /\ walk'[g].todo = rest /\ walk'[g].st = st /\ walk[g].st = "apply"
                    /\ walk'[g].page = walk[g].page /\ walk'[g].more = walk[g].more
                  BY <1>1, <2>3, <3>0, <6>1
              <7>2. \A i \in DOMAIN walk[g].todo : walk[g].todo[i].id = x \/ \E j \in DOMAIN rest : rest[j].id = walk[g].todo[i].id
                  BY <1>14, <6>1
              <7>3. \A i \in DOMAIN walk[g].todo :
                       \/ walk[g].todo[i].id = x
                       \/ \E j \in DOMAIN walk'[g].todo : walk'[g].todo[j].id = walk[g].todo[i].id
                  BY <7>1, <7>2
              <7>4. walk'[g].st = walk[g].st \/ (walk[g].st = "apply" /\ walk'[g].st = "sub")
                  BY <7>1
              <7>5. ~(walk[g].st = "list")
                  BY <7>1
              <7> QED BY <7>1, <7>3, <7>4, <7>5
            <6>2. CASE g # f
              <7>1. walk'[g] = walk[g]
                  BY <2>3, <4>2, <6>2
              <7>2. \A i \in DOMAIN walk[g].todo :
                       \E j \in DOMAIN walk'[g].todo : walk'[g].todo[j].id = walk[g].todo[i].id
                  BY <7>1
              <7>3. /\ walk'[g].page = walk[g].page /\ walk'[g].more = walk[g].more
                    /\ walk'[g].st = walk[g].st /\ walk'[g].todo = walk[g].todo
                  BY <7>1
              <7> QED BY <7>2, <7>3
            <6> QED BY <6>1, <6>2
          <5>2. walk[g].st = "off" => walk'[g].st = "off"
              BY <1>1, <2>3, <4>2
          <5> QED BY <1>1, <1>5, <1>9, <2>1, <2>5, <3>1, <5>1, <5>2, AheadShifts
        <4> QED BY <4>1, <4>2
      <3> QED BY <3>7, <3>8
    <2>6. WalkTree'
      <3>1. \A o \in Objs : row[o].parent = o => walk'[o].st = "off"
          BY <1>1, <1>13, <2>3 DEF WalkTree
      <3>2. \A g \in Objs \cup {Top} : walk'[g].todo = walk[g].todo \/ walk'[g].todo = <<>> \/ (g = f /\ walk'[g].todo = rest)
          BY <1>8, <2>3
      <3>3. \A g \in Objs \cup {Top}, i \in Nat :
               i \in DOMAIN walk'[g].todo => row[walk'[g].todo[i].id].parent = g
          BY <1>15, <3>2
      <3>4. row' = row
          BY <1>1
      <3> QED BY <3>1, <3>3, <3>4 DEF WalkTree
    <2>7. WalkInv'
        BY <1>1, <2>5, <2>6 DEF WalkInv
    <2> QED BY <1>1, <2>4, <2>7, OtherJobs
  <1> QED BY <1>11, <1>12
(* Another user's update brings its row to the front of the pages and       *)
(* touches it.                                                              *)
LEMMA OtherUpdatesStep == ASSUME Inv, NEW o \in Objs, OtherUpdates(o) PROVE Inv'
  <1>1. /\ TypeInv /\ WalkInv /\ job = "walk" /\ order' = InFront(o) /\ ver' = [ver EXCEPT ![o] = @ + 1]
        /\ others' = others \cup {o}
        /\ UNCHANGED <<job, row, size, list, walk, mode, applied, removed, batch>>
      BY DEF Inv, OtherUpdates
  <1>2. IsOrder(order') /\ ver \in [Objs -> Nat] /\ ver' \in [Objs -> Nat] /\ applied \subseteq Objs
      BY <1>1, FrontOrder DEF TypeInv
  <1>3. TypeInv'
      BY <1>1, <1>2 DEF TypeInv, IsOrder
  <1>4. \A x \in Objs : Touched(x)' <=> Touched(x) \/ x = o
      BY <1>1 DEF Touched
  <1>5. ASSUME removed = {} PROVE WalkTokens' /\ \A f \in Objs \cup {Top} : WalkAhead(f)'
    <2>1. WalkTokens /\ \A f \in Objs \cup {Top} : WalkAhead(f)
        BY <1>1, <1>5 DEF WalkInv
    <2>2. \A x \in Objs : ~row[x].deleted /\ (~Touched(x)' => ver'[x] = 0)
        BY <1>1, <1>2, <1>4, <2>1 DEF WalkTokens
    <2>3. \A x : x \notin others' /\ x \notin applied' => ~Touched(x)
        BY <1>1 DEF Touched
    <2>4. \A f \in Objs \cup {Top}, i \in Nat :
             i \in DOMAIN walk[f].todo /\ walk[f].todo[i].id \notin others' /\ walk[f].todo[i].id \notin applied'
                => walk[f].todo[i].ver = 0
        BY <2>1, <2>3 DEF WalkTokens
    <2>5. walk[Top].st # "off" /\ \A x \in applied : walk[x].st # "off"
        BY <2>1 DEF WalkTokens
    <2>6. WalkTokens'
        BY <1>1, <2>2, <2>4, <2>5 DEF WalkTokens, Touched
    <2>7. ASSUME NEW f \in Objs \cup {Top} PROVE WalkAhead(f)'
      <3>1. WalkAhead(f) /\ walk'[f] = walk[f]
          BY <1>1, <2>1
      <3> QED BY <1>1, <1>4, <3>1, AheadShifts
    <2> QED BY <2>6, <2>7
  <1>6. WalkTree'
      BY <1>1 DEF WalkInv, WalkTree
  <1>7. WalkInv'
      BY <1>1, <1>5, <1>6 DEF WalkInv
  <1> QED BY <1>1, <1>3, <1>7, OtherJobs

(* A row another user puts in the trash: from then on nothing is said of    *)
(* what the walk reaches.                                                   *)
LEMMA OtherRemovesStep == ASSUME Inv, NEW o \in Objs, OtherRemoves(o) PROVE Inv'
  <1>1. /\ TypeInv /\ WalkInv /\ job = "walk" /\ ver' = [ver EXCEPT ![o] = @ + 1]
        /\ removed' = removed \cup {o} /\ row' = [row EXCEPT ![o].deleted = TRUE]
        /\ UNCHANGED <<job, order, size, list, walk, mode, applied, others, batch>>
      BY DEF Inv, OtherRemoves
  <1>2. row \in [Objs -> Rows] /\ ver \in [Objs -> Nat] /\ ver' \in [Objs -> Nat]
      BY <1>1 DEF TypeInv
  <1>3. row' \in [Objs -> Rows]
    <2>1. \A r \in Rows : [r EXCEPT !.deleted = TRUE] \in Rows
        BY DEF Rows
    <2> QED BY <1>1, <1>2, <2>1
  <1>4. \A x \in Objs : row'[x].parent = row[x].parent
    <2> SUFFICES ASSUME NEW x \in Objs PROVE row'[x].parent = row[x].parent
        OBVIOUS
    <2>1. row'[x] = IF x = o THEN [row[o] EXCEPT !.deleted = TRUE] ELSE row[x]
        BY <1>1, <1>2
    <2>2. row[x] \in Rows
        BY <1>2
    <2> QED BY <2>1, <2>2 DEF Rows
  <1>5. TypeInv'
      BY <1>1, <1>2, <1>3 DEF TypeInv, IsOrder
  <1>6. ASSUME NEW f \in Objs \cup {Top}, NEW i \in Nat, i \in DOMAIN walk[f].todo
        PROVE  row'[walk[f].todo[i].id].parent = f
    <2>1. walk[f].todo \in Seq(Todos) /\ row[walk[f].todo[i].id].parent = f
        BY <1>1, <1>6 DEF TypeInv, Walks, WalkInv, WalkTree
    <2>2. walk[f].todo[i] \in Todos
        BY <1>6, <2>1
    <2>3. walk[f].todo[i].id \in Objs
        BY <2>2 DEF Todos
    <2> QED BY <1>4, <2>1, <2>3
  <1>7. \A x \in Objs : row'[x].parent = x => walk[x].st = "off"
      BY <1>1, <1>4 DEF WalkInv, WalkTree
  <1>8. WalkTree'
      BY <1>1, <1>6, <1>7 DEF WalkTree
  <1>9. removed' # {}
      BY <1>1
  <1>10. WalkInv'
      BY <1>8, <1>9 DEF WalkInv
  <1> QED BY <1>1, <1>5, <1>10, OtherJobs

LEMMA Stutters == ASSUME Inv, UNCHANGED vars PROVE Inv'
  <1>1. /\ UNCHANGED <<job, row, order, ver, size, list, walk>>
        /\ UNCHANGED <<mode, applied, others, removed, batch>>
      BY DEF vars
  <1>2. TypeInv'
      BY <1>1 DEF Inv, TypeInv, IsOrder
  <1>3. WalkTree => WalkTree'
      BY <1>1 DEF WalkTree
  <1>4. WalkTokens => WalkTokens'
      BY <1>1 DEF WalkTokens, Touched
  <1>5. \A f \in Objs \cup {Top} : WalkAhead(f) => WalkAhead(f)'
      BY <1>1, AheadStays
  <1>6. WalkInv'
      BY <1>1, <1>3, <1>4, <1>5 DEF Inv, WalkInv
  <1> QED BY <1>1, <1>2, <1>6, OtherJobs

LEMMA NextStep == ASSUME Inv, [Next]_vars PROVE Inv'
  BY Stutters, ListStep, EmptyStep, RemoveStep, WalkListStep, WalkApplyStep, WalkReturnStep, WalkNextStep,
     EmptyFailsStep, RemoveUnlistedStep, OtherUpdatesStep, OtherRemovesStep, OtherTrashesStep DEF Next, Server, Walk

LEMMA Invariant == Spec => []Inv
  BY InitInv, NextStep, PTL DEF Spec
----------------------------------------------------------------------------
(* A filter: the SQL and the filter on properties together are what the     *)
(* request asks for.                                                        *)
LEMMA FiltersAsk ==
    ASSUME NEW req, NEW r
    PROVE  BuildFilter(req, r) /\ PostProcess(req, r) <=> Asked(req, r)
  <1> DEFINE F == ToSet(req.filters)
             N(f) == Compare(f.cond, r.name, f.value)
             P(f) == Compare(f.cond, r.prop, f.value)
             K(f) == KnownField(f)
             known == {f \in F : K(f)}
             holds == {f \in known : N(f)}
  <1>1. BuildFilter(req, r) <=> (known = {} \/ (IF req.match = "and" THEN holds = known ELSE holds # {}))
      BY DEF BuildFilter
  <1>2. PostProcess(req, r) <=>
           \/ req.match # "and"
           \/ \A f \in F : K(f) \/ IF r.prop # 0 THEN P(f) ELSE f.cond = "notequals"
      BY DEF PostProcess
  <1>3. Asked(req, r) <=>
           IF req.match = "and"
           THEN \A f \in F : IF K(f) THEN N(f) ELSE IF r.prop = 0 THEN f.cond = "notequals" ELSE P(f)
           ELSE \A f \in F : K(f) => \E g \in F : K(g) /\ (IF K(g) THEN N(g) ELSE IF r.prop = 0 THEN g.cond = "notequals" ELSE P(g))
      BY DEF Asked
  <1> HIDE DEF F, N, P, K
  <1>4. CASE req.match = "and"
    <2>1. BuildFilter(req, r) <=> \A f \in F : K(f) => N(f)
        BY <1>1, <1>4
    <2> QED BY <1>2, <1>3, <1>4, <2>1
  <1>5. CASE req.match # "and"
    <2>1. BuildFilter(req, r) <=> ((\A f \in F : ~K(f)) \/ \E f \in F : K(f) /\ N(f))
        BY <1>1, <1>5
    <2>2. Asked(req, r) <=> \A f \in F : K(f) => \E g \in F : K(g) /\ N(g)
        BY <1>3, <1>5
    <2> QED BY <1>2, <1>5, <2>1, <2>2
  <1> QED BY <1>4, <1>5

LEMMA PagesAreExact == ASSUME Inv PROVE PagesExact
  <1> SUFFICES ASSUME job = "list", list.done PROVE PagesExact
      BY DEF PagesExact
  <1> DEFINE H == Hits(list.kind, Top, list.req)
             K == Kept(list.req)
             asked == {o \in Objs : Where(list.kind, Top, row[o]) /\ Asked(list.req, row[o])}
  <1>1. H \cap K = asked
      BY FiltersAsk DEF Hits, Kept
  <1>2. list.got \in Seq(Objs)
      BY DEF Inv, TypeInv, Lists
  <1>3. ASSUME NEW i \in DOMAIN list.got PROVE list.got[i] \in asked
    <2>1. list.got[i] \in K /\ \E s \in Arranged : \E q \in DOMAIN s : s[q] = list.got[i]
        BY DEF Inv, ListInv
    <2>2. PICK s \in Arranged : \E q \in DOMAIN s : s[q] = list.got[i]
        BY <2>1
    <2>3. ToSet(s) = H
        BY ArrangementIs DEF Arranged
    <2>4. list.got[i] \in H
        BY <2>2, <2>3 DEF ToSet
    <2> QED BY <1>1, <2>1, <2>4
  <1>4. ASSUME NEW o \in asked, Single(o)
        PROVE  \E i \in DOMAIN list.got : list.got[i] = o /\ \A j \in DOMAIN list.got : list.got[j] = o => j = i
    <2>1. PICK s \in Arranged : Len(s) <= Passed
        BY DEF Inv, ListInv
    <2>2. s \in Seq(Objs) /\ ToSet(s) = H
        BY ArrangementIs DEF Arranged
    <2>3. PICK q \in DOMAIN s : s[q] = o
        BY <1>1, <2>2 DEF ToSet
    <2>4. q <= Passed
      <3>1. Passed \in Int
          BY DEF Inv, TypeInv, Lists, Passed
      <3> QED BY <2>1, <2>2, <2>3, <3>1
    <2>5. o \in ToSet(list.got)
        BY <1>1, <1>4, <2>3, <2>4 DEF Inv, ListInv
    <2>6. PICK i \in DOMAIN list.got : list.got[i] = o
        BY <2>5 DEF ToSet
    <2>7. ASSUME NEW j \in DOMAIN list.got, list.got[j] = o PROVE j = i
      <3>1. ~(i < j) /\ ~(j < i)
          BY <1>4, <2>6, <2>7 DEF Inv, ListInv
      <3> QED BY <1>2, <3>1
    <2> QED BY <2>6, <2>7
  <1>5. \A i, j \in DOMAIN list.got : i < j => ~Before(list.req, list.got[j], list.got[i])
      BY DEF Inv, ListInv
  <1>6. ToSet(list.got) \subseteq asked
      BY <1>3 DEF ToSet
  <1> HIDE DEF asked
  <1> QED BY <1>4, <1>5, <1>6 DEF PagesExact, Single, asked

LEMMA WalkDoesReach == ASSUME Inv PROVE WalkReaches
  <1> SUFFICES ASSUME WalkOver, removed = {}, NEW o \in Objs, row[o].may, o \notin others,
                      row[o].parent \in applied \cup {Top}
               PROVE  o \in applied
      BY DEF WalkReaches
  <1> DEFINE f == row[o].parent
  <1>1. f \in Objs \cup {Top} /\ job = "walk"
      BY DEF Inv, TypeInv, WalkOver
  <1>2. WalkTokens /\ WalkAhead(f)
      BY <1>1 DEF Inv, WalkInv
  <1>3. walk[f].st # "off"
      BY <1>2 DEF WalkTokens
  <1>4. walk[f].st = "done"
      BY <1>1, <1>3 DEF WalkOver
  <1>5. o \in Kids(f)
      BY DEF Kids
  <1> QED BY <1>2, <1>3, <1>4, <1>5 DEF WalkAhead, Pending, Touched

LEMMA TrashIsEmptied == ASSUME Inv PROVE TrashEmptied
  <1> SUFFICES ASSUME job = "empty", batch.done, ~batch.failed
               PROVE  /\ Cardinality({o \in Objs : row[o].expunged} \ batch.told) <= 1
                      /\ size > 1 /\ ~batch.lost => \A o \in Objs : row[o].deleted => row[o].expunged
      BY DEF TrashEmptied
  <1> DEFINE S == {o \in Objs : row[o].expunged} \ batch.told
  <1>1. size > 1 /\ ~batch.lost => \A o \in Objs : row[o].deleted => row[o].expunged
      BY DEF Inv, EmptyInv
  <1>2. PICK x : \A o \in Objs : row[o].expunged => o \in batch.told \/ o = x
      BY DEF Inv, EmptyInv
  <1>3. S \subseteq {x}
      BY <1>2
  <1> HIDE DEF S
  <1>4. IsFiniteSet({x}) /\ Cardinality({x}) = 1
      BY FS_Singleton
  <1>5. Cardinality(S) <= Cardinality({x})
      BY <1>3, <1>4, FS_Subset
  <1>6. Cardinality(S) <= 1
      BY <1>4, <1>5
  <1> QED BY <1>1, <1>6 DEF S

(* For every set of rows, every listing, every filter and sort order, and   *)
(* every page size asked for, the pages a client goes through hold nothing  *)
(* but what it asked for, in order, and every row that no other hit ties    *)
(* with exactly once, however the database arranges the ties of each page.  *)
THEOREM PagesCorrect == Spec => []PagesExact
  BY Invariant, PagesAreExact, PTL

(* For any number of objects, any tree of folders, any page size and any    *)
(* updates of other users, a recursive share or change of owner reaches     *)
(* every row below the folders it reached that it may change and nobody     *)
(* else touched.                                                            *)
THEOREM WalkCorrect == Spec => []WalkReaches
  BY Invariant, WalkDoesReach, PTL

(* For any trash, a successful expungeDeleted misses at most one object in  *)
(* its answer, and with any page size above one leaves the trash empty when *)
(* its last batch could be listed and committed, whatever became of the     *)
(* batches before.                                                          *)
THEOREM EmptyCorrect == Spec => []TrashEmptied
  BY Invariant, TrashIsEmptied, PTL

(* For any number of children and any page size, DeleteObject leaves no     *)
(* child behind when the user may delete them all and every page of them    *)
(* could be listed.                                                         *)
THEOREM RemoveCorrect == Spec => []ChildrenGone
  <1>1. Inv => ChildrenGone
      BY DEF Inv, RemoveInv, ChildrenGone
  <1> QED BY <1>1, Invariant, PTL
=============================================================================
