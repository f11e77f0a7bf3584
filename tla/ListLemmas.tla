------------------------------ MODULE ListLemmas ------------------------------
(* Lemmas on lists that several proofs need: what flattening a list of lists *)
(* gives when one is added, and what adding to a list without repetitions,   *)
(* as those of a channel's subscribers and of BUFFER_POOL, and removing from  *)
(* one gives.                                                                *)
EXTENDS Naturals, SequencesExt, SequenceTheorems, FiniteSetTheorems, TLAPS

-----------------------------------------------------------------------------
(* Induction *)

\* A set that has 0, and with a number its successor, has all numbers: otherwise the
\* numbers below the one it lacks would be a finite set that + 1 maps into itself, one to
\* one but not onto.
LEMMA InductiveSet ==
    ASSUME NEW D, 0 \in D, \A k \in Nat : k \in D => k + 1 \in D
    PROVE  Nat \subseteq D
<1> SUFFICES ASSUME NEW n \in Nat, n \notin D PROVE FALSE
    OBVIOUS
<1> DEFINE low == {k \in 0..n : k \in D}
           up == [k \in low |-> k + 1]
<1>1. IsFiniteSet(low)
  <2>1. IsFiniteSet(0..n)
      BY FS_Interval
  <2> QED
      BY <2>1, FS_Subset
<1>2. up \in Injection(low, low)
    BY DEF Injection, IsInjective
<1>3. up \in Surjection(low, low)
    BY <1>1, <1>2, FS_Injection
<1>4. \E k \in low : up[k] = 0
  <2>1. 0 \in low
      OBVIOUS
  <2> QED
      BY <1>3, <2>1, Zenon DEF Surjection
<1> QED
    BY <1>4

-----------------------------------------------------------------------------
(* Concatenation *)

\* These laws, and those below on Mapped and FlattenSeq, are operators: a proof takes the
\* instance that it needs, and expands it in a step of its own.
Associates(a, b, c) == (a \o b) \o c = a \o (b \o c)

\* What moves from the head of the last of three lists to the tail of the second.
MovesUp(d, u, x, y) == (d \o (u \o x)) \o y = (d \o u) \o (x \o y)

\* What moves from the head of the second of three lists to the tail of the first.
MovesDown(d, x, t, m) == (d \o x) \o (t \o m) = d \o ((x \o t) \o m)

\* They hold of all lists over a set.
LEMMA Concatenation ==
    ASSUME NEW B
    PROVE  /\ \A a, b, c \in Seq(B) : Associates(a, b, c)
           /\ \A d, u, x, y \in Seq(B) : MovesUp(d, u, x, y) /\ MovesDown(d, u, x, y)
<1> DEFINE Lists == Seq(B)
           cat(a, b) == a \o b
<1>1. \A a, b, c \in Lists : cat(cat(a, b), c) = cat(a, cat(b, c))
  <2>1. \A a, b, c \in Seq(B) : (a \o b) \o c = a \o (b \o c)
      BY ONLY ConcatAssociative
  <2> QED
      BY <2>1, SMT
<1>2. \A a, b \in Lists : cat(a, b) \in Lists
    OBVIOUS
<1> HIDE DEF Lists, cat
<1>3. ASSUME NEW d \in Lists, NEW u \in Lists, NEW x \in Lists, NEW y \in Lists
      PROVE  MovesUp(d, u, x, y)
  <2>1. cat(cat(d, cat(u, x)), y) = cat(cat(d, u), cat(x, y))
      BY ONLY <1>1, <1>2, <1>3
  <2> QED
      BY ONLY <2>1 DEF cat, MovesUp
<1>4. ASSUME NEW d \in Lists, NEW x \in Lists, NEW t \in Lists, NEW m \in Lists
      PROVE  MovesDown(d, x, t, m)
  <2>1. cat(cat(d, x), cat(t, m)) = cat(d, cat(cat(x, t), m))
      BY ONLY <1>1, <1>2, <1>4
  <2> QED
      BY ONLY <2>1 DEF cat, MovesDown
<1>5. ASSUME NEW a \in Lists, NEW b \in Lists, NEW c \in Lists
      PROVE  Associates(a, b, c)
  <2>1. cat(cat(a, b), c) = cat(a, cat(b, c))
      BY ONLY <1>1, <1>5
  <2> QED
      BY ONLY <2>1 DEF cat, Associates
<1> QED
    BY <1>3, <1>4, <1>5, Zenon DEF Lists

\* What Append gives behind a concatenation.
AppendsBehind(s, t, x) ==
    Append(s \o t, x) = s \o Append(t, x) /\ Append(t, x) = t \o <<x>>

LEMMA AppendBehind ==
    ASSUME NEW B, NEW s \in Seq(B), NEW t \in Seq(B), NEW x \in B
    PROVE  AppendsBehind(s, t, x)
<1>1. s \o t \in Seq(B) /\ <<x>> \in Seq(B)
    OBVIOUS
<1>2. \A list \in Seq(B) : Append(list, x) = list \o <<x>>
    BY AppendIsConcat, Zenon
<1>3. Associates(s, t, <<x>>)
    BY ONLY <1>1, s \in Seq(B), t \in Seq(B), Concatenation
<1>4. (s \o t) \o <<x>> = s \o (t \o <<x>>)
    BY ONLY <1>3 DEF Associates
<1> QED
    BY <1>1, <1>2, <1>4, Zenon DEF AppendsBehind

-----------------------------------------------------------------------------
(* FlattenSeq *)

\* The lists that FlattenSeq(s) goes through: f[i] has the first i of s.
Flattens(f, s) ==
    /\ DOMAIN f = 0..Len(s)
    /\ f[0] = <<>>
    /\ \A i \in 1..Len(s) : f[i] = f[i - 1] \o s[i]

\* They are lists, and s has only one such f.
LEMMA FlattensType ==
    ASSUME NEW B, NEW s \in Seq(Seq(B)), NEW f, Flattens(f, s)
    PROVE  \A i \in 0..Len(s) : f[i] \in Seq(B)
<1> DEFINE D == {i \in Nat : i \in 0..Len(s) => f[i] \in Seq(B)}
<1>0. /\ Len(s) \in Nat /\ f[0] = <<>> /\ <<>> \in Seq(B)
      /\ \A i \in 1..Len(s) : s[i] \in Seq(B) /\ f[i] = f[i - 1] \o s[i]
    BY DEF Flattens
<1>1. 0 \in D
    BY <1>0
<1>2. ASSUME NEW k \in Nat, k \in D PROVE k + 1 \in D
  <2>1. CASE k + 1 \in 0..Len(s)
    <3>1. k \in 0..Len(s) /\ k + 1 \in 1..Len(s) /\ (k + 1) - 1 = k
        BY <1>0, <2>1
    <3>2. f[k] \in Seq(B) /\ s[k + 1] \in Seq(B) /\ f[k + 1] = f[k] \o s[k + 1]
        BY <1>0, <1>2, <3>1
    <3>3. f[k + 1] \in Seq(B)
        BY <3>2, ConcatProperties
    <3> QED
        BY <3>3
  <2> QED
      BY <2>1
<1>3. Nat \subseteq D
    BY <1>1, <1>2, InductiveSet
<1> QED
    BY <1>3

LEMMA FlattensUnique ==
    ASSUME NEW B, NEW s \in Seq(Seq(B)), NEW n \in 0..Len(s), NEW t \in Seq(Seq(B)),
           n <= Len(t), \A i \in 1..n : s[i] = t[i],
           NEW f, Flattens(f, s), NEW g, Flattens(g, t)
    PROVE  \A i \in 0..n : f[i] = g[i]
<1> DEFINE D == {i \in Nat : i \in 0..n => f[i] = g[i]}
<1>0. /\ Len(s) \in Nat /\ Len(t) \in Nat /\ f[0] = g[0]
      /\ \A i \in 1..Len(s) : f[i] = f[i - 1] \o s[i]
      /\ \A i \in 1..Len(t) : g[i] = g[i - 1] \o t[i]
  <2>1. Len(s) \in Nat /\ Len(t) \in Nat
      OBVIOUS
  <2> QED
      BY <2>1, Zenon DEF Flattens
<1>1. 0 \in D
    BY <1>0
<1>2. ASSUME NEW k \in Nat, k \in D PROVE k + 1 \in D
  <2>1. CASE k + 1 \in 0..n
    <3>1. /\ k \in 0..n /\ k + 1 \in 1..Len(s) /\ k + 1 \in 1..Len(t) /\ k + 1 \in 1..n
          /\ (k + 1) - 1 = k
        BY <1>0, <2>1
    <3>2. f[k] = g[k]
        BY <1>2, <3>1
    <3>3. f[k + 1] = f[k] \o s[k + 1] /\ g[k + 1] = g[k] \o t[k + 1] /\ s[k + 1] = t[k + 1]
        BY <1>0, <3>1
    <3>4. f[k + 1] = g[k + 1]
        BY <3>2, <3>3, Zenon
    <3> QED
        BY <3>4
  <2> QED
      BY <2>1
<1>3. Nat \subseteq D
    BY <1>1, <1>2, InductiveSet
<1> QED
    BY <1>3

LEMMA FlattensExists ==
    ASSUME NEW B, NEW s \in Seq(Seq(B))
    PROVE  \E f : Flattens(f, s)
<1> DEFINE Part(f, n) == /\ f \in [0..n -> Seq(B)] /\ f[0] = <<>>
                         /\ \A i \in 1..n : f[i] = f[i - 1] \o s[i]
           D == {n \in Nat : n \in 0..Len(s) => \E f : Part(f, n)}
<1>0. Len(s) \in Nat /\ \A i \in 1..Len(s) : s[i] \in Seq(B)
    OBVIOUS
<1>1. 0 \in D
  <2>1. Part([i \in 0..0 |-> <<>>], 0)
      OBVIOUS
  <2> QED
      BY <2>1
<1>2. ASSUME NEW k \in Nat, k \in D PROVE k + 1 \in D
  <2> SUFFICES ASSUME k + 1 \in 0..Len(s) PROVE \E f : Part(f, k + 1)
    <3> HIDE DEF Part
    <3> QED
        OBVIOUS
  <2>0. k \in 0..Len(s) /\ k + 1 \in 1..Len(s)
      BY <1>0
  <2>1. PICK f : Part(f, k)
    <3> HIDE DEF Part
    <3> QED
        BY <1>2, <2>0
  <2> DEFINE g == [i \in 0..k + 1 |-> IF i = k + 1 THEN f[k] \o s[k + 1] ELSE f[i]]
  <2>2. f[k] \in Seq(B) /\ s[k + 1] \in Seq(B) /\ k \in 0..k
      BY <1>0, <2>0, <2>1
  <2>3. f[k] \o s[k + 1] \in Seq(B)
      BY <2>2, ConcatProperties
  <2>4. g \in [0..k + 1 -> Seq(B)] /\ g[0] = <<>>
    <3>1. ASSUME NEW i \in 0..k + 1 PROVE g[i] \in Seq(B)
      <4>1. i # k + 1 => i \in 0..k
          OBVIOUS
      <4> QED
          BY <2>1, <2>3, <4>1
    <3> QED
        BY <2>1, <3>1
  <2>5. ASSUME NEW i \in 1..k + 1 PROVE g[i] = g[i - 1] \o s[i]
    <3>1. CASE i = k + 1
      <4>1. k + 1 \in 0..k + 1 /\ k \in 0..k + 1 /\ k # k + 1 /\ (k + 1) - 1 = k
          OBVIOUS
      <4>2. g[k + 1] = f[k] \o s[k + 1] /\ g[k] = f[k]
          BY <4>1, Zenon
      <4> QED
          BY <3>1, <4>1, <4>2
    <3>2. CASE i # k + 1
      <4>1. i \in 1..k /\ i - 1 \in 0..k /\ g[i] = f[i] /\ g[i - 1] = f[i - 1]
          BY <3>2
      <4> QED
          BY <2>1, <4>1
    <3> QED
        BY <3>1, <3>2
  <2> HIDE DEF g
  <2>6. Part(g, k + 1)
      BY <2>4, <2>5
  <2> QED
      BY <2>6
<1>3. Nat \subseteq D
  <2> HIDE DEF D
  <2> QED
      BY <1>1, <1>2, InductiveSet
<1>4. Len(s) \in Nat /\ Len(s) \in 0..Len(s)
    OBVIOUS
<1>5. PICK f : Part(f, Len(s))
    BY <1>3, <1>4
<1> QED
    BY <1>5 DEF Flattens

LEMMA FlattenSeqIs ==
    ASSUME NEW B, NEW s \in Seq(Seq(B)), NEW f, Flattens(f, s)
    PROVE  FlattenSeq(s) = f[Len(s)]
<1>1. CASE Len(s) = 0
  <2>1. s = <<>>
      BY <1>1
  <2> QED
      BY <1>1, <2>1 DEF FlattenSeq, Flattens
<1>2. CASE Len(s) # 0
  <2> DEFINE Rec(h) == h = [i \in 1..Len(s) |-> IF i = 1 THEN s[i] ELSE h[i - 1] \o s[i]]
             h == CHOOSE h : Rec(h)
  <2>1. FlattenSeq(s) = h[Len(s)]
      BY <1>2, Zenon DEF FlattenSeq
  <2>2. \E g : Rec(g)
    <3> DEFINE g == [i \in 1..Len(s) |-> f[i]]
    <3>1. f[1] = s[1]
      <4>1. 1 \in 1..Len(s) /\ s[1] \in Seq(B) /\ f[1] = f[0] \o s[1] /\ f[0] = <<>>
        <5>1. 1 \in 1..Len(s) /\ s[1] \in Seq(B) /\ 1 - 1 = 0
            BY <1>2
        <5> QED
            BY <5>1 DEF Flattens
      <4>2. <<>> \o s[1] = s[1]
          BY <4>1
      <4> QED
          BY <4>1, <4>2
    <3>2. ASSUME NEW i \in 1..Len(s), i # 1 PROVE g[i] = g[i - 1] \o s[i]
      <4>1. i - 1 \in 1..Len(s) /\ g[i] = f[i] /\ g[i - 1] = f[i - 1]
          BY <3>2
      <4> QED
          BY <4>1 DEF Flattens
    <3>3. Rec(g)
      <4> DEFINE r == [i \in 1..Len(s) |-> IF i = 1 THEN s[i] ELSE g[i - 1] \o s[i]]
      <4>1. \A i \in 1..Len(s) : g[i] = r[i]
          BY <3>1, <3>2
      <4>2. g = r
          BY <4>1
      <4> QED
          BY <4>2
    <3> QED
        BY <3>3
  <2>3. Rec(h)
      BY <2>2, Zenon
  <2> HIDE DEF h
  <2> DEFINE H == [i \in 0..Len(s) |-> IF i = 0 THEN <<>> ELSE h[i]]
  <2>4. \A i \in 1..Len(s) : h[i] = IF i = 1 THEN s[i] ELSE h[i - 1] \o s[i]
      BY <2>3, Zenon
  <2>5. Flattens(H, s)
    <3>1. ASSUME NEW i \in 1..Len(s) PROVE H[i] = H[i - 1] \o s[i]
      <4>1. CASE i = 1
        <5>1. H[1] = s[1] /\ H[0] = <<>> /\ s[1] \in Seq(B)
            BY <1>2, <2>4
        <5>2. <<>> \o s[1] = s[1] /\ 1 - 1 = 0
            BY <5>1
        <5>3. H[1] = H[1 - 1] \o s[1]
            BY <5>1, <5>2
        <5> QED
            BY <4>1, <5>3
      <4>2. CASE i # 1
        <5>1. H[i] = h[i] /\ H[i - 1] = h[i - 1]
            BY <4>2
        <5> QED
            BY <2>4, <4>2, <5>1
      <4> QED
          BY <4>1, <4>2
    <3> QED
        BY <3>1 DEF Flattens
  <2>6. Len(s) \in 0..Len(s) /\ Len(s) <= Len(s)
      OBVIOUS
  <2>7. \A i \in 0..Len(s) : H[i] = f[i]
    <3> HIDE DEF H
    <3> QED
        BY <2>5, <2>6, FlattensUnique
  <2>8. H[Len(s)] = h[Len(s)]
      BY <1>2
  <2> QED
      BY <2>1, <2>6, <2>7, <2>8
<1> QED
    BY <1>1, <1>2

\* What FlattenSeq gives of a list of lists, and when one is added at its end.
LEMMA FlattenSeqType ==
    ASSUME NEW B, NEW s \in Seq(Seq(B))
    PROVE  FlattenSeq(s) \in Seq(B)
<1>1. PICK f : Flattens(f, s)
    BY FlattensExists
<1>2. FlattenSeq(s) = f[Len(s)] /\ Len(s) \in 0..Len(s)
    BY <1>1, FlattenSeqIs
<1> QED
    BY <1>1, <1>2, FlattensType

LEMMA FlattenSeqAppend ==
    ASSUME NEW B, NEW s \in Seq(Seq(B)), NEW x \in Seq(B)
    PROVE  FlattenSeq(Append(s, x)) = FlattenSeq(s) \o x
<1> DEFINE t == Append(s, x)
<1>1. /\ t \in Seq(Seq(B)) /\ Len(t) = Len(s) + 1 /\ t[Len(s) + 1] = x /\ Len(s) \in Nat
      /\ \A i \in 1..Len(s) : s[i] = t[i]
    OBVIOUS
<1> HIDE DEF t
<1>2. PICK f : Flattens(f, s)
    BY FlattensExists
<1>3. PICK g : Flattens(g, t)
    BY <1>1, FlattensExists
<1>4. FlattenSeq(s) = f[Len(s)]
    BY <1>2, FlattenSeqIs
<1>5. FlattenSeq(t) = g[Len(t)]
    BY <1>1, <1>3, FlattenSeqIs
<1>6. g[Len(t)] = g[Len(s)] \o x
  <2>1. Len(s) + 1 \in 1..Len(t) /\ (Len(s) + 1) - 1 = Len(s)
      BY <1>1
  <2>2. g[Len(s) + 1] = g[(Len(s) + 1) - 1] \o t[Len(s) + 1]
      BY <1>3, <2>1 DEF Flattens
  <2> QED
      BY <1>1, <2>1, <2>2
<1>7. f[Len(s)] = g[Len(s)]
  <2>1. Len(s) \in 0..Len(s) /\ Len(s) <= Len(t)
      BY <1>1
  <2>2. \A i \in 0..Len(s) : f[i] = g[i]
    <3> DEFINE n == Len(s)
    <3>1. n \in 0..Len(s) /\ n <= Len(t) /\ \A i \in 1..n : s[i] = t[i]
        BY <1>1, <2>1
    <3> HIDE DEF n
    <3>2. \A i \in 0..n : f[i] = g[i]
        BY <1>1, <1>2, <1>3, <3>1, FlattensUnique
    <3> QED
        BY <3>2 DEF n
  <2> QED
      BY <2>1, <2>2
<1> QED
    BY <1>4, <1>5, <1>6, <1>7 DEF t

LEMMA FlattenSeqCons ==
    ASSUME NEW B, NEW s \in Seq(Seq(B)), NEW x \in Seq(B)
    PROVE  FlattenSeq(<<x>> \o s) = x \o FlattenSeq(s)
<1> DEFINE t == <<x>> \o s
<1>1. /\ t \in Seq(Seq(B)) /\ Len(t) = Len(s) + 1 /\ t[1] = x /\ Len(s) \in Nat
      /\ \A i \in 1..Len(s) : t[i + 1] = s[i] /\ s[i] \in Seq(B)
    OBVIOUS
<1> HIDE DEF t
<1>2. PICK f : Flattens(f, s)
    BY FlattensExists
<1>3. \A i \in 0..Len(s) : f[i] \in Seq(B)
    BY <1>2, FlattensType
<1> DEFINE g == [i \in 0..Len(t) |-> IF i = 0 THEN <<>> ELSE x \o f[i - 1]]
<1>4. \A i \in 1..Len(t) : i - 1 \in 0..Len(s) /\ g[i] = x \o f[i - 1]
    BY <1>1
<1>5. ASSUME NEW i \in 1..Len(t) PROVE g[i] = g[i - 1] \o t[i]
  <2>1. CASE i = 1
    <3>1. f[0] = <<>> /\ g[0] = <<>> /\ 1 - 1 = 0
        BY <1>1, <1>2 DEF Flattens
    <3>2. g[1] = x \o <<>>
        BY <1>1, <1>4, <3>1
    <3>3. x \o <<>> = <<>> \o x
        OBVIOUS
    <3> QED
        BY <1>1, <2>1, <3>1, <3>2, <3>3
  <2>2. CASE i # 1
    <3>1. /\ i - 1 \in 1..Len(s) /\ i - 1 \in 1..Len(t) /\ (i - 1) - 1 \in 0..Len(s)
          /\ (i - 1) + 1 = i
        BY <1>1, <2>2
    <3>2. f[i - 1] = f[(i - 1) - 1] \o s[i - 1] /\ t[i] = s[i - 1]
        BY <1>1, <1>2, <3>1 DEF Flattens
    <3>3. g[i] = x \o f[i - 1] /\ g[i - 1] = x \o f[(i - 1) - 1]
        BY <1>4, <3>1
    <3>4. f[(i - 1) - 1] \in Seq(B) /\ s[i - 1] \in Seq(B)
        BY <1>1, <1>3, <3>1
    <3>5. \A u, v \in Seq(B) : x \o (u \o v) = (x \o u) \o v
        OBVIOUS
    <3> QED
        BY <3>2, <3>3, <3>4, <3>5
  <2> QED
      BY <2>1, <2>2
<1>6. Flattens(g, t)
  <2>1. DOMAIN g = 0..Len(t) /\ g[0] = <<>>
      BY <1>1
  <2> HIDE DEF g
  <2> QED
      BY <1>5, <2>1 DEF Flattens
<1>7. FlattenSeq(t) = g[Len(t)]
  <2> HIDE DEF g
  <2> QED
      BY <1>1, <1>6, FlattenSeqIs
<1>8. FlattenSeq(s) = f[Len(s)]
    BY <1>2, FlattenSeqIs
<1>9. Len(t) \in 1..Len(t) /\ Len(t) - 1 = Len(s)
    BY <1>1
<1> QED
    BY <1>4, <1>7, <1>8, <1>9 DEF t

-----------------------------------------------------------------------------
(* A list of what a function gives of the elements of another *)

Mapped(f, list) == [i \in DOMAIN list |-> f[list[i]]]

LEMMA MappedType ==
    ASSUME NEW S, NEW T, NEW f \in [S -> T], NEW list \in Seq(S)
    PROVE  /\ Mapped(f, list) \in Seq(T) /\ Len(Mapped(f, list)) = Len(list)
           /\ \A i \in 1..Len(list) : Mapped(f, list)[i] = f[list[i]]
<1>1. DOMAIN list = 1..Len(list) /\ Len(list) \in Nat /\ \A i \in 1..Len(list) : list[i] \in S
    OBVIOUS
<1>2. Mapped(f, list) = [i \in 1..Len(list) |-> f[list[i]]]
    BY <1>1 DEF Mapped
<1> QED
    BY <1>1, <1>2

MapsCons(f, s, list) == Mapped(f, <<s>> \o list) = <<f[s]>> \o Mapped(f, list)

LEMMA MappedCons ==
    ASSUME NEW S, NEW T, NEW f \in [S -> T], NEW list \in Seq(S), NEW s \in S
    PROVE  MapsCons(f, s, list)
<1> DEFINE longer == <<s>> \o list
           m == Mapped(f, list)
           both == <<f[s]>> \o m
<1>1. /\ longer \in Seq(S) /\ Len(longer) = Len(list) + 1 /\ Len(list) \in Nat /\ longer[1] = s
      /\ \A i \in 2..Len(longer) : longer[i] = list[i - 1]
    OBVIOUS
<1>2. m \in Seq(T) /\ Len(m) = Len(list) /\ \A i \in 1..Len(list) : m[i] = f[list[i]]
  <2>1. m \in Seq(T)
      BY MappedType
  <2>2. Len(m) = Len(list)
      BY <1>1, <2>1 DEF Mapped
  <2> QED
      BY <2>1, <2>2 DEF Mapped
<1> HIDE DEF m
<1>3. /\ both \in Seq(T) /\ Len(both) = Len(list) + 1 /\ both[1] = f[s]
      /\ \A i \in 2..(Len(list) + 1) : both[i] = m[i - 1]
    BY <1>1, <1>2
<1> HIDE DEF longer, both
<1>4. /\ Mapped(f, longer) \in Seq(T) /\ Len(Mapped(f, longer)) = Len(longer)
      /\ \A i \in 1..Len(longer) : Mapped(f, longer)[i] = f[longer[i]]
  <2>1. Mapped(f, longer) \in Seq(T)
      BY <1>1, MappedType
  <2>2. Len(Mapped(f, longer)) = Len(longer)
      BY <1>1, <2>1 DEF Mapped
  <2> QED
      BY <1>1, <2>1, <2>2 DEF Mapped
<1>5. ASSUME NEW i \in 1..Len(longer) PROVE Mapped(f, longer)[i] = both[i]
  <2>1. CASE i = 1
      BY <1>1, <1>3, <1>4, <2>1
  <2>2. CASE i # 1
    <3>1. i \in 2..Len(longer) /\ i \in 2..(Len(list) + 1) /\ i - 1 \in 1..Len(list)
        BY <1>1, <2>2
    <3>2. longer[i] = list[i - 1] /\ both[i] = m[i - 1] /\ m[i - 1] = f[list[i - 1]]
        BY <1>1, <1>2, <1>3, <3>1
    <3> QED
        BY <1>4, <3>2
  <2> QED
      BY <2>1, <2>2
<1>6. Len(Mapped(f, longer)) = Len(both)
    BY <1>1, <1>3, <1>4
<1>7. \A i \in 1..Len(Mapped(f, longer)) : Mapped(f, longer)[i] = both[i]
    BY <1>4, <1>5
<1>8. Mapped(f, longer) = both
    BY <1>3, <1>4, <1>6, <1>7, SeqEqual
<1> QED
    BY <1>8 DEF longer, both, m, MapsCons

LEMMA MappedAppend ==
    ASSUME NEW S, NEW T, NEW f \in [S -> T], NEW list \in Seq(S), NEW s \in S
    PROVE  Mapped(f, Append(list, s)) = Append(Mapped(f, list), f[s])
<1> DEFINE longer == Append(list, s)
           m == Mapped(f, list)
           both == Append(m, f[s])
<1>1. /\ longer \in Seq(S) /\ Len(longer) = Len(list) + 1 /\ Len(list) \in Nat
      /\ longer[Len(list) + 1] = s
      /\ \A i \in 1..Len(list) : longer[i] = list[i]
    OBVIOUS
<1>2. m \in Seq(T) /\ Len(m) = Len(list) /\ \A i \in 1..Len(list) : m[i] = f[list[i]]
  <2>1. m \in Seq(T)
      BY MappedType
  <2>2. Len(m) = Len(list)
      BY <1>1, <2>1 DEF Mapped
  <2> QED
      BY <2>1, <2>2 DEF Mapped
<1> HIDE DEF m
<1>3. /\ both \in Seq(T) /\ Len(both) = Len(list) + 1 /\ both[Len(list) + 1] = f[s]
      /\ \A i \in 1..Len(list) : both[i] = m[i]
    BY <1>1, <1>2
<1> HIDE DEF longer, both
<1>4. /\ Mapped(f, longer) \in Seq(T) /\ Len(Mapped(f, longer)) = Len(longer)
      /\ \A i \in 1..Len(longer) : Mapped(f, longer)[i] = f[longer[i]]
  <2>1. Mapped(f, longer) \in Seq(T)
      BY <1>1, MappedType
  <2>2. Len(Mapped(f, longer)) = Len(longer)
      BY <1>1, <2>1 DEF Mapped
  <2> QED
      BY <1>1, <2>1, <2>2 DEF Mapped
<1>5. ASSUME NEW i \in 1..Len(longer) PROVE Mapped(f, longer)[i] = both[i]
  <2>1. CASE i = Len(list) + 1
      BY <1>1, <1>3, <1>4, <2>1
  <2>2. CASE i # Len(list) + 1
    <3>1. i \in 1..Len(list)
        BY <1>1, <2>2
    <3> QED
        BY <1>1, <1>2, <1>3, <1>4, <3>1
  <2> QED
      BY <2>1, <2>2
<1>6. Len(Mapped(f, longer)) = Len(both)
    BY <1>1, <1>3, <1>4
<1>7. \A i \in 1..Len(Mapped(f, longer)) : Mapped(f, longer)[i] = both[i]
    BY <1>4, <1>5
<1>8. Mapped(f, longer) = both
    BY <1>3, <1>4, <1>6, <1>7, SeqEqual
<1> QED
    BY <1>8 DEF longer, both, m

\* Flattened, for a function that gives lists.
LEMMA FlattenMapped ==
    ASSUME NEW S, NEW B, NEW f \in [S -> Seq(B)], NEW list \in Seq(S)
    PROVE  FlattenSeq(Mapped(f, list)) \in Seq(B)
<1>1. Mapped(f, list) \in Seq(Seq(B))
    BY MappedType
<1> QED
    BY <1>1, FlattenSeqType

FlattensCons(f, s, list) ==
    FlattenSeq(Mapped(f, <<s>> \o list)) = f[s] \o FlattenSeq(Mapped(f, list))

LEMMA FlattenMappedCons ==
    ASSUME NEW S, NEW B, NEW f \in [S -> Seq(B)], NEW list \in Seq(S), NEW s \in S
    PROVE  FlattensCons(f, s, list)
<1>1. Mapped(f, list) \in Seq(Seq(B)) /\ f[s] \in Seq(B)
    BY MappedType
<1>2. Mapped(f, <<s>> \o list) = <<f[s]>> \o Mapped(f, list)
  <2>1. MapsCons(f, s, list)
      BY MappedCons
  <2> QED
      BY ONLY <2>1 DEF MapsCons
<1>3. FlattenSeq(<<f[s]>> \o Mapped(f, list)) = f[s] \o FlattenSeq(Mapped(f, list))
    BY <1>1, FlattenSeqCons
<1> QED
    BY <1>2, <1>3, Zenon DEF FlattensCons

FlattensAppend(f, list, s) ==
    FlattenSeq(Mapped(f, Append(list, s))) = FlattenSeq(Mapped(f, list)) \o f[s]

LEMMA FlattenMappedAppend ==
    ASSUME NEW S, NEW B, NEW f \in [S -> Seq(B)], NEW list \in Seq(S), NEW s \in S
    PROVE  FlattensAppend(f, list, s)
<1>1. Mapped(f, list) \in Seq(Seq(B)) /\ f[s] \in Seq(B)
    BY MappedType
<1>2. Mapped(f, Append(list, s)) = Append(Mapped(f, list), f[s])
    BY MappedAppend
<1>3. FlattenSeq(Append(Mapped(f, list), f[s])) = FlattenSeq(Mapped(f, list)) \o f[s]
    BY <1>1, FlattenSeqAppend
<1> QED
    BY <1>2, <1>3, Zenon DEF FlattensAppend

-----------------------------------------------------------------------------
(* Prefixes *)

LEMMA PrefixIs ==
    ASSUME NEW B, NEW s \in Seq(B), NEW t \in Seq(B)
    PROVE  IsPrefix(s, t) <=> \E rest \in Seq(B) : s \o rest = t
<1>1. ASSUME NEW rest \in Seq(B), s \o rest = t PROVE IsPrefix(s, t)
    BY <1>1 DEF IsPrefix
<1>2. ASSUME IsPrefix(s, t) PROVE \E rest \in Seq(B) : s \o rest = t
  <2> DEFINE rest == SubSeq(t, Len(s) + 1, Len(t))
  <2>1. Len(s) <= Len(t) /\ SubSeq(s, 1, Len(s)) = SubSeq(t, 1, Len(s))
      BY <1>2 DEF IsPrefix
  <2>2. \A i \in 1..Len(s) : s[i] = t[i]
    <3>1. ASSUME NEW i \in 1..Len(s) PROVE s[i] = t[i]
      <4>1. SubSeq(s, 1, Len(s))[i] = s[i] /\ SubSeq(t, 1, Len(s))[i] = t[i]
          BY <2>1
      <4> QED
          BY <2>1, <4>1
    <3> QED
        BY <3>1
  <2>3. rest \in Seq(B) /\ Len(rest) = Len(t) - Len(s)
        /\ \A i \in 1..Len(rest) : rest[i] = t[Len(s) + i]
      BY <2>1
  <2> HIDE DEF rest
  <2>4. s \o rest = t
    <3>1. s \o rest \in Seq(B) /\ Len(s \o rest) = Len(t)
        BY <2>3
    <3>2. \A i \in 1..Len(t) : (s \o rest)[i] = t[i]
        BY <2>2, <2>3
    <3> QED
        BY <3>1, <3>2, SeqEqual
  <2> QED
      BY <2>3, <2>4
<1> QED
    BY <1>1, <1>2

-----------------------------------------------------------------------------
(* Lists without repetitions *)

\* Adding what a list does not have yet adds nothing else.
LEMMA AppendToList ==
    ASSUME NEW S, NEW list \in Seq(S), IsInjective(list), NEW b \in S, b \notin ToSet(list)
    PROVE  /\ Append(list, b) \in Seq(S) /\ IsInjective(Append(list, b))
           /\ ToSet(Append(list, b)) = ToSet(list) \cup {b}
<1>1. /\ Append(list, b) \in Seq(S)
      /\ DOMAIN Append(list, b) = 1..(Len(list) + 1) /\ DOMAIN list = 1..Len(list)
      /\ \A i \in 1..Len(list) : Append(list, b)[i] = list[i]
      /\ Append(list, b)[Len(list) + 1] = b /\ Len(list) \in Nat
    OBVIOUS
<1>2. \A i \in 1..Len(list) : list[i] # b
    BY <1>1 DEF ToSet
<1>3. IsInjective(Append(list, b))
    BY <1>1, <1>2 DEF IsInjective
<1>4. ToSet(Append(list, b)) = ToSet(list) \cup {b}
    BY <1>1 DEF ToSet
<1> QED
    BY <1>1, <1>3, <1>4

\* Removing c from such a list removes c and nothing else.
LEMMA RemoveFirstFromList ==
    ASSUME NEW S, NEW list \in Seq(S), IsInjective(list), NEW c \in ToSet(list)
    PROVE  /\ RemoveFirst(list, c) \in Seq(S)
           /\ Len(RemoveFirst(list, c)) = Len(list) - 1
           /\ IsInjective(RemoveFirst(list, c))
           /\ ToSet(RemoveFirst(list, c)) = ToSet(list) \ {c}
<1>1. PICK k \in 1..Len(list) : list[k] = c
    BY DEF ToSet
<1> DEFINE head == SubSeq(list, 1, k - 1)
           tail == SubSeq(list, k + 1, Len(list))
           rest == head \o tail
\* The first occurrence is the only one.
<1>2. RemoveFirst(list, c) = rest
  <2>1. {i \in 1..Len(list) : list[i] = c} = {k}
      BY <1>1 DEF IsInjective
  <2>2. Min({k}) = k
      BY DEF Min
  <2> QED
      BY <1>1, <2>1, <2>2 DEF RemoveFirst, RemoveAt, SelectInSeq
<1>3. /\ rest \in Seq(S)
      /\ Len(rest) = Len(list) - 1
      /\ \A i \in 1..Len(rest) : rest[i] = IF i < k THEN list[i] ELSE list[i + 1]
  <2>1. /\ head \in Seq(S) /\ Len(head) = k - 1
        /\ \A i \in 1..(k - 1) : head[i] = list[i]
      OBVIOUS
  <2>2. /\ tail \in Seq(S) /\ Len(tail) = Len(list) - k
        /\ \A i \in 1..(Len(list) - k) : tail[i] = list[k + i]
      OBVIOUS
  <2> HIDE DEF head, tail
  <2>3. /\ rest \in Seq(S) /\ Len(rest) = (k - 1) + (Len(list) - k)
        /\ \A i \in 1..((k - 1) + (Len(list) - k)) :
              rest[i] = IF i <= k - 1 THEN head[i] ELSE tail[i - (k - 1)]
    <3>1. /\ rest \in Seq(S) /\ Len(rest) = Len(head) + Len(tail)
          /\ \A i \in 1..(Len(head) + Len(tail)) :
                rest[i] = IF i <= Len(head) THEN head[i] ELSE tail[i - Len(head)]
        BY <2>1, <2>2, ConcatProperties, Zenon
    <3> HIDE DEF rest
    <3> QED
        BY <2>1, <2>2, <3>1
  <2> HIDE DEF rest
  <2>4. (k - 1) + (Len(list) - k) = Len(list) - 1
      OBVIOUS
  <2>5. ASSUME NEW i \in 1..(Len(list) - 1), i < k PROVE rest[i] = list[i]
    <3>1. i \in 1..(k - 1) /\ i <= k - 1 /\ i \in 1..((k - 1) + (Len(list) - k))
        BY <2>4, <2>5
    <3> QED
        BY <2>1, <2>3, <3>1
  <2>6. ASSUME NEW i \in 1..(Len(list) - 1), ~(i < k) PROVE rest[i] = list[i + 1]
    <3>1. i - (k - 1) \in 1..(Len(list) - k) /\ k + (i - (k - 1)) = i + 1
        BY <2>6
    <3>2. rest[i] = tail[i - (k - 1)]
        BY <2>3, <2>4, <2>6
    <3>3. tail[i - (k - 1)] = list[k + (i - (k - 1))]
        BY <2>2, <3>1
    <3> QED
        BY <3>1, <3>2, <3>3
  <2> QED
      BY <2>3, <2>4, <2>5, <2>6
<1> HIDE DEF rest
<1>4. IsInjective(rest)
  <2>1. DOMAIN rest = 1..(Len(list) - 1) /\ DOMAIN list = 1..Len(list)
      BY <1>3
  <2>2. ASSUME NEW i \in 1..(Len(list) - 1), NEW j \in 1..(Len(list) - 1),
               rest[i] = rest[j]
        PROVE  i = j
    <3> DEFINE old(n) == IF n < k THEN n ELSE n + 1
    <3>1. \A n \in 1..(Len(list) - 1) :
              old(n) \in 1..Len(list) /\ rest[n] = list[old(n)]
      <4>1. \A n \in 1..Len(rest) : rest[n] = list[old(n)]
          BY <1>3
      <4>2. \A n \in 1..(Len(list) - 1) : old(n) \in 1..Len(list)
          OBVIOUS
      <4> QED
          BY <1>3, <4>1, <4>2
    <3>2. old(i) = old(j)
        BY <2>1, <2>2, <3>1 DEF IsInjective
    <3> QED
        BY <3>2
  <2> QED
      BY <2>1, <2>2 DEF IsInjective
<1>5. ToSet(rest) = ToSet(list) \ {c}
  <2>1. ASSUME NEW x \in ToSet(rest) PROVE x \in ToSet(list) \ {c}
    BY <1>1, <1>3 DEF ToSet, IsInjective
  <2>2. ASSUME NEW x \in ToSet(list), x # c PROVE x \in ToSet(rest)
    <3>1. PICK i \in 1..Len(list) : list[i] = x
        BY DEF ToSet
    <3>2. CASE i < k
        BY <3>1, <3>2, <1>3 DEF ToSet
    <3>3. CASE i > k
      <4>1. i - 1 \in 1..Len(rest) /\ rest[i - 1] = x
          BY <3>1, <3>3, <1>3
      <4> QED BY <4>1, <1>3 DEF ToSet
    <3> QED BY <3>1, <3>2, <3>3, <1>1, <2>2
  <2> QED BY <2>1, <2>2
<1> QED BY <1>2, <1>3, <1>4, <1>5

=============================================================================
