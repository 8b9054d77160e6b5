--------------------------- MODULE SequenceFacts ---------------------------
(***************************************************************************)
(* What the operations on sequences used by the models do to their         *)
(* elements, stated for every sequence, and the least-number principle,    *)
(* which serves where an induction would.                                  *)
(***************************************************************************)
EXTENDS Integers, Sequences, FiniteSets, SequencesExt, SequenceTheorems, FiniteSetTheorems,
        WellFoundedInduction, TLAPS

\* Removing one element leaves the others, in order.
LEMMA RemoveAtProperties ==
  ASSUME NEW S, NEW s \in Seq(S), NEW i \in 1 .. Len(s)
  PROVE  /\ RemoveAt(s, i) \in Seq(S)
         /\ Len(RemoveAt(s, i)) = Len(s) - 1
         /\ \A j \in 1 .. Len(s) - 1 :
              RemoveAt(s, i)[j] = IF j < i THEN s[j] ELSE s[j + 1]
<1> DEFINE before == SubSeq(s, 1, i - 1)
           after  == SubSeq(s, i + 1, Len(s))
<1>1. Len(s) \in Nat /\ \A j \in 1 .. Len(s) : s[j] \in S
  BY LenProperties, ElementOfSeq
<1>2. /\ before \in Seq(S)
      /\ Len(before) = i - 1
      /\ \A j \in 1 .. i - 1 : before[j] = s[j]
  <2>1. /\ before \in Seq(S)
        /\ Len(before) = IF 1 <= i - 1 THEN (i - 1) - 1 + 1 ELSE 0
        /\ \A j \in 1 .. (i - 1) - 1 + 1 : before[j] = s[1 + j - 1]
    BY <1>1, SubSeqProperties
  <2> QED BY <1>1, <2>1
<1>3. /\ after \in Seq(S)
      /\ Len(after) = Len(s) - i
      /\ \A j \in 1 .. Len(s) - i : after[j] = s[i + j]
  <2>1. /\ after \in Seq(S)
        /\ Len(after) = IF i + 1 <= Len(s) THEN Len(s) - (i + 1) + 1 ELSE 0
        /\ \A j \in 1 .. Len(s) - (i + 1) + 1 : after[j] = s[(i + 1) + j - 1]
    BY <1>1, SubSeqProperties
  <2> QED BY <1>1, <2>1
<1>4. /\ before \o after \in Seq(S)
      /\ Len(before \o after) = Len(before) + Len(after)
      /\ \A j \in 1 .. Len(before) + Len(after) :
           (before \o after)[j] =
             IF j <= Len(before) THEN before[j] ELSE after[j - Len(before)]
  BY <1>2, <1>3, ConcatProperties
<1>5. RemoveAt(s, i) = before \o after
  BY DEF RemoveAt
<1> HIDE DEF before, after
<1>6. ASSUME NEW j \in 1 .. Len(s) - 1
      PROVE  (before \o after)[j] = IF j < i THEN s[j] ELSE s[j + 1]
  <2>1. CASE j < i
    BY <1>1, <1>2, <1>3, <1>4, <2>1
  <2>2. CASE ~(j < i)
    <3>1. PICK m \in Int : m = j - (i - 1)
      BY <1>1
    <3>2. m \in 1 .. Len(s) - i /\ i + m = j + 1
      BY <1>1, <2>2, <3>1
    <3>3. after[m] = s[i + m]
      BY <1>3, <3>2
    <3>4. (before \o after)[j] = after[m]
      BY <1>1, <1>2, <1>3, <1>4, <2>2, <3>1
    <3> QED BY <2>2, <3>2, <3>3, <3>4
  <2> QED BY <2>1, <2>2
<1>7. /\ RemoveAt(s, i) \in Seq(S)
      /\ Len(RemoveAt(s, i)) = Len(s) - 1
  <2>1. Len(before \o after) = Len(s) - 1
    BY <1>1, <1>2, <1>3, <1>4
  <2> QED BY <1>4, <1>5, <2>1
<1>8. \A j \in 1 .. Len(s) - 1 :
        RemoveAt(s, i)[j] = IF j < i THEN s[j] ELSE s[j + 1]
  BY <1>5, <1>6
<1> QED BY <1>7, <1>8

\* Every non-empty set of natural numbers has a least element.
LEMMA LeastNatural ==
  ASSUME NEW S \in SUBSET Nat, S # {}
  PROVE  \E n \in S : \A m \in S : n <= m
<1>1. PICK n \in S : \A m \in S : ~(<<m, n>> \in OpToRel(<, Nat))
  BY WFMin, NatLessThanWellFounded
<1>2. \A m \in S : ~(m < n)
  BY <1>1 DEF OpToRel
<1> QED BY <1>2

\* What a bounded sequence is.
LEMMA BoundedSeqType ==
  ASSUME NEW S, NEW n \in Nat
  PROVE  BoundedSeq(S, n) \subseteq Seq(S)
<1>1. \A m \in 0 .. n : [1 .. m -> S] \subseteq Seq(S)
  BY SeqDef
<1> QED BY <1>1 DEF BoundedSeq, SeqOf

\* A finite set has a sequence that lists each of its members once.
LEMMA SetToSeqProperties ==
  ASSUME NEW S, IsFiniteSet(S)
  PROVE  /\ SetToSeq(S) \in Seq(S)
         /\ IsInjective(SetToSeq(S))
         /\ ToSet(SetToSeq(S)) = S
<1> DEFINE n == Cardinality(S)
<1>1. n \in Nat /\ \E f : f \in Bijection(1 .. n, S)
  BY FS_CardinalityType DEF ExistsBijection
<1>2. PICK f : f \in Bijection(1 .. n, S)
  BY <1>1
<1>3. f \in [1 .. n -> S] /\ IsInjective(f)
  BY <1>2 DEF Bijection, Injection, Surjection
<1>4. SetToSeq(S) \in [1 .. n -> S] /\ IsInjective(SetToSeq(S))
  BY <1>3 DEF SetToSeq
<1>5. SetToSeq(S) \in Seq(S)
  BY <1>1, <1>4, SeqDef
<1>6. SetToSeq(S) \in Injection(1 .. n, S)
  BY <1>4 DEF Injection
<1>7. IsFiniteSet(1 .. n) /\ Cardinality(1 .. n) = n
  BY <1>1, FS_Interval
<1>8. SetToSeq(S) \in Surjection(1 .. n, S)
  BY <1>6, <1>7, FS_Injection
<1>9. ToSet(SetToSeq(S)) = S
  BY <1>4, <1>8 DEF Surjection, ToSet
<1> QED BY <1>4, <1>5, <1>9

\* Appending an element that is not there keeps the elements apart.
LEMMA AppendKeepsApart ==
  ASSUME NEW S, NEW s \in Seq(S), NEW e \in S, IsInjective(s), e \notin ToSet(s)
  PROVE  IsInjective(Append(s, e))
<1>1. /\ Len(s) \in Nat /\ DOMAIN s = 1 .. Len(s)
      /\ DOMAIN Append(s, e) = 1 .. Len(s) + 1
      /\ \A i \in 1 .. Len(s) : Append(s, e)[i] = s[i]
      /\ Append(s, e)[Len(s) + 1] = e
  BY AppendProperties, LenProperties
<1>2. \A i \in 1 .. Len(s) : s[i] # e
  BY <1>1 DEF ToSet
<1>3. \A i, j \in 1 .. Len(s) : s[i] = s[j] => i = j
  BY <1>1 DEF IsInjective
<1> DEFINE t == Append(s, e)
<1> HIDE DEF t
<1>4. ASSUME NEW i \in 1 .. Len(s) + 1, NEW j \in 1 .. Len(s) + 1, t[i] = t[j]
      PROVE  i = j
  BY <1>1, <1>2, <1>3, <1>4 DEF t
<1>5. IsInjective(t)
  BY <1>1, <1>4 DEF IsInjective, t
<1> QED BY <1>5 DEF t

LEMMA AppendSet ==
  ASSUME NEW S, NEW s \in Seq(S), NEW e \in S
  PROVE  ToSet(Append(s, e)) = ToSet(s) \cup {e}
<1>1. /\ Len(s) \in Nat /\ DOMAIN s = 1 .. Len(s)
      /\ DOMAIN Append(s, e) = 1 .. Len(s) + 1
      /\ \A i \in 1 .. Len(s) : Append(s, e)[i] = s[i]
      /\ Append(s, e)[Len(s) + 1] = e
  BY AppendProperties, LenProperties
<1> QED BY <1>1 DEF ToSet


\* A sequence of a set's elements is one of any larger set's.
LEMMA SequenceOfSubset ==
  ASSUME NEW S, NEW T, S \subseteq T, NEW s \in Seq(S)
  PROVE  s \in Seq(T)
<1>1. Len(s) \in Nat /\ s \in [1 .. Len(s) -> S]
  BY LenProperties
<1>2. s \in [1 .. Len(s) -> T]
  BY <1>1
<1> QED BY <1>1, <1>2, SeqDef

\* A recursion over 1 .. N in S: its first value, and each value's next one.
StepsIn(S, base, N, step) == N \in Nat /\ base \in S /\ step \in [(1 .. N) \X S -> S]

Recurses(f, S, base, N, step) ==
  /\ f \in [0 .. N -> S]
  /\ f[0] = base
  /\ \A n \in 1 .. N : f[n] = step[<<n, f[n - 1]>>]

\* Such a recursion defines a function.
LEMMA RecursionExists ==
  ASSUME NEW S, NEW base, NEW N, NEW step, StepsIn(S, base, N, step)
  PROVE  \E f : Recurses(f, S, base, N, step)
<1>0. N \in Nat /\ base \in S /\ step \in [(1 .. N) \X S -> S]
  BY DEF StepsIn
<1> DEFINE Good(k) == \E f \in [0 .. k -> S] :
                        f[0] = base /\ \A n \in 1 .. k : f[n] = step[<<n, f[n - 1]>>]
           Bad == {k \in 0 .. N : ~Good(k)}
<1>1. SUFFICES ASSUME Bad # {}
               PROVE  FALSE
  <2>1. Good(N)
    BY <1>0
  <2> QED BY <2>1 DEF Recurses
<1>2. PICK k \in Bad : \A j \in Bad : k <= j
  <2>1. Bad \in SUBSET Nat
    BY <1>0
  <2> HIDE DEF Bad
  <2> QED BY <1>1, <2>1, LeastNatural
<1>3. k \in 0 .. N /\ ~Good(k)
  BY <1>2
<1>4. k # 0
  <2> DEFINE f == [n \in 0 .. 0 |-> base]
  <2>1. f \in [0 .. 0 -> S] /\ f[0] = base /\ 1 .. 0 = {}
    BY <1>0
  <2> HIDE DEF f
  <2>2. Good(0)
    BY <2>1
  <2> QED BY <1>3, <2>2
<1>5. k - 1 \in 0 .. N /\ ~(k <= k - 1)
  BY <1>0, <1>3, <1>4
<1>6. Good(k - 1)
  BY <1>2, <1>5
<1>7. PICK f \in [0 .. k - 1 -> S] :
        f[0] = base /\ \A n \in 1 .. k - 1 : f[n] = step[<<n, f[n - 1]>>]
  BY <1>6
<1> DEFINE h == [n \in 0 .. k |-> IF n = k THEN step[<<k, f[k - 1]>>] ELSE f[n]]
<1>8. f[k - 1] \in S /\ step[<<k, f[k - 1]>>] \in S
  BY <1>0, <1>3, <1>4, <1>7
<1>9. h \in [0 .. k -> S]
  BY <1>0, <1>3, <1>4, <1>7, <1>8
<1>10. h[0] = base
  BY <1>0, <1>3, <1>4, <1>7
<1>11. ASSUME NEW n \in 1 .. k
       PROVE  h[n] = step[<<n, h[n - 1]>>]
  <2>1. n \in 0 .. k /\ n - 1 \in 0 .. k /\ n - 1 # k
    BY <1>0, <1>3, <1>11
  <2>2. h[n - 1] = f[n - 1]
    BY <2>1
  <2>3. CASE n = k
    BY <2>1, <2>2, <2>3
  <2>4. CASE n # k
    <3>1. n \in 1 .. k - 1
      BY <1>0, <1>3, <2>4
    <3>2. f[n] = step[<<n, f[n - 1]>>]
      BY <1>7, <3>1
    <3>3. h[n] = f[n]
      BY <2>1, <2>4
    <3> QED BY <2>2, <3>2, <3>3
  <2> QED BY <2>3, <2>4
<1> HIDE DEF h
<1>12. Good(k)
  BY <1>9, <1>10, <1>11
<1> QED BY <1>3, <1>12

\* Concatenation joins the elements, and keeps them apart if they were.
LEMMA ConcatFacts ==
  ASSUME NEW S, NEW s \in Seq(S), NEW t \in Seq(S)
  PROVE  /\ s \o t \in Seq(S)
         /\ ToSet(s \o t) = ToSet(s) \cup ToSet(t)
         /\ IsInjective(s) /\ IsInjective(t) /\ ToSet(s) \cap ToSet(t) = {} =>
              IsInjective(s \o t)
<1>1. /\ Len(s) \in Nat /\ Len(t) \in Nat
      /\ DOMAIN s = 1 .. Len(s) /\ DOMAIN t = 1 .. Len(t)
  BY LenProperties
<1> DEFINE j == s \o t
<1>2. /\ j \in Seq(S) /\ Len(j) = Len(s) + Len(t)
      /\ \A i \in 1 .. Len(s) + Len(t) :
           j[i] = IF i <= Len(s) THEN s[i] ELSE t[i - Len(s)]
  BY ConcatProperties
<1>3. DOMAIN j = 1 .. Len(s) + Len(t)
  BY <1>2, LenProperties
<1> HIDE DEF j
<1>4. \A i \in 1 .. Len(s) : i \in DOMAIN j /\ j[i] = s[i]
  BY <1>1, <1>2, <1>3
<1>5. ASSUME NEW i \in 1 .. Len(t)
      PROVE  Len(s) + i \in DOMAIN j /\ j[Len(s) + i] = t[i]
  <2>1. /\ Len(s) + i \in 1 .. Len(s) + Len(t)
        /\ ~(Len(s) + i <= Len(s)) /\ (Len(s) + i) - Len(s) = i
    BY <1>1
  <2> QED BY <1>2, <1>3, <2>1
<1>6. ASSUME NEW i \in DOMAIN j
      PROVE  \/ i \in 1 .. Len(s) /\ j[i] = s[i]
             \/ i - Len(s) \in 1 .. Len(t) /\ j[i] = t[i - Len(s)]
  BY <1>1, <1>2, <1>3
<1>7. ToSet(j) = ToSet(s) \cup ToSet(t)
  <2>1. ASSUME NEW x \in ToSet(j)
        PROVE  x \in ToSet(s) \cup ToSet(t)
    BY <1>1, <1>6 DEF ToSet
  <2>2. ASSUME NEW x \in ToSet(s) \cup ToSet(t)
        PROVE  x \in ToSet(j)
    BY <1>1, <1>4, <1>5 DEF ToSet
  <2> QED BY <2>1, <2>2
<1>8. ASSUME IsInjective(s), IsInjective(t), ToSet(s) \cap ToSet(t) = {}
      PROVE  IsInjective(j)
  <2> SUFFICES ASSUME NEW a \in DOMAIN j, NEW b \in DOMAIN j, j[a] = j[b]
               PROVE  a = b
    BY DEF IsInjective
  <2>1. a \in Int /\ b \in Int
    BY <1>1, <1>3
  <2>2. ASSUME NEW c \in 1 .. Len(s), NEW d \in 1 .. Len(t)
        PROVE  s[c] # t[d]
    BY <1>1, <1>8 DEF ToSet
  <2>3. CASE a \in 1 .. Len(s) /\ j[a] = s[a] /\ b \in 1 .. Len(s) /\ j[b] = s[b]
    BY <1>1, <1>8, <2>3 DEF IsInjective
  <2>4. CASE /\ a - Len(s) \in 1 .. Len(t) /\ j[a] = t[a - Len(s)]
             /\ b - Len(s) \in 1 .. Len(t) /\ j[b] = t[b - Len(s)]
    <3>1. a - Len(s) = b - Len(s)
      BY <1>1, <1>8, <2>4 DEF IsInjective
    <3> QED BY <1>1, <2>1, <3>1
  <2> QED BY <1>6, <2>2, <2>3, <2>4
<1> QED BY <1>2, <1>7, <1>8 DEF j

\* FlattenSeq joins its sequences one by one.
LEMMA FlattenSteps ==
  ASSUME NEW S, NEW seqs \in Seq(Seq(S)), Len(seqs) # 0
  PROVE  \E g : /\ g[1] = seqs[1]
                /\ \A n \in 2 .. Len(seqs) : g[n] = g[n - 1] \o seqs[n]
                /\ FlattenSeq(seqs) = g[Len(seqs)]
<1> DEFINE N == Len(seqs)
           T == Seq(S)
           Equation(f) == f = [i \in 1 .. N |-> IF i = 1 THEN seqs[i]
                                                ELSE f[i - 1] \o seqs[i]]
           step == [p \in (1 .. N) \X T |-> p[2] \o seqs[p[1]]]
<1>1. N \in Nat \ {0} /\ \A n \in 1 .. N : seqs[n] \in T
  BY LenProperties, ElementOfSeq
<1>2. <<>> \in T /\ \A s, t \in T : s \o t \in T
  BY EmptySeq, ConcatProperties
<1>3. PICK f \in [0 .. N -> T] :
        f[0] = <<>> /\ \A n \in 1 .. N : f[n] = step[<<n, f[n - 1]>>]
  <2>1. step \in [(1 .. N) \X T -> T]
    BY <1>1, <1>2
  <2>2. StepsIn(T, <<>>, N, step)
    BY <1>1, <1>2, <2>1 DEF StepsIn
  <2> HIDE DEF step, N, T
  <2>3. PICK base, g : base = <<>> /\ g = step
    OBVIOUS
  <2>4. StepsIn(T, base, N, g)
    BY <2>2, <2>3
  <2>5. PICK f : Recurses(f, T, base, N, g)
    BY <2>4, RecursionExists
  <2> QED BY <2>3, <2>5 DEF Recurses
<1>4. ASSUME NEW n \in 1 .. N
      PROVE  f[n] = f[n - 1] \o seqs[n]
  <2>1. n - 1 \in 0 .. N
    BY <1>1
  <2>2. f[n - 1] \in T
    BY <1>3, <2>1
  <2> QED BY <1>3, <2>2
<1>5. f[1] = seqs[1]
  <2>1. 1 \in 1 .. N /\ 1 - 1 = 0
    BY <1>1
  <2>2. f[1] = <<>> \o seqs[1]
    BY <1>3, <1>4, <2>1
  <2> QED BY <1>1, <2>1, <2>2, ConcatEmptySeq
<1> DEFINE h == [i \in 1 .. N |-> f[i]]
<1>6. Equation(h)
  <2> DEFINE k == [i \in 1 .. N |-> IF i = 1 THEN seqs[i] ELSE h[i - 1] \o seqs[i]]
  <2>1. ASSUME NEW i \in 1 .. N
        PROVE  h[i] = k[i]
    <3>1. CASE i = 1
      BY <1>5, <3>1
    <3>2. CASE i # 1
      <4>1. i - 1 \in 1 .. N
        BY <1>1, <3>2
      <4> QED BY <1>4, <3>2, <4>1
    <3> QED BY <3>1, <3>2
  <2> HIDE DEF N
  <2>2. h = k
    BY <2>1
  <2> QED BY <2>2
<1> DEFINE flatten == CHOOSE g : Equation(g)
<1>7. Equation(flatten)
  <2> HIDE DEF Equation
  <2> QED BY <1>6
<1>8. FlattenSeq(seqs) = flatten[N]
  BY DEF FlattenSeq
<1> HIDE DEF flatten, step
<1>9. ASSUME NEW i \in 1 .. N
      PROVE  flatten[i] = IF i = 1 THEN seqs[i] ELSE flatten[i - 1] \o seqs[i]
  BY <1>7
<1>10. /\ 1 \in 1 .. N
       /\ \A n \in 2 .. N : n \in 1 .. N /\ n # 1
  BY <1>1
<1> HIDE DEF N
<1>11. flatten[1] = seqs[1] /\ \A n \in 2 .. N : flatten[n] = flatten[n - 1] \o seqs[n]
  BY <1>9, <1>10
<1> QED BY <1>8, <1>11 DEF N

\* FlattenSeq joins the elements of its sequences, and keeps them apart if they
\* were, within each sequence and between them.
LEMMA FlattenFacts ==
  ASSUME NEW S, NEW seqs \in Seq(Seq(S))
  PROVE  /\ FlattenSeq(seqs) \in Seq(S)
         /\ ToSet(FlattenSeq(seqs)) = UNION {ToSet(seqs[k]) : k \in 1 .. Len(seqs)}
         /\ /\ \A k \in 1 .. Len(seqs) : IsInjective(seqs[k])
            /\ \A j, k \in 1 .. Len(seqs) : j # k => ToSet(seqs[j]) \cap ToSet(seqs[k]) = {}
            => IsInjective(FlattenSeq(seqs))
<1> DEFINE N == Len(seqs)
           Set(n) == UNION {ToSet(seqs[k]) : k \in 1 .. n}
           Apart == /\ \A k \in 1 .. N : IsInjective(seqs[k])
                    /\ \A j, k \in 1 .. N : j # k => ToSet(seqs[j]) \cap ToSet(seqs[k]) = {}
<1>1. N \in Nat /\ \A n \in 1 .. N : seqs[n] \in Seq(S)
  BY LenProperties, ElementOfSeq
<1>2. CASE N = 0
  <2>1. FlattenSeq(seqs) = seqs /\ seqs = <<>>
    BY <1>2, EmptySeq, LenProperties DEF FlattenSeq
  <2>2. DOMAIN seqs = 1 .. 0 /\ 1 .. N = {} /\ 1 .. 0 = {}
    BY <1>2, LenProperties
  <2>3. FlattenSeq(seqs) \in Seq(S) /\ ToSet(seqs) = {} /\ IsInjective(seqs)
    BY <2>1, <2>2, EmptySeq DEF ToSet, IsInjective
  <2> QED BY <2>1, <2>2, <2>3
<1>3. CASE N # 0
  <2>1. PICK g : /\ g[1] = seqs[1]
                 /\ \A n \in 2 .. N : g[n] = g[n - 1] \o seqs[n]
                 /\ FlattenSeq(seqs) = g[N]
    BY <1>3, FlattenSteps
  <2> DEFINE Good(n) == /\ g[n] \in Seq(S)
                        /\ ToSet(g[n]) = Set(n)
                        /\ Apart => IsInjective(g[n])
             Bad == {n \in 1 .. N : ~Good(n)}
  <2>2. Bad = {}
    <3>1. SUFFICES ASSUME Bad # {}
                   PROVE  FALSE
      OBVIOUS
    <3>2. PICK n \in Bad : \A j \in Bad : n <= j
      <4>1. Bad \in SUBSET Nat
        OBVIOUS
      <4> HIDE DEF Bad
      <4> QED BY <3>1, <4>1, LeastNatural
    <3>3. n \in 1 .. N /\ ~Good(n)
      BY <3>2
    <3>4. n # 1
      <4>1. 1 .. 1 = {1} /\ 1 \in 1 .. N
        BY <1>1, <1>3
      <4>2. Set(1) = ToSet(seqs[1])
        BY <4>1
      <4>3. Good(1)
        BY <1>1, <2>1, <4>1, <4>2
      <4> QED BY <3>3, <4>3
    <3>5. /\ n \in 2 .. N /\ n - 1 \in 1 .. N /\ ~(n <= n - 1)
          /\ 1 .. n = (1 .. n - 1) \cup {n}
          /\ \A k \in 1 .. n - 1 : k \in 1 .. N /\ k # n
      BY <1>1, <3>3, <3>4
    <3>6. Good(n - 1)
      BY <3>2, <3>5
    <3>7. g[n] = g[n - 1] \o seqs[n] /\ seqs[n] \in Seq(S) /\ g[n - 1] \in Seq(S)
      BY <1>1, <2>1, <3>3, <3>5, <3>6
    <3>8. Set(n) = Set(n - 1) \cup ToSet(seqs[n])
      BY <3>5
    <3>9. g[n] \in Seq(S) /\ ToSet(g[n]) = Set(n)
      BY <3>6, <3>7, <3>8, ConcatFacts
    <3>10. ASSUME Apart
           PROVE  IsInjective(g[n])
      <4>1. Set(n - 1) \cap ToSet(seqs[n]) = {}
        <5>1. ASSUME NEW x \in Set(n - 1), x \in ToSet(seqs[n])
              PROVE  FALSE
          <6>1. PICK k \in 1 .. n - 1 : x \in ToSet(seqs[k])
            BY <5>1
          <6>2. ToSet(seqs[k]) \cap ToSet(seqs[n]) = {}
            BY <3>3, <3>5, <3>10
          <6> QED BY <5>1, <6>1, <6>2
        <5> HIDE DEF Set
        <5> QED BY <5>1
      <4>2. IsInjective(seqs[n]) /\ IsInjective(g[n - 1])
        BY <3>3, <3>6, <3>10
      <4>3. ToSet(g[n - 1]) \cap ToSet(seqs[n]) = {}
        BY <3>6, <4>1
      <4> QED BY <3>7, <4>2, <4>3, ConcatFacts
    <3> QED BY <3>3, <3>9, <3>10
  <2>3. Good(N)
    <3>1. N \in 1 .. N
      BY <1>1, <1>3
    <3> QED BY <2>2, <3>1
  <2> QED BY <2>1, <2>3
<1> QED BY <1>2, <1>3


\* Taking the first element leaves the others, in order.
LEMMA TailFacts ==
  ASSUME NEW S, NEW s \in Seq(S), s # <<>>
  PROVE  /\ Len(s) \in Nat \ {0} /\ DOMAIN s = 1 .. Len(s)
         /\ Head(s) = s[1] /\ Head(s) \in S
         /\ Tail(s) \in Seq(S) /\ Len(Tail(s)) = Len(s) - 1
         /\ DOMAIN Tail(s) = 1 .. Len(s) - 1
         /\ \A i \in 1 .. Len(s) - 1 : Tail(s)[i] = s[i + 1]
         /\ ToSet(s) = {Head(s)} \cup ToSet(Tail(s))
         /\ IsInjective(s) => IsInjective(Tail(s)) /\ Head(s) \notin ToSet(Tail(s))
<1>1. /\ Len(s) \in Nat \ {0} /\ DOMAIN s = 1 .. Len(s)
      /\ Head(s) = s[1] /\ Head(s) \in S
      /\ Tail(s) \in Seq(S) /\ Len(Tail(s)) = Len(s) - 1
      /\ \A i \in 1 .. Len(s) - 1 : Tail(s)[i] = s[i + 1]
  <2>1. Len(s) \in Nat /\ Len(s) # 0 /\ DOMAIN s = 1 .. Len(s)
    BY EmptySeq, LenProperties
  <2>2. Head(s) \in S /\ Tail(s) \in Seq(S)
    BY HeadTailProperties
  <2>3. Len(Tail(s)) = Len(s) - 1 /\ \A i \in 1 .. Len(Tail(s)) : Tail(s)[i] = s[i + 1]
    BY HeadTailProperties
  <2>4. Head(s) = s[1]
    BY DEF Head
  <2> QED BY <2>1, <2>2, <2>3, <2>4
<1>2. DOMAIN Tail(s) = 1 .. Len(s) - 1
  BY <1>1, LenProperties
<1> DEFINE t == Tail(s)
<1> HIDE DEF t
<1>3. ASSUME NEW i \in 1 .. Len(s)
      PROVE  s[i] \in {Head(s)} \cup ToSet(t)
  <2>1. CASE i = 1
    BY <1>1, <2>1
  <2>2. CASE i # 1
    <3>1. i - 1 \in 1 .. Len(s) - 1 /\ (i - 1) + 1 = i
      BY <1>1, <2>2
    <3>2. t[i - 1] = s[i]
      BY <1>1, <3>1 DEF t
    <3> QED BY <1>2, <3>1, <3>2 DEF ToSet, t
  <2> QED BY <2>1, <2>2
<1>4. ASSUME NEW i \in 1 .. Len(s) - 1
      PROVE  i + 1 \in 1 .. Len(s) /\ i + 1 # 1 /\ t[i] = s[i + 1]
  BY <1>1 DEF t
<1>5. ToSet(s) = {Head(s)} \cup ToSet(t)
  <2>1. ToSet(t) \subseteq ToSet(s)
    BY <1>1, <1>2, <1>4 DEF ToSet, t
  <2>2. Head(s) \in ToSet(s)
    <3>1. 1 \in DOMAIN s
      BY <1>1
    <3> QED BY <1>1, <3>1 DEF ToSet
  <2> QED BY <1>1, <1>3, <2>1, <2>2 DEF ToSet
<1>6. ASSUME IsInjective(s)
      PROVE  IsInjective(t) /\ Head(s) \notin ToSet(t)
  <2>1. \A i, j \in 1 .. Len(s) : s[i] = s[j] => i = j
    BY <1>1, <1>6 DEF IsInjective
  <2>2. Head(s) \notin ToSet(t)
    <3> SUFFICES ASSUME NEW i \in 1 .. Len(s) - 1, t[i] = s[1]
                 PROVE  FALSE
      BY <1>1, <1>2 DEF ToSet, t
    <3>1. 1 \in 1 .. Len(s)
      BY <1>1
    <3> QED BY <1>4, <2>1, <3>1
  <2>3. ASSUME NEW i \in 1 .. Len(s) - 1, NEW j \in 1 .. Len(s) - 1, t[i] = t[j]
        PROVE  i = j
    <3>1. i + 1 = j + 1
      BY <1>4, <2>1, <2>3
    <3> QED BY <1>1, <3>1
  <2> QED BY <1>2, <2>2, <2>3 DEF IsInjective, t
<1> QED BY <1>1, <1>2, <1>5, <1>6 DEF t

============================================================================
