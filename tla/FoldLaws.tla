-------------------------------- MODULE FoldLaws --------------------------------
(***************************************************************************)
(* What folding an operator over a sequence computes, for any operator and *)
(* any sequence.  An instance of this module gives the laws of one         *)
(* operator: I == INSTANCE FoldLaws WITH op <- ...                         *)
(*                                                                         *)
(* Induction is by sets: a set that holds 0 and the successor of each of   *)
(* its numbers holds every number, since the complement would have a least *)
(* element.                                                                *)
(***************************************************************************)
EXTENDS Folds, FiniteSetTheorems, SequenceTheorems, TLAPS

CONSTANT op(_, _)   \* adds an element to what is accumulated
-------------------------------------------------------------------------------
(* Induction *)

\* A set of numbers has a least one: its initial segments are ordered by inclusion.
LEMMA LeastNumber ==
  ASSUME NEW S \in SUBSET Nat, S # {}
  PROVE  \E m \in S : \A k \in S : m <= k
<1> DEFINE T == {0 .. k : k \in S}
<1>1. T \subseteq FiniteSubsetsOf(Nat)
  <2>1. ASSUME NEW k \in S PROVE IsFiniteSet(0 .. k) /\ 0 .. k \in SUBSET Nat
    BY FS_Interval
  <2>2. QED
    BY <2>1 DEF FiniteSubsetsOf
<1>2. PICK x \in T : \A y \in T : ~ (<<y, x>> \in StrictSubsetOrdering(Nat))
  <2>1. T # {}
    OBVIOUS
  <2> HIDE DEF T
  <2>2. QED
    BY <1>1, <2>1, WFMin, FS_StrictSubsetOrderingWellFounded
<1>3. PICK m \in S : x = 0 .. m
  OBVIOUS
<1>4. ASSUME NEW k \in S, k < m PROVE FALSE
  <2>1. /\ 0 .. k \in T /\ 0 .. k \subseteq 0 .. m
        /\ m \in 0 .. m /\ m \notin 0 .. k
        /\ 0 .. k \in SUBSET Nat /\ 0 .. m \in SUBSET Nat
    BY <1>4
  <2>2. <<0 .. k, 0 .. m>> \in StrictSubsetOrdering(Nat)
    BY <2>1 DEF StrictSubsetOrdering
  <2>3. QED
    BY <1>2, <1>3, <2>1, <2>2
<1>5. QED
  BY <1>3, <1>4

LEMMA NumberInduction ==
  ASSUME NEW Q, 0 \in Q, \A n \in Nat : n \in Q => n + 1 \in Q
  PROVE  Nat \subseteq Q
<1>1. SUFFICES ASSUME Nat \ Q # {} PROVE FALSE
  OBVIOUS
<1>2. PICK m \in Nat \ Q : \A k \in Nat \ Q : m <= k
  BY <1>1, LeastNumber
<1>3. m - 1 \in Nat /\ m - 1 \notin Nat \ Q
  BY <1>2
<1>4. QED
  BY <1>2, <1>3

\* A set that holds the empty sequence and, with a sequence, what can be appended
\* to it holds every sequence.
LEMMA SequenceInduction ==
  ASSUME NEW S, NEW Q, <<>> \in Q,
         \A s \in Seq(S), e \in S : s \in Q => Append(s, e) \in Q
  PROVE  Seq(S) \subseteq Q
<1> DEFINE N == {n \in Nat : \A s \in Seq(S) : Len(s) = n => s \in Q}
<1>1. 0 \in N
  BY EmptySeq
<1>2. ASSUME NEW n \in Nat, n \in N PROVE n + 1 \in N
  <2>1. SUFFICES ASSUME NEW s \in Seq(S), Len(s) = n + 1 PROVE s \in Q
    OBVIOUS
  <2>2. s # <<>>
    BY <2>1, EmptySeq
  <2>3. PICK r \in Seq(S), e \in S : s = Append(r, e)
    BY <2>2, SequenceEmptyOrAppend
  <2>4. Len(r) = n
    BY <2>1, <2>3, AppendProperties, LenProperties
  <2>5. QED
    BY <1>2, <2>3, <2>4
<1>3. Nat \subseteq N
  <2> HIDE DEF N
  <2>1. QED
    BY <1>1, <1>2, NumberInduction
<1>4. QED
  BY <1>3, LenProperties
-------------------------------------------------------------------------------
(* The recursion behind FoldLeft *)

\* The fold, as an operator that an instance has.
Greatest(S) == CHOOSE m \in S : \A x \in S : m >= x
Folded(a, s) ==
  MapThenFoldSet(LAMBDA x, y : op(y, x), a, LAMBDA i : s[i], LAMBDA S : Greatest(S), DOMAIN s)

\* it[s] is the fold over the elements of f at the indices in s.
Iterates(it, n, a, f) ==
  it = [s \in SUBSET (1 .. n) |->
          IF s = {} THEN a ELSE op(it[s \ {Greatest(s)}], f[Greatest(s)])]

LEMMA GreatestOfPrefix ==
  ASSUME NEW n \in Nat, NEW s \in SUBSET (1 .. n), n \in s
  PROVE  Greatest(s) = n
<1>1. \A x \in s : n >= x
  OBVIOUS
<1>2. \A m \in s : (\A x \in s : m >= x) => m = n
  BY <1>1
<1>3. Greatest(s) = CHOOSE m \in s : \A x \in s : m >= x
  BY DEF Greatest
<1>4. QED
  BY <1>1, <1>2, <1>3

LEMMA IterationExists ==
  ASSUME NEW a, NEW f
  PROVE  \A n \in Nat : \E it : Iterates(it, n, a, f)
<1> DEFINE Q == {n \in Nat : \E it : Iterates(it, n, a, f)}
<1>1. 0 \in Q
  <2>1. SUBSET (1 .. 0) = {{}}
    OBVIOUS
  <2>2. Iterates([s \in SUBSET (1 .. 0) |-> a], 0, a, f)
    BY <2>1 DEF Iterates
  <2>3. QED
    BY <2>2
<1>2. ASSUME NEW n \in Nat, n \in Q PROVE n + 1 \in Q
  <2>1. PICK it : Iterates(it, n, a, f)
    BY <1>2
  <2> DEFINE jt == [s \in SUBSET (1 .. n + 1) |->
                      IF n + 1 \in s THEN op(it[s \ {n + 1}], f[n + 1]) ELSE it[s]]
  <2>2. ASSUME NEW s \in SUBSET (1 .. n + 1)
        PROVE  jt[s] = IF s = {} THEN a ELSE op(jt[s \ {Greatest(s)}], f[Greatest(s)])
    <3>1. CASE n + 1 \in s
      <4>1. Greatest(s) = n + 1
        BY <3>1, GreatestOfPrefix
      <4>2. s \ {n + 1} \in SUBSET (1 .. n + 1) /\ n + 1 \notin s \ {n + 1}
        OBVIOUS
      <4>3. QED
        BY <3>1, <4>1, <4>2
    <3>2. CASE n + 1 \notin s
      <4>1. s \in SUBSET (1 .. n)
        BY <3>2
      <4>2. jt[s] = it[s] /\ jt[s \ {Greatest(s)}] = it[s \ {Greatest(s)}]
        BY <3>2
      <4>3. QED
        BY <2>1, <4>1, <4>2 DEF Iterates
    <3>3. QED
      BY <3>1, <3>2
  <2>3. Iterates(jt, n + 1, a, f)
    <3>1. jt = [s \in SUBSET (1 .. n + 1) |-> jt[s]]
      OBVIOUS
    <3> HIDE DEF jt
    <3>2. QED
      BY <2>2, <3>1 DEF Iterates
  <2>4. QED
    BY <2>3
<1>3. Nat \subseteq Q
  <2> HIDE DEF Q
  <2>1. QED
    BY <1>1, <1>2, NumberInduction
<1>4. QED
  BY <1>3

\* Over the first indices, two iterations agree if the elements do.
LEMMA IterationsAgree ==
  ASSUME NEW a, NEW f, NEW g, NEW n \in Nat, NEW k \in Nat, NEW it, NEW jt,
         Iterates(it, n, a, f), Iterates(jt, k, a, g),
         NEW l \in Nat, l <= n, l <= k, \A i \in 1 .. l : f[i] = g[i]
  PROVE  it[1 .. l] = jt[1 .. l]
<1> DEFINE Agree(m) == m <= n /\ m <= k /\ (\A i \in 1 .. m : f[i] = g[i]) =>
                         \A s \in SUBSET (1 .. m) : it[s] = jt[s]
           Q == {m \in Nat : Agree(m)}
<1>1. /\ \A s \in SUBSET (1 .. n) :
           it[s] = IF s = {} THEN a ELSE op(it[s \ {Greatest(s)}], f[Greatest(s)])
      /\ \A s \in SUBSET (1 .. k) :
           jt[s] = IF s = {} THEN a ELSE op(jt[s \ {Greatest(s)}], g[Greatest(s)])
  BY DEF Iterates
<1>2. 0 \in Q
  <2>1. SUFFICES ASSUME NEW s \in SUBSET (1 .. 0) PROVE it[s] = jt[s]
    OBVIOUS
  <2>2. s = {} /\ {} \in SUBSET (1 .. n) /\ {} \in SUBSET (1 .. k)
    OBVIOUS
  <2>3. QED
    BY <1>1, <2>2
<1>3. ASSUME NEW m \in Nat, m \in Q PROVE m + 1 \in Q
  <2>1. SUFFICES ASSUME m + 1 <= n, m + 1 <= k, \A i \in 1 .. m + 1 : f[i] = g[i],
                        NEW s \in SUBSET (1 .. m + 1)
                 PROVE  it[s] = jt[s]
    OBVIOUS
  <2>2. \A r \in SUBSET (1 .. m) : it[r] = jt[r]
    BY <1>3, <2>1
  <2>3. CASE m + 1 \in s
    <3>1. Greatest(s) = m + 1
      BY <2>3, GreatestOfPrefix
    <3>2. s \ {m + 1} \in SUBSET (1 .. m) /\ s \in SUBSET (1 .. n) /\ s \in SUBSET (1 .. k)
      BY <2>1
    <3>3. it[s] = op(it[s \ {m + 1}], f[m + 1]) /\ jt[s] = op(jt[s \ {m + 1}], g[m + 1])
      BY <1>1, <2>3, <3>1, <3>2
    <3>4. QED
      BY <2>1, <2>2, <3>2, <3>3
  <2>4. CASE m + 1 \notin s
    <3>1. s \in SUBSET (1 .. m)
      BY <2>4
    <3>2. QED
      BY <2>2, <3>1
  <2>5. QED
    BY <2>3, <2>4
<1>4. Nat \subseteq Q
  <2> HIDE DEF Q
  <2>1. QED
    BY <1>2, <1>3, NumberInduction
<1>5. Agree(l) /\ 1 .. l \in SUBSET (1 .. l)
  BY <1>4
<1>6. QED
  BY <1>5

LEMMA PrefixAgrees ==
  ASSUME NEW a, NEW f, NEW g, NEW n \in Nat, NEW it, NEW jt,
         Iterates(it, n, a, f), Iterates(jt, n + 1, a, g), \A i \in 1 .. n : f[i] = g[i]
  PROVE  it[1 .. n] = jt[1 .. n]
<1>1. PICK k \in Nat : k = n + 1
  OBVIOUS
<1>2. Iterates(jt, k, a, g)
  BY <1>1
<1>3. n <= n /\ n <= k
  BY <1>1
<1>4. QED
  BY <1>2, <1>3, IterationsAgree

LEMMA FoldIterates ==
  ASSUME NEW a, NEW S, NEW s \in Seq(S)
  PROVE  \E it : Iterates(it, Len(s), a, s) /\ Folded(a, s) = it[1 .. Len(s)]
<1> DEFINE P(it) == it = [r \in SUBSET (DOMAIN s) |->
                            IF r = {} THEN a ELSE op(it[r \ {Greatest(r)}], s[Greatest(r)])]
<1>1. DOMAIN s = 1 .. Len(s) /\ Len(s) \in Nat
  BY LenProperties
<1>2. Folded(a, s) = (CHOOSE it : P(it))[DOMAIN s]
  BY DEF Folded, MapThenFoldSet
<1>3. \A it : P(it) <=> Iterates(it, Len(s), a, s)
  BY <1>1 DEF Iterates
<1>4. \E it : P(it)
  BY <1>1, <1>3, IterationExists
<1>5. P(CHOOSE it : P(it))
  <2> HIDE DEF P
  <2>1. QED
    BY <1>4
<1>6. QED
  BY <1>1, <1>2, <1>3, <1>5
-------------------------------------------------------------------------------
(* The laws *)

\* Folding over nothing leaves what was there.
THEOREM FoldEmpty ==
  ASSUME NEW a
  PROVE  Folded(a, <<>>) = a
<1>1. PICK it : Iterates(it, Len(<<>>), a, <<>>) /\ Folded(a, <<>>) = it[1 .. Len(<<>>)]
  <2>1. <<>> \in Seq({})
    BY EmptySeq
  <2>2. QED
    BY <2>1, FoldIterates
<1>2. QED
  BY <1>1, EmptySeq DEF Iterates

\* The last element is added last.
THEOREM FoldAppend ==
  ASSUME NEW a, NEW S, NEW s \in Seq(S), NEW e \in S
  PROVE  Folded(a, Append(s, e)) = op(Folded(a, s), e)
<1> DEFINE t == Append(s, e)
           n == Len(s)
<1>1. /\ n \in Nat /\ t \in Seq(S) /\ Len(t) = n + 1
      /\ t[n + 1] = e /\ \A i \in 1 .. n : s[i] = t[i]
  BY AppendProperties, LenProperties
<1>2. PICK it : Iterates(it, n, a, s) /\ Folded(a, s) = it[1 .. n]
  BY FoldIterates
<1>3. PICK jt : Iterates(jt, n + 1, a, t) /\ Folded(a, t) = jt[1 .. n + 1]
  <2> HIDE DEF t
  <2>1. QED
    BY <1>1, FoldIterates
<1> HIDE DEF t, n
<1>4. it[1 .. n] = jt[1 .. n]
  BY <1>1, <1>2, <1>3, PrefixAgrees
<1>5. jt[1 .. n + 1] = op(jt[1 .. n], e)
  <2>1. Greatest(1 .. n + 1) = n + 1
    BY <1>1, GreatestOfPrefix
  <2>2. (1 .. n + 1) \ {n + 1} = 1 .. n /\ n + 1 \in 1 .. n + 1
    BY <1>1
  <2>3. QED
    BY <1>1, <1>3, <2>1, <2>2 DEF Iterates
<1>6. QED
  BY <1>2, <1>3, <1>4, <1>5 DEF t

\* A fold stays in a set that each addition stays in.
THEOREM FoldType ==
  ASSUME NEW D, NEW S, \A x \in D, e \in S : op(x, e) \in D,
         NEW a \in D
  PROVE  \A s \in Seq(S) : Folded(a, s) \in D
<1> DEFINE Q == {s \in Seq(S) : Folded(a, s) \in D}
<1>1. <<>> \in Q
  BY FoldEmpty, EmptySeq
<1>2. ASSUME NEW s \in Seq(S), NEW e \in S, s \in Q PROVE Append(s, e) \in Q
  BY <1>2, FoldAppend, AppendProperties
<1>3. Seq(S) \subseteq Q
  <2> HIDE DEF Q
  <2>1. QED
    BY <1>1, <1>2, SequenceInduction
<1>4. QED
  BY <1>3

\* Two folds over the same sequence stay related if each addition keeps the relation.
THEOREM FoldRelates ==
  ASSUME NEW R, NEW S, NEW a, NEW b, <<a, b>> \in R,
         \A x, y : <<x, y>> \in R => \A e \in S : <<op(x, e), op(y, e)>> \in R
  PROVE  \A s \in Seq(S) : <<Folded(a, s), Folded(b, s)>> \in R
<1> DEFINE Q == {s \in Seq(S) : <<Folded(a, s), Folded(b, s)>> \in R}
<1>1. <<>> \in Q
  BY FoldEmpty, EmptySeq
<1>2. ASSUME NEW s \in Seq(S), NEW e \in S, s \in Q PROVE Append(s, e) \in Q
  BY <1>2, FoldAppend, AppendProperties
<1>3. Seq(S) \subseteq Q
  <2> HIDE DEF Q
  <2>1. QED
    BY <1>1, <1>2, SequenceInduction
<1>4. QED
  BY <1>3

\* Folding over a concatenation is folding over one part and going on with the other.
THEOREM FoldConcat ==
  ASSUME NEW a, NEW S, NEW s \in Seq(S)
  PROVE  \A t \in Seq(S) : Folded(a, s \o t) = Folded(Folded(a, s), t)
<1> DEFINE b == Folded(a, s)
           Q == {t \in Seq(S) : Folded(a, s \o t) = Folded(b, t)}
<1>1. <<>> \in Q
  BY FoldEmpty, EmptySeq, ConcatEmptySeq
<1>2. ASSUME NEW t \in Seq(S), NEW e \in S, t \in Q PROVE Append(t, e) \in Q
  <2>1. s \o Append(t, e) = Append(s \o t, e)
    OBVIOUS
  <2>2. s \o t \in Seq(S)
    BY ConcatProperties
  <2>3. Folded(a, Append(s \o t, e)) = op(Folded(a, s \o t), e)
    BY <2>2, FoldAppend
  <2>4. Folded(b, Append(t, e)) = op(Folded(b, t), e)
    BY FoldAppend
  <2>5. QED
    BY <1>2, <2>1, <2>3, <2>4, AppendProperties
<1>3. Seq(S) \subseteq Q
  <2> HIDE DEF Q
  <2>1. QED
    BY <1>1, <1>2, SequenceInduction
<1>4. QED
  BY <1>3
=================================================================================
