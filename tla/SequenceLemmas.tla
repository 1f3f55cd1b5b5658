---------------------------- MODULE SequenceLemmas ----------------------------
(***************************************************************************)
(* What recursive definitions over sequences compute, for every sequence:  *)
(* Keep, and FlattenSeq of the community modules.                          *)
(*                                                                         *)
(* The library states induction for an operator P(_), which the provers    *)
(* cannot instantiate. Here it is stated for a set: a set of numbers that  *)
(* holds 0 and with each number the next is Nat (Counting), and likewise   *)
(* for sequences (Growing). Both rest on the least element of a set of     *)
(* numbers, which is the least of the intervals 1..n under inclusion, and  *)
(* so does the well-founded order of tuples (LexBelow).                    *)
(***************************************************************************)
EXTENDS Filtering, SequencesExt, SequenceTheorems, FiniteSetTheorems, WellFoundedInduction, TLAPS

-------------------------------------------------------------------------------
(* Induction *)

LEMMA LeastOf ==
  ASSUME NEW T \in SUBSET Nat, T # {}
  PROVE  \E n \in T : \A m \in T : n <= m
<1> DEFINE Initial == {1..n : n \in T}
           Smaller == StrictSubsetOrdering(Nat)
<1>1. Initial \subseteq FiniteSubsetsOf(Nat) /\ Initial # {}
  <2>1. ASSUME NEW n \in T
        PROVE  1..n \in FiniteSubsetsOf(Nat)
    <3>1. IsFiniteSet(1..n)
      BY FS_Interval
    <3> QED
      BY <3>1 DEF FiniteSubsetsOf
  <2> QED
    BY <2>1
<1>2. PICK I \in Initial : \A J \in Initial : ~(<<J, I>> \in Smaller)
  <2> HIDE DEF Initial, Smaller
  <2>1. IsWellFoundedOn(Smaller, FiniteSubsetsOf(Nat))
    BY FS_StrictSubsetOrderingWellFounded DEF Smaller
  <2> QED
    BY <1>1, <2>1, WFMin
<1>3. PICK n \in T : I = 1..n
  OBVIOUS
<1>4. ASSUME NEW m \in T, m < n
      PROVE  FALSE
  <2>1. /\ 1..m \in Initial /\ 1..m \in SUBSET Nat /\ 1..n \in SUBSET Nat
        /\ 1..m \subseteq 1..n /\ n \in 1..n /\ n \notin 1..m
    BY <1>4
  <2>2. <<1..m, 1..n>> \in Smaller
    BY <2>1 DEF StrictSubsetOrdering
  <2> QED
    BY <1>2, <1>3, <2>1, <2>2
<1> QED
  BY <1>4

\* Below orders numbers, and LexBelow(n) tuples of n numbers by the first place where
\* they differ. There is no infinite descent in either.
Below == {p \in Nat \X Nat : p[1] < p[2]}
LexBelow(n) == LexProductOrdering(Below, Nat, n)

LEMMA BelowWellFounded == IsWellFoundedOn(Below, Nat)
<1>1. ASSUME NEW T \in SUBSET Nat, T # {}
      PROVE  \E x \in T : \A y \in T : ~(<<y, x>> \in Below)
  <2>1. PICK x \in T : \A y \in T : x <= y
    BY <1>1, LeastOf
  <2>2. ASSUME NEW y \in T
        PROVE  ~(<<y, x>> \in Below)
    <3>1. x \in Nat /\ y \in Nat /\ x <= y
      BY <2>1
    <3> QED
      BY <3>1 DEF Below
  <2> QED
    BY <2>2
<1> HIDE DEF Below
<1> QED
  BY <1>1, MinWF

LEMMA LexBelowWellFounded ==
  ASSUME NEW n \in Nat
  PROVE  IsWellFoundedOn(LexBelow(n), [1..n -> Nat])
  BY BelowWellFounded, WFLexProductOrdering DEF LexBelow

LEMMA LexBelowAt ==
  ASSUME NEW n \in Nat, NEW a \in [1..n -> Nat], NEW b \in [1..n -> Nat], NEW j \in 1..n,
         \A i \in 1..(j - 1) : a[i] = b[i], a[j] < b[j]
  PROVE  <<a, b>> \in LexBelow(n)
<1>1. a[j] \in Nat /\ b[j] \in Nat
  OBVIOUS
<1>2. <<a[j], b[j]>> \in Below
  BY <1>1 DEF Below
<1> QED
  BY <1>2 DEF LexBelow, LexProductOrdering

LEMMA Counting ==
  ASSUME NEW P \in SUBSET Nat, 0 \in P, \A n \in P : n + 1 \in P
  PROVE  P = Nat
<1> SUFFICES ASSUME Nat \ P # {}
             PROVE  FALSE
  OBVIOUS
<1>1. PICK n \in Nat \ P : \A m \in Nat \ P : n <= m
  BY LeastOf
<1>2. n # 0 /\ n - 1 \in Nat /\ n - 1 \in P
  BY <1>1
<1> QED
  BY <1>2

LEMMA Growing ==
  ASSUME NEW S, NEW P \in SUBSET Seq(S), <<>> \in P,
         \A s \in P : \A e \in S : Append(s, e) \in P
  PROVE  P = Seq(S)
<1> DEFINE Lengths == {n \in Nat : \A s \in Seq(S) : Len(s) = n => s \in P}
<1>1. 0 \in Lengths
  BY EmptySeq
<1>2. ASSUME NEW n \in Lengths
      PROVE  n + 1 \in Lengths
  <2>1. ASSUME NEW s \in Seq(S), Len(s) = n + 1
        PROVE  s \in P
    <3>0. s # <<>>
      BY <2>1
    <3>1. PICK r \in Seq(S), e \in S : s = Append(r, e)
      BY <3>0, SequenceEmptyOrAppend
    <3>2. Len(r) = n
      BY <2>1, <3>1, AppendProperties
    <3> QED
      BY <3>1, <3>2
  <2> QED
    BY <2>1
<1>3. Lengths = Nat
  <2> HIDE DEF Lengths
  <2> QED
    BY <1>1, <1>2, Counting DEF Lengths
<1> QED
  BY <1>3, LenProperties

Iterates(g, base, step, n) ==
    g[0] = base /\ \A k \in 1..n : g[k] = step[<<k, g[k - 1]>>]

\* A function that is defined by its value at 0 and by a step exists.
LEMMA Recursion ==
  ASSUME NEW V, NEW base \in V, NEW n \in Nat, NEW step \in [(1..n) \X V -> V]
  PROVE  \E g \in [0..n -> V] : Iterates(g, base, step, n)
<1> DEFINE Defined(g, m) == g[0] = base /\ \A k \in 1..m : g[k] = step[<<k, g[k - 1]>>]
           P == {m \in Nat : m <= n => \E g \in [0..m -> V] : Defined(g, m)}
<1>1. 0 \in P
  <2>1. [k \in 0..0 |-> base] \in [0..0 -> V] /\ Defined([k \in 0..0 |-> base], 0)
    OBVIOUS
  <2> QED
    BY <2>1
<1>2. ASSUME NEW m \in Nat, m + 1 <= n, NEW g \in [0..m -> V], Defined(g, m)
      PROVE  \E h \in [0..(m + 1) -> V] : Defined(h, m + 1)
  <2> HIDE DEF P
  <2> DEFINE h == [k \in 0..(m + 1) |-> IF k <= m THEN g[k] ELSE step[<<m + 1, g[m]>>]]
  <2>1. step[<<m + 1, g[m]>>] \in V
    BY <1>2
  <2>2. h \in [0..(m + 1) -> V]
    BY <2>1
  <2>3. ASSUME NEW k \in 1..(m + 1)
        PROVE  h[k] = step[<<k, h[k - 1]>>]
    <3>1. CASE k = m + 1
      <4>1. k - 1 = m /\ m \in 0..(m + 1) /\ k \in 0..(m + 1) /\ ~(k <= m)
        BY <3>1
      <4>2. h[k - 1] = g[m] /\ h[k] = step[<<m + 1, g[m]>>]
        BY <4>1
      <4> QED
        BY <3>1, <4>1, <4>2
    <3>2. CASE k # m + 1
      <4>1. k \in 1..m /\ k - 1 \in 0..m
        BY <3>2
      <4>2. h[k] = g[k] /\ h[k - 1] = g[k - 1]
        BY <4>1
      <4> QED
        BY <1>2, <4>1, <4>2
    <3> QED
      BY <3>1, <3>2
  <2>4. h[0] = base
    BY <1>2
  <2> QED
    BY <2>2, <2>3, <2>4
<1>3. \A m \in P : m + 1 \in P
  BY <1>2
<1>4. P = Nat
  <2> HIDE DEF P
  <2> QED
    BY <1>1, <1>3, Counting DEF P
<1>5. \E g \in [0..n -> V] : Defined(g, n)
  <2>1. n \in P
    <3> HIDE DEF P
    <3> QED
      BY <1>4
  <2>2. n <= n
    OBVIOUS
  <2> HIDE DEF Defined
  <2> QED
    BY <2>1, <2>2
<1> QED
  BY <1>5 DEF Iterates

-------------------------------------------------------------------------------
(* Keep *)

KeepsOf(g, s, T) ==
    g[0] = <<>> /\ \A k \in 1..Len(s) :
                      g[k] = IF s[k] \in T THEN Append(g[k - 1], s[k]) ELSE g[k - 1]

\* The equations of the function Keep is defined by.
LEMMA KeepDef ==
  ASSUME NEW S, NEW s \in Seq(S), NEW T
  PROVE  \E g \in [0..Len(s) -> Seq(S)] : Keep(s, T) = g[Len(s)] /\ KeepsOf(g, s, T)
<1> DEFINE n == Len(s)
           Def(g) == [k \in 0..n |-> IF k = 0 THEN <<>>
                                     ELSE IF s[k] \in T THEN Append(g[k - 1], s[k])
                                     ELSE g[k - 1]]
           Succ(g, k) == IF s[k] \in T THEN Append(g[k - 1], s[k]) ELSE g[k - 1]
           step == [p \in (1..n) \X Seq(S) |->
                       IF s[p[1]] \in T THEN Append(p[2], s[p[1]]) ELSE p[2]]
<1>1. n \in Nat /\ \A k \in 1..n : s[k] \in S
  BY ElementOfSeq, LenProperties
<1>2. step \in [(1..n) \X Seq(S) -> Seq(S)] /\ <<>> \in Seq(S)
  BY <1>1
<1>0. Keep(s, T) = (CHOOSE f : f = Def(f))[n]
  BY DEF Keep
<1> HIDE DEF n
<1>3. PICK g \in [0..n -> Seq(S)] : g[0] = <<>> /\ \A k \in 1..n : g[k] = step[<<k, g[k - 1]>>]
  <2> DEFINE V == Seq(S)
             empty == <<>>
  <2>1. empty \in V /\ step \in [(1..n) \X V -> V]
    BY <1>2
  <2> HIDE DEF step, V, empty
  <2>2. \E g \in [0..n -> V] : Iterates(g, empty, step, n)
    BY <1>1, <2>1, Recursion
  <2> QED
    BY <2>2 DEF V, empty, Iterates
<1>4. ASSUME NEW k \in 1..n
      PROVE  g[k] = Succ(g, k)
  <2>1. k - 1 \in 0..n
    BY <1>1
  <2>2. g[k - 1] \in Seq(S)
    BY <2>1
  <2> QED
    BY <1>3, <2>2
<1>5. g = Def(g)
  <2>1. ASSUME NEW k \in 0..n
        PROVE  g[k] = Def(g)[k]
    <3>1. CASE k = 0
      BY <1>3, <3>1
    <3>2. CASE k # 0
      <4>1. k \in 1..n
        BY <1>1, <3>2
      <4> QED
        BY <1>4, <3>2, <4>1
    <3> QED
      BY <3>1, <3>2
  <2> QED
    BY <2>1
<1>6. ASSUME NEW f, f = Def(f)
      PROVE  f = g
  <2>1. DOMAIN f = 0..n /\ f = [k \in 0..n |-> f[k]] /\ f[0] = <<>>
    BY <1>1, <1>6
  <2>2. ASSUME NEW k \in 1..n
        PROVE  f[k] = Succ(f, k)
    <3>1. k \in 0..n /\ k # 0
      BY <1>1
    <3> QED
      BY <1>6, <3>1
  <2> HIDE DEF Def, Succ
  <2> DEFINE P == {k \in Nat : k <= n => f[k] = g[k]}
  <2>3. 0 \in P
    BY <1>3, <2>1
  <2>4. ASSUME NEW k \in Nat, k + 1 <= n, f[k] = g[k]
        PROVE  f[k + 1] = g[k + 1]
    <3>1. k + 1 \in 1..n /\ (k + 1) - 1 = k
      BY <1>1, <2>4
    <3>2. Succ(f, k + 1) = Succ(g, k + 1)
      BY <2>4, <3>1 DEF Succ
    <3> QED
      BY <1>4, <2>2, <3>1, <3>2
  <2>5. \A k \in P : k + 1 \in P
    BY <1>1, <2>4
  <2>6. P = Nat
    <3> HIDE DEF P
    <3> QED
      BY <2>3, <2>5, Counting DEF P
  <2>7. ASSUME NEW k \in 0..n
        PROVE  f[k] = g[k]
    <3>1. k \in Nat /\ k <= n
      BY <1>1
    <3> QED
      BY <2>6, <3>1
  <2>8. g = [k \in 0..n |-> g[k]]
    OBVIOUS
  <2> QED
    BY <2>1, <2>7, <2>8
<1>7. Keep(s, T) = g[n]
  <2> HIDE DEF Def
  <2> QED
    BY <1>0, <1>5, <1>6
<1> QED
  BY <1>3, <1>4, <1>7 DEF n, KeepsOf

LEMMA KeepType ==
  ASSUME NEW S, NEW s \in Seq(S), NEW T
  PROVE  Keep(s, T) \in Seq(S)
<1>1. PICK g \in [0..Len(s) -> Seq(S)] : Keep(s, T) = g[Len(s)]
  BY KeepDef
<1>2. Len(s) \in 0..Len(s)
  BY LenProperties
<1> QED
  BY <1>1, <1>2

LEMMA KeepEmpty == ASSUME NEW T PROVE Keep(<<>>, T) = <<>>
<1>1. <<>> \in Seq({}) /\ Len(<<>>) = 0
  OBVIOUS
<1>2. ASSUME NEW s \in Seq({}), Len(s) = 0
      PROVE  Keep(s, T) = <<>>
  <2>1. PICK g \in [0..Len(s) -> Seq({})] : Keep(s, T) = g[Len(s)] /\ KeepsOf(g, s, T)
    BY KeepDef
  <2> QED
    BY <1>2, <2>1 DEF KeepsOf
<1> QED
  BY <1>1, <1>2

LEMMA KeepAppend ==
  ASSUME NEW S, NEW s \in Seq(S), NEW e \in S, NEW T
  PROVE  Keep(Append(s, e), T) = IF e \in T THEN Append(Keep(s, T), e) ELSE Keep(s, T)
<1> DEFINE r == Append(s, e)
           n == Len(s)
<1>1. /\ r \in Seq(S) /\ n \in Nat /\ Len(r) = n + 1 /\ r[n + 1] = e
      /\ \A k \in 1..n : r[k] = s[k]
  BY AppendProperties, LenProperties
<1>2. PICK g \in [0..n -> Seq(S)] : Keep(s, T) = g[n] /\ KeepsOf(g, s, T)
  BY KeepDef
<1> HIDE DEF r, n
<1>3. PICK h \in [0..(n + 1) -> Seq(S)] : Keep(r, T) = h[n + 1] /\ KeepsOf(h, r, T)
  <2>1. Len(r) = n + 1
    BY <1>1
  <2> QED
    BY <1>1, <2>1, KeepDef
<1> DEFINE P == {k \in Nat : k <= n => h[k] = g[k]}
<1>4. 0 \in P
  BY <1>2, <1>3 DEF KeepsOf
<1>5. ASSUME NEW k \in Nat, k + 1 <= n, h[k] = g[k]
      PROVE  h[k + 1] = g[k + 1]
  <2>1. k + 1 \in 1..n /\ k + 1 \in 1..(n + 1) /\ (k + 1) - 1 = k
    BY <1>1, <1>5
  <2>2. g[k + 1] = IF s[k + 1] \in T THEN Append(g[k], s[k + 1]) ELSE g[k]
    BY <1>2, <2>1 DEF KeepsOf, n
  <2>3. h[k + 1] = IF r[k + 1] \in T THEN Append(h[k], r[k + 1]) ELSE h[k]
    BY <1>1, <1>3, <2>1 DEF KeepsOf
  <2> QED
    BY <1>1, <1>5, <2>1, <2>2, <2>3
<1>6. ASSUME NEW k \in P
      PROVE  k + 1 \in P
  <2>1. k \in Nat /\ k + 1 \in Nat /\ (k + 1 <= n => k <= n)
    BY <1>1
  <2>2. k + 1 <= n => h[k + 1] = g[k + 1]
    BY <1>5, <2>1
  <2> QED
    BY <2>1, <2>2
<1>7. P = Nat
  <2> HIDE DEF P
  <2> QED
    BY <1>4, <1>6, Counting DEF P
<1>8. h[n] = g[n]
  <2>1. n \in Nat /\ n <= n
    BY <1>1
  <2>2. n \in P
    <3> HIDE DEF P, n
    <3> QED
      BY <2>1, <1>7
  <2> QED
    BY <2>1, <2>2
<1>9. h[n + 1] = IF e \in T THEN Append(h[n], e) ELSE h[n]
  <2>1. n + 1 \in 1..(n + 1) /\ (n + 1) - 1 = n
    BY <1>1
  <2> QED
    BY <1>1, <1>3, <2>1 DEF KeepsOf
<1> QED
  BY <1>2, <1>3, <1>8, <1>9 DEF r

-------------------------------------------------------------------------------
(* Beginnings *)

LEMMA IsPrefixProperties ==
  ASSUME NEW S, NEW s \in Seq(S), NEW t \in Seq(S)
  PROVE  IsPrefix(s, t) <=> Len(s) <= Len(t) /\ \A i \in 1..Len(s) : s[i] = t[i]
<1>1. Len(s) \in Nat /\ Len(t) \in Nat /\ \A i \in 1..Len(s) : s[i] \in S
  BY LenProperties, ElementOfSeq
<1>2. SubSeq(s, 1, Len(s)) = s
  BY <1>1
<1>3. ASSUME Len(s) <= Len(t)
      PROVE  SubSeq(t, 1, Len(s)) = s <=> \A i \in 1..Len(s) : s[i] = t[i]
  <2> DEFINE r == SubSeq(t, 1, Len(s))
  <2>1. \A i \in 1..Len(s) : t[i] \in S
    BY <1>1, <1>3, ElementOfSeq
  <2>2. r \in Seq(S) /\ Len(r) = Len(s) /\ \A i \in 1..Len(s) : r[i] = t[i]
    BY <1>1, <2>1, SubSeqProperties
  <2> HIDE DEF r
  <2>3. r = s <=> \A i \in 1..Len(s) : s[i] = r[i]
    BY <2>2, SeqEqual
  <2> QED
    BY <2>2, <2>3 DEF r
<1> QED
  BY <1>2, <1>3 DEF IsPrefix

\* The beginning of length j is the one of length j - 1 and the next element.
LEMMA BeginningStep ==
  ASSUME NEW S, NEW s \in Seq(S), NEW j \in 1..Len(s)
  PROVE  /\ SubSeq(s, 1, j - 1) \in Seq(S) /\ s[j] \in S
         /\ SubSeq(s, 1, j) = Append(SubSeq(s, 1, j - 1), s[j])
<1> DEFINE a == SubSeq(s, 1, j - 1)
           b == SubSeq(s, 1, j)
<1>1. Len(s) \in Nat /\ \A i \in 1..Len(s) : s[i] \in S
  BY LenProperties, ElementOfSeq
<1>2. /\ a \in Seq(S) /\ Len(a) = j - 1 /\ \A i \in 1..(j - 1) : a[i] = s[i]
      /\ b \in Seq(S) /\ Len(b) = j /\ \A i \in 1..j : b[i] = s[i]
  BY <1>1
<1>3. s[j] \in S
  BY <1>1
<1> HIDE DEF a, b
<1>4. /\ Append(a, s[j]) \in Seq(S) /\ Len(Append(a, s[j])) = j
      /\ \A i \in 1..j : Append(a, s[j])[i] = b[i]
  BY <1>2, <1>3, AppendProperties
<1>5. b = Append(a, s[j])
  BY <1>2, <1>4, SeqEqual
<1> QED
  BY <1>2, <1>3, <1>5 DEF a, b

LEMMA KeepBeginning ==
  ASSUME NEW S, NEW s \in Seq(S), NEW j \in 1..Len(s), NEW T
  PROVE  Keep(SubSeq(s, 1, j), T) =
            IF s[j] \in T THEN Append(Keep(SubSeq(s, 1, j - 1), T), s[j])
            ELSE Keep(SubSeq(s, 1, j - 1), T)
<1> DEFINE a == SubSeq(s, 1, j - 1)
           b == SubSeq(s, 1, j)
<1>1. a \in Seq(S) /\ s[j] \in S /\ b = Append(a, s[j])
  BY BeginningStep
<1> HIDE DEF a, b
<1>2. Keep(b, T) = IF s[j] \in T THEN Append(Keep(a, T), s[j]) ELSE Keep(a, T)
  BY <1>1, KeepAppend
<1> QED
  BY <1>2 DEF a, b

LEMMA PrefixAppend ==
  ASSUME NEW S, NEW s \in Seq(S), NEW t \in Seq(S), NEW e \in S, IsPrefix(s, t)
  PROVE  IsPrefix(s, Append(t, e))
<1> DEFINE r == Append(t, e)
<1>1. /\ r \in Seq(S) /\ Len(r) = Len(t) + 1 /\ Len(t) \in Nat /\ Len(s) \in Nat
      /\ \A i \in 1..Len(t) : r[i] = t[i]
  BY AppendProperties, LenProperties
<1> HIDE DEF r
<1>2. Len(s) <= Len(t) /\ \A i \in 1..Len(s) : s[i] = t[i]
  BY IsPrefixProperties
<1>3. Len(s) <= Len(r) /\ \A i \in 1..Len(s) : s[i] = r[i]
  BY <1>1, <1>2
<1>4. IsPrefix(s, r)
  BY <1>1, <1>3, IsPrefixProperties
<1> QED
  BY <1>4 DEF r

\* What is kept of a beginning is a beginning of what is kept.
LEMMA KeepIsPrefix ==
  ASSUME NEW S, NEW s \in Seq(S), NEW j \in 0..Len(s), NEW T
  PROVE  IsPrefix(Keep(SubSeq(s, 1, j), T), Keep(s, T))
<1> DEFINE n == Len(s)
           K(i) == Keep(SubSeq(s, 1, i), T)
           P == {i \in Nat : i <= n - j => IsPrefix(K(j), K(j + i))}
<1>1. n \in Nat /\ \A i \in 0..n : SubSeq(s, 1, i) \in Seq(S) /\ K(i) \in Seq(S)
  <2>1. n \in Nat /\ \A i \in 1..n : s[i] \in S
    BY LenProperties, ElementOfSeq
  <2>2. ASSUME NEW i \in 0..n
        PROVE  SubSeq(s, 1, i) \in Seq(S)
    BY <2>1
  <2> QED
    BY <2>1, <2>2, KeepType
<1>2. 0 \in P
  <2>1. K(j) \in Seq(S) /\ Len(K(j)) \in Nat /\ j + 0 = j
    BY <1>1, LenProperties
  <2>2. IsPrefix(K(j), K(j))
    BY <2>1, IsPrefixProperties
  <2> QED
    BY <2>1, <2>2
<1>3. ASSUME NEW i \in Nat, i + 1 <= n - j, IsPrefix(K(j), K(j + i))
      PROVE  IsPrefix(K(j), K(j + i + 1))
  <2> DEFINE k == j + i + 1
  <2>1. k \in 1..n /\ k - 1 = j + i /\ j + i \in 0..n /\ k \in 0..n
    BY <1>1, <1>3
  <2>2. /\ K(k) = IF s[k] \in T THEN Append(K(j + i), s[k]) ELSE K(j + i)
        /\ s[k] \in S
    BY <2>1, KeepBeginning, ElementOfSeq
  <2>3. K(j) \in Seq(S) /\ K(j + i) \in Seq(S) /\ K(k) \in Seq(S)
    BY <1>1, <2>1
  <2> HIDE DEF K
  <2>4. IsPrefix(K(j), Append(K(j + i), s[k]))
    BY <1>3, <2>2, <2>3, PrefixAppend
  <2> QED
    BY <1>3, <2>2, <2>4
<1>4. ASSUME NEW i \in P
      PROVE  i + 1 \in P
  <2>1. i \in Nat /\ (i + 1 <= n - j => i <= n - j) /\ j + (i + 1) = j + i + 1
    BY <1>1
  <2> HIDE DEF K
  <2>2. i + 1 <= n - j => IsPrefix(K(j), K(j + i + 1))
    BY <1>3, <2>1
  <2> QED
    BY <2>1, <2>2
<1>5. P = Nat
  <2> HIDE DEF P
  <2> QED
    BY <1>2, <1>4, Counting DEF P
<1>6. IsPrefix(K(j), K(n))
  <2>1. n - j \in Nat /\ j + (n - j) = n
    BY <1>1
  <2>2. n - j \in P
    BY <1>5, <2>1
  <2> HIDE DEF K
  <2> QED
    BY <2>1, <2>2
<1>7. SubSeq(s, 1, n) = s
  BY <1>1
<1> QED
  BY <1>6, <1>7

-------------------------------------------------------------------------------
(* FlattenSeq *)

Concatenates(g, ss) ==
    g[1] = ss[1] /\ \A k \in 2..Len(ss) : g[k] = g[k - 1] \o ss[k]

\* The equations of the function FlattenSeq is defined by.
LEMMA FlattenDef ==
  ASSUME NEW S, NEW ss \in Seq(Seq(S)), ss # <<>>
  PROVE  \E g \in [1..Len(ss) -> Seq(S)] : FlattenSeq(ss) = g[Len(ss)] /\ Concatenates(g, ss)
<1> DEFINE n == Len(ss)
           V == Seq(S)
           Def(g) == [i \in 1..n |-> IF i = 1 THEN ss[i] ELSE g[i - 1] \o ss[i]]
           step == [p \in (1..(n - 1)) \X V |-> p[2] \o ss[p[1] + 1]]
<1>1. n \in Nat /\ n # 0 /\ n - 1 \in Nat /\ 1 \in 1..n /\ \A k \in 1..n : ss[k] \in V
  <2>1. n \in Nat /\ n # 0
    OBVIOUS
  <2>2. \A k \in 1..n : ss[k] \in V
    BY <2>1, ElementOfSeq
  <2> QED
    BY <2>1, <2>2
<1>2. step \in [(1..(n - 1)) \X V -> V]
  <2>1. ASSUME NEW k \in 1..(n - 1), NEW v \in V
        PROVE  v \o ss[k + 1] \in V
    <3>1. ss[k + 1] \in V
      BY <1>1
    <3> QED
      BY <3>1, ConcatProperties
  <2> HIDE DEF V, n
  <2> QED
    BY <2>1
<1>3. FlattenSeq(ss) = (CHOOSE g : g = Def(g))[n]
  BY <1>1 DEF FlattenSeq
<1> HIDE DEF n, V
<1>4. PICK q \in [0..(n - 1) -> V] : Iterates(q, ss[1], step, n - 1)
  <2> HIDE DEF step
  <2> QED
    BY <1>1, <1>2, Recursion
<1> DEFINE g == [k \in 1..n |-> q[k - 1]]
<1>5. g \in [1..n -> V] /\ g[1] = ss[1]
  <2>1. \A k \in 1..n : k - 1 \in 0..(n - 1)
    BY <1>1
  <2>2. g[1] = q[0]
    BY <1>1
  <2> QED
    BY <1>4, <2>1, <2>2 DEF Iterates
<1>6. ASSUME NEW k \in 2..n
      PROVE  g[k] = g[k - 1] \o ss[k]
  <2>1. k - 1 \in 1..(n - 1) /\ (k - 1) + 1 = k /\ k - 1 \in 1..n /\ k \in 1..n
        /\ (k - 1) - 1 \in 0..(n - 1)
    BY <1>1
  <2>2. q[k - 1] = step[<<k - 1, q[(k - 1) - 1]>>]
    BY <1>4, <2>1 DEF Iterates
  <2>3. step[<<k - 1, q[(k - 1) - 1]>>] = q[(k - 1) - 1] \o ss[k]
    BY <2>1
  <2> QED
    BY <2>1, <2>2, <2>3
<1> HIDE DEF g
<1>7. g = Def(g)
  <2>1. ASSUME NEW k \in 1..n
        PROVE  g[k] = Def(g)[k]
    <3>1. CASE k = 1
      BY <1>5, <3>1
    <3>2. CASE k # 1
      <4>1. k \in 2..n
        BY <1>1, <3>2
      <4> QED
        BY <1>6, <3>2, <4>1
    <3> QED
      BY <3>1, <3>2
  <2> QED
    BY <1>5, <2>1
<1>8. ASSUME NEW f, f = Def(f)
      PROVE  f = g
  <2>1. DOMAIN f = 1..n /\ f = [k \in 1..n |-> f[k]] /\ f[1] = ss[1]
    BY <1>1, <1>8
  <2>2. ASSUME NEW k \in 2..n
        PROVE  f[k] = f[k - 1] \o ss[k]
    <3>1. k \in 1..n /\ k # 1
      BY <1>1
    <3> QED
      BY <1>8, <3>1
  <2> HIDE DEF Def
  <2> DEFINE P == {k \in Nat : k + 1 <= n => f[k + 1] = g[k + 1]}
  <2>3. 0 \in P
    BY <1>5, <2>1
  <2>4. ASSUME NEW k \in Nat, (k + 1) + 1 <= n, f[k + 1] = g[k + 1]
        PROVE  f[(k + 1) + 1] = g[(k + 1) + 1]
    <3>1. (k + 1) + 1 \in 2..n /\ ((k + 1) + 1) - 1 = k + 1
      BY <1>1, <2>4
    <3> QED
      BY <1>6, <2>2, <2>4, <3>1
  <2>5. ASSUME NEW k \in P
        PROVE  k + 1 \in P
    <3>1. k \in Nat /\ k + 1 \in Nat /\ ((k + 1) + 1 <= n => k + 1 <= n)
      BY <1>1
    <3>2. (k + 1) + 1 <= n => f[(k + 1) + 1] = g[(k + 1) + 1]
      BY <2>4, <3>1
    <3> QED
      BY <3>1, <3>2
  <2>6. P = Nat
    <3> HIDE DEF P
    <3> QED
      BY <2>3, <2>5, Counting DEF P
  <2>7. ASSUME NEW k \in 1..n
        PROVE  f[k] = g[k]
    <3>1. k - 1 \in Nat /\ (k - 1) + 1 = k /\ k <= n
      BY <1>1
    <3>2. k - 1 \in P
      BY <2>6, <3>1
    <3> QED
      BY <3>1, <3>2
  <2>8. g = [k \in 1..n |-> g[k]]
    BY <1>5
  <2> QED
    BY <2>1, <2>7, <2>8
<1>9. FlattenSeq(ss) = g[n]
  <2> HIDE DEF Def
  <2> QED
    BY <1>3, <1>7, <1>8
<1> QED
  BY <1>5, <1>6, <1>9 DEF Concatenates, n, V

LEMMA FlattenEmpty == FlattenSeq(<<>>) = <<>>
<1>1. Len(<<>>) = 0
  OBVIOUS
<1> QED
  BY <1>1 DEF FlattenSeq

LEMMA FlattenType ==
  ASSUME NEW S, NEW ss \in Seq(Seq(S))
  PROVE  FlattenSeq(ss) \in Seq(S)
<1>1. CASE ss = <<>>
  <2>1. FlattenSeq(ss) = <<>>
    BY <1>1, FlattenEmpty
  <2> QED
    BY <2>1, EmptySeq
<1>2. CASE ss # <<>>
  <2>1. PICK g \in [1..Len(ss) -> Seq(S)] : FlattenSeq(ss) = g[Len(ss)]
    BY <1>2, FlattenDef
  <2>2. Len(ss) \in 1..Len(ss)
    BY <1>2
  <2> QED
    BY <2>1, <2>2
<1> QED
  BY <1>1, <1>2

LEMMA FlattenAppend ==
  ASSUME NEW S, NEW ss \in Seq(Seq(S)), NEW s \in Seq(S)
  PROVE  FlattenSeq(Append(ss, s)) = FlattenSeq(ss) \o s
<1> DEFINE n == Len(ss)
           V == Seq(S)
           tt == Append(ss, s)
<1>1. /\ tt \in Seq(V) /\ n \in Nat /\ Len(tt) = n + 1 /\ tt # <<>>
      /\ tt[n + 1] = s /\ \A k \in 1..n : tt[k] = ss[k]
  <2> HIDE DEF V
  <2>1. ss \in Seq(V) /\ s \in V
    BY DEF V
  <2> QED
    BY <2>1, AppendProperties, LenProperties
<1>2. PICK h \in [1..(n + 1) -> V] : FlattenSeq(tt) = h[n + 1] /\ Concatenates(h, tt)
  <2> HIDE DEF tt
  <2>1. Len(tt) = n + 1
    BY <1>1
  <2> QED
    BY <1>1, <2>1, FlattenDef DEF V
<1>3. CASE ss = <<>>
  <2>1. n = 0
    BY <1>3
  <2>2. FlattenSeq(tt) = s
    BY <1>1, <1>2, <2>1 DEF Concatenates
  <2>3. FlattenSeq(ss) = <<>>
    BY <1>3, FlattenEmpty
  <2>4. <<>> \o s = s
    BY ConcatEmptySeq
  <2> QED
    BY <2>2, <2>3, <2>4
<1>4. CASE ss # <<>>
  <2>1. n # 0
    BY <1>4
  <2>2. PICK g \in [1..n -> V] : FlattenSeq(ss) = g[n] /\ Concatenates(g, ss)
    BY <1>4, FlattenDef DEF V
  <2> HIDE DEF n, V, tt
  <2> DEFINE P == {k \in Nat : k + 1 <= n => h[k + 1] = g[k + 1]}
  <2>3. 0 \in P
    <3>1. 1 \in 1..n
      BY <1>1, <2>1
    <3> QED
      BY <1>1, <1>2, <2>2, <3>1 DEF Concatenates
  <2>4. ASSUME NEW k \in Nat, (k + 1) + 1 <= n, h[k + 1] = g[k + 1]
        PROVE  h[(k + 1) + 1] = g[(k + 1) + 1]
    <3> DEFINE i == (k + 1) + 1
    <3>1. i \in 2..n /\ i \in 2..(n + 1) /\ i - 1 = k + 1 /\ i \in 1..n
      BY <1>1, <2>4
    <3> HIDE DEF i
    <3>2. h[i] = h[i - 1] \o tt[i] /\ g[i] = g[i - 1] \o ss[i]
      BY <1>1, <1>2, <2>2, <3>1 DEF Concatenates, n
    <3>3. tt[i] = ss[i]
      BY <1>1, <3>1
    <3>4. h[i - 1] = g[i - 1]
      BY <2>4, <3>1
    <3>5. h[i] = g[i]
      BY <3>2, <3>3, <3>4
    <3> QED
      BY <3>5 DEF i
  <2>5. ASSUME NEW k \in P
        PROVE  k + 1 \in P
    <3>1. k \in Nat /\ k + 1 \in Nat /\ ((k + 1) + 1 <= n => k + 1 <= n)
      BY <1>1
    <3>2. (k + 1) + 1 <= n => h[(k + 1) + 1] = g[(k + 1) + 1]
      BY <2>4, <3>1
    <3> QED
      BY <3>1, <3>2
  <2>6. P = Nat
    <3> HIDE DEF P
    <3> QED
      BY <2>3, <2>5, Counting DEF P
  <2>7. h[n] = g[n]
    <3>1. n - 1 \in Nat /\ (n - 1) + 1 = n /\ n <= n
      BY <1>1, <2>1
    <3>2. n - 1 \in P
      BY <2>6, <3>1
    <3> QED
      BY <3>1, <3>2
  <2>8. h[n + 1] = h[n] \o tt[n + 1]
    <3>1. n + 1 \in 2..(n + 1) /\ (n + 1) - 1 = n
      BY <1>1, <2>1
    <3> QED
      BY <1>1, <1>2, <3>1 DEF Concatenates
  <2> QED
    BY <1>1, <1>2, <2>2, <2>7, <2>8 DEF tt
<1> QED
  BY <1>3, <1>4

-------------------------------------------------------------------------------
(* Where the parts of a flattened sequence lie *)

\* Part k of ss takes the positions from off[k - 1] + 1 to off[k] of FlattenSeq(ss).
Laid(off, ss) ==
    /\ off \in [0..Len(ss) -> Nat] /\ off[0] = 0
    /\ \A k \in 1..Len(ss) : off[k] = off[k - 1] + Len(ss[k])
    /\ \A a, b \in 0..Len(ss) : a <= b => off[a] <= off[b]
    /\ Len(FlattenSeq(ss)) = off[Len(ss)]
    /\ \A k \in 1..Len(ss) : \A j \in 1..Len(ss[k]) :
           /\ off[k - 1] + j \in 1..Len(FlattenSeq(ss))
           /\ FlattenSeq(ss)[off[k - 1] + j] = ss[k][j]
    /\ \A i \in 1..Len(FlattenSeq(ss)) :
           \E k \in 1..Len(ss) : off[k - 1] < i /\ i <= off[k]

LEMMA FlattenLaid ==
  ASSUME NEW S, NEW ss \in Seq(Seq(S))
  PROVE  \E off : Laid(off, ss)
<1> DEFINE V == Seq(S)
           P == {tt \in Seq(V) : \E off : Laid(off, tt)}
<1>1. <<>> \in P
  <2> DEFINE off == [k \in 0..0 |-> 0]
  <2>1. Len(<<>>) = 0 /\ FlattenSeq(<<>>) = <<>> /\ <<>> \in Seq(V)
    BY FlattenEmpty, EmptySeq
  <2>2. off \in [0..0 -> Nat] /\ \A k \in 0..0 : off[k] = 0
    OBVIOUS
  <2> HIDE DEF off
  <2>3. Laid(off, <<>>)
    BY <2>1, <2>2 DEF Laid
  <2> QED
    BY <2>1, <2>3
<1>2. ASSUME NEW tt \in P, NEW s \in V
      PROVE  Append(tt, s) \in P
  <2> DEFINE n == Len(tt)
             uu == Append(tt, s)
             m == Len(s)
             F == FlattenSeq(tt)
             G == FlattenSeq(uu)
  <2>1. PICK old : Laid(old, tt)
    OBVIOUS
  <2>2. tt \in Seq(V)
    OBVIOUS
  <2> HIDE DEF V, P
  <2>3. /\ uu \in Seq(V) /\ n \in Nat /\ Len(uu) = n + 1
        /\ uu[n + 1] = s /\ \A k \in 1..n : uu[k] = tt[k]
    BY <2>2, AppendProperties, LenProperties
  <2>4. s \in Seq(S) /\ F \in Seq(S) /\ m \in Nat
    BY <2>2, FlattenType, LenProperties DEF V
  <2>5. G = F \o s
    BY <2>2, FlattenAppend DEF V
  <2>6. Len(F) = old[n] /\ old[n] \in Nat
    BY <2>1, <2>3 DEF Laid
  <2>7. /\ Len(G) = old[n] + m
        /\ \A i \in 1..old[n] : G[i] = F[i]
        /\ \A i \in (old[n] + 1)..(old[n] + m) : G[i] = s[i - old[n]]
    <3> HIDE DEF F, m, G
    <3>1. /\ Len(F \o s) = Len(F) + Len(s)
          /\ \A i \in 1..(Len(F) + Len(s)) :
                 (F \o s)[i] = IF i <= Len(F) THEN F[i] ELSE s[i - Len(F)]
      BY <2>4, ConcatProperties
    <3> QED
      BY <2>4, <2>5, <2>6, <3>1 DEF m
  <2> DEFINE off == [k \in 0..(n + 1) |-> IF k <= n THEN old[k] ELSE old[n] + m]
  <2>8. /\ off \in [0..(n + 1) -> Nat] /\ off[n + 1] = old[n] + m
        /\ \A k \in 0..n : off[k] = old[k]
    BY <2>1, <2>3, <2>4, <2>6 DEF Laid
  <2>9. /\ old[0] = 0 /\ old \in [0..n -> Nat]
        /\ \A k \in 1..n : old[k] = old[k - 1] + Len(tt[k])
        /\ \A a, b \in 0..n : a <= b => old[a] <= old[b]
        /\ \A k \in 1..n : \A j \in 1..Len(tt[k]) :
               old[k - 1] + j \in 1..old[n] /\ F[old[k - 1] + j] = tt[k][j]
        /\ \A i \in 1..old[n] : \E k \in 1..n : old[k - 1] < i /\ i <= old[k]
    BY <2>1, <2>6 DEF Laid
  <2> HIDE DEF n, uu, m, F, G, off
  <2>10. off[0] = 0
    BY <2>3, <2>8, <2>9
  <2>11. \A k \in 1..(n + 1) : off[k] = off[k - 1] + Len(uu[k])
    <3> SUFFICES ASSUME NEW k \in 1..(n + 1)
                 PROVE  off[k] = off[k - 1] + Len(uu[k])
      OBVIOUS
    <3>1. CASE k = n + 1
      BY <2>3, <2>8, <3>1 DEF m
    <3>2. CASE k \in 1..n
      <4>1. k \in 0..n /\ k - 1 \in 0..n
        BY <2>3, <3>2
      <4>2. off[k] = old[k] /\ off[k - 1] = old[k - 1] /\ uu[k] = tt[k]
        BY <2>3, <2>8, <3>2, <4>1
      <4> QED
        BY <2>9, <3>2, <4>2
    <3> QED
      BY <2>3, <3>1, <3>2
  <2>12. \A a, b \in 0..(n + 1) : a <= b => off[a] <= off[b]
    <3> SUFFICES ASSUME NEW a \in 0..(n + 1), NEW b \in 0..(n + 1), a <= b
                 PROVE  off[a] <= off[b]
      OBVIOUS
    <3>1. CASE a = n + 1
      BY <2>3, <2>8, <3>1
    <3>2. CASE a \in 0..n /\ b = n + 1
      <4>1. old[a] <= old[n]
        BY <2>3, <2>9, <3>2
      <4> QED
        BY <2>3, <2>4, <2>6, <2>8, <2>9, <3>2, <4>1
    <3>3. CASE a \in 0..n /\ b \in 0..n
      BY <2>8, <2>9, <3>3
    <3> QED
      BY <2>3, <3>1, <3>2, <3>3
  <2>13. ASSUME NEW k \in 1..(n + 1), NEW j \in 1..Len(uu[k])
         PROVE  off[k - 1] + j \in 1..(old[n] + m) /\ G[off[k - 1] + j] = uu[k][j]
    <3>1. CASE k = n + 1
      <4>1. off[k - 1] = old[n] /\ uu[k] = s /\ j \in 1..m
        BY <2>3, <2>8, <2>13, <3>1 DEF m
      <4>2. /\ old[n] + j \in (old[n] + 1)..(old[n] + m)
            /\ old[n] + j \in 1..(old[n] + m) /\ (old[n] + j) - old[n] = j
        BY <2>4, <2>6, <4>1
      <4> QED
        BY <2>7, <4>1, <4>2
    <3>2. CASE k \in 1..n
      <4>1. off[k - 1] = old[k - 1] /\ uu[k] = tt[k]
        BY <2>3, <2>8, <3>2
      <4>2. old[k - 1] + j \in 1..old[n] /\ F[old[k - 1] + j] = tt[k][j]
        BY <2>9, <2>13, <3>2, <4>1
      <4> QED
        BY <2>4, <2>6, <2>7, <4>1, <4>2
    <3> QED
      BY <2>3, <3>1, <3>2
  <2>14. ASSUME NEW i \in 1..(old[n] + m)
         PROVE  \E k \in 1..(n + 1) : off[k - 1] < i /\ i <= off[k]
    <3>1. CASE i <= old[n]
      <4>1. PICK k \in 1..n : old[k - 1] < i /\ i <= old[k]
        BY <2>6, <2>9, <3>1
      <4>2. k \in 1..(n + 1) /\ k \in 0..n /\ k - 1 \in 0..n
        BY <2>3
      <4>3. off[k - 1] = old[k - 1] /\ off[k] = old[k]
        BY <2>8, <4>2
      <4> QED
        BY <4>1, <4>2, <4>3
    <3>2. CASE old[n] < i
      <4>1. n + 1 \in 1..(n + 1) /\ off[(n + 1) - 1] = old[n]
        BY <2>3, <2>8
      <4> QED
        BY <2>4, <2>6, <2>8, <3>2, <4>1
    <3> QED
      BY <2>4, <2>6, <3>1, <3>2
  <2>15. Laid(off, uu)
    BY <2>3, <2>7, <2>8, <2>10, <2>11, <2>12, <2>13, <2>14 DEF Laid, G
  <2> QED
    BY <2>3, <2>15 DEF P, uu
<1>3. P = Seq(V)
  <2> HIDE DEF P, V
  <2>1. P \in SUBSET Seq(V)
    BY DEF P
  <2> QED
    BY <1>1, <1>2, <2>1, Growing
<1> QED
  BY <1>3

-------------------------------------------------------------------------------
(* Where the elements kept come from *)

\* Element k of Keep(s, T) is element at[k] of s.
Drawn(at, s, T) ==
    /\ at \in [1..Len(Keep(s, T)) -> 1..Len(s)]
    /\ \A a, b \in 1..Len(Keep(s, T)) : a < b => at[a] < at[b]
    /\ \A k \in 1..Len(Keep(s, T)) : Keep(s, T)[k] = s[at[k]] /\ s[at[k]] \in T
    /\ \A i \in 1..Len(s) : s[i] \in T => \E k \in 1..Len(Keep(s, T)) : at[k] = i

LEMMA KeepDrawn ==
  ASSUME NEW S, NEW s \in Seq(S), NEW T
  PROVE  \E at : Drawn(at, s, T)
<1> DEFINE P == {r \in Seq(S) : \E at : Drawn(at, r, T)}
<1>1. <<>> \in P
  <2> DEFINE at == [k \in 1..0 |-> 0]
  <2>1. Len(<<>>) = 0 /\ Keep(<<>>, T) = <<>> /\ <<>> \in Seq(S)
    BY KeepEmpty, EmptySeq
  <2>2. at \in [1..0 -> 1..0]
    OBVIOUS
  <2> HIDE DEF at
  <2>3. Drawn(at, <<>>, T)
    BY <2>1, <2>2 DEF Drawn
  <2> QED
    BY <2>1, <2>3
<1>2. ASSUME NEW r \in P, NEW e \in S
      PROVE  Append(r, e) \in P
  <2> DEFINE n == Len(r)
             t == Append(r, e)
             K == Keep(r, T)
             m == Len(K)
             L == Keep(t, T)
  <2>1. PICK old : Drawn(old, r, T)
    OBVIOUS
  <2>2. r \in Seq(S)
    OBVIOUS
  <2> HIDE DEF P
  <2>3. /\ t \in Seq(S) /\ n \in Nat /\ Len(t) = n + 1
        /\ t[n + 1] = e /\ \A i \in 1..n : t[i] = r[i]
    BY <2>2, AppendProperties, LenProperties
  <2>4. K \in Seq(S) /\ m \in Nat
    BY <2>2, KeepType, LenProperties
  <2>5. L = IF e \in T THEN Append(K, e) ELSE K
    BY <2>2, KeepAppend
  <2>6. /\ old \in [1..m -> 1..n]
        /\ \A a, b \in 1..m : a < b => old[a] < old[b]
        /\ \A k \in 1..m : K[k] = r[old[k]] /\ r[old[k]] \in T
        /\ \A i \in 1..n : r[i] \in T => \E k \in 1..m : old[k] = i
    BY <2>1 DEF Drawn
  <2> HIDE DEF n, t, K, m, L
  <2>7. CASE e \notin T
    <3>1. L = K /\ Len(L) = m
      BY <2>5, <2>7 DEF m
    <3>2. \A k \in 1..m : old[k] \in 1..n /\ t[old[k]] = r[old[k]]
      BY <2>3, <2>6
    <3>3. old \in [1..m -> 1..(n + 1)]
      BY <2>3, <2>6
    <3>4. \A i \in 1..(n + 1) : t[i] \in T => i \in 1..n /\ r[i] \in T
      BY <2>3, <2>7
    <3>5. Drawn(old, t, T)
      BY <2>3, <2>6, <3>1, <3>2, <3>3, <3>4 DEF Drawn, L
    <3> QED
      BY <2>3, <3>5 DEF P, t
  <2>8. CASE e \in T
    <3>1. L = Append(K, e)
      BY <2>5, <2>8
    <3>2. /\ Len(L) = m + 1 /\ L[m + 1] = e
          /\ \A k \in 1..m : L[k] = K[k]
      BY <2>4, <3>1, AppendProperties DEF m
    <3> DEFINE at == [k \in 1..(m + 1) |-> IF k <= m THEN old[k] ELSE n + 1]
    <3>3. /\ at \in [1..(m + 1) -> 1..(n + 1)] /\ at[m + 1] = n + 1
          /\ \A k \in 1..m : at[k] = old[k]
      BY <2>3, <2>4, <2>6
    <3> HIDE DEF at
    <3>4. ASSUME NEW a \in 1..(m + 1), NEW b \in 1..(m + 1), a < b
          PROVE  at[a] < at[b]
      <4>1. CASE b = m + 1
        <5>1. a \in 1..m
          BY <2>4, <3>4, <4>1
        <5>2. at[a] = old[a] /\ old[a] \in 1..n
          BY <2>6, <3>3, <5>1
        <5> QED
          BY <2>3, <3>3, <4>1, <5>2
      <4>2. CASE b \in 1..m
        BY <2>4, <2>6, <3>3, <3>4, <4>2
      <4> QED
        BY <2>4, <4>1, <4>2
    <3>5. ASSUME NEW k \in 1..(m + 1)
          PROVE  L[k] = t[at[k]] /\ t[at[k]] \in T
      <4>1. CASE k = m + 1
        BY <2>3, <2>8, <3>2, <3>3, <4>1
      <4>2. CASE k \in 1..m
        BY <2>3, <2>6, <3>2, <3>3, <4>2
      <4> QED
        BY <2>4, <4>1, <4>2
    <3>6. ASSUME NEW i \in 1..(n + 1), t[i] \in T
          PROVE  \E k \in 1..(m + 1) : at[k] = i
      <4>1. CASE i = n + 1
        BY <2>4, <3>3, <4>1
      <4>2. CASE i \in 1..n
        <5>1. PICK k \in 1..m : old[k] = i
          BY <2>3, <2>6, <3>6, <4>2
        <5> QED
          BY <2>4, <3>3, <5>1
      <4> QED
        BY <2>3, <4>1, <4>2
    <3>7. Drawn(at, t, T)
      BY <2>3, <3>2, <3>3, <3>4, <3>5, <3>6 DEF Drawn, L
    <3> QED
      BY <2>3, <3>7 DEF P, t
  <2> QED
    BY <2>7, <2>8
<1>3. P = Seq(S)
  <2> HIDE DEF P
  <2>1. P \in SUBSET Seq(S)
    BY DEF P
  <2> QED
    BY <1>1, <1>2, <2>1, Growing
<1> QED
  BY <1>3

\* What is kept depends only on which of the elements are in the set.
LEMMA KeepSame ==
  ASSUME NEW S, NEW s \in Seq(S), NEW T, NEW U,
         \A i \in 1..Len(s) : s[i] \in T <=> s[i] \in U
  PROVE  Keep(s, T) = Keep(s, U)
<1> DEFINE Agree(r) == \A i \in 1..Len(r) : r[i] \in T <=> r[i] \in U
           P == {r \in Seq(S) : Agree(r) => Keep(r, T) = Keep(r, U)}
<1>1. <<>> \in P
  BY KeepEmpty, EmptySeq
<1>2. ASSUME NEW r \in P, NEW e \in S
      PROVE  Append(r, e) \in P
  <2> DEFINE n == Len(r)
             t == Append(r, e)
  <2>1. /\ r \in Seq(S) /\ t \in Seq(S) /\ n \in Nat /\ Len(t) = n + 1
        /\ t[n + 1] = e /\ \A i \in 1..n : t[i] = r[i]
    BY AppendProperties, LenProperties
  <2>2. /\ Keep(t, T) = IF e \in T THEN Append(Keep(r, T), e) ELSE Keep(r, T)
        /\ Keep(t, U) = IF e \in U THEN Append(Keep(r, U), e) ELSE Keep(r, U)
    BY <2>1, KeepAppend
  <2>3. Agree(r) => Keep(r, T) = Keep(r, U)
    OBVIOUS
  <2>4. ASSUME Agree(t)
        PROVE  Agree(r) /\ (e \in T <=> e \in U)
    <3> HIDE DEF t, P
    <3>1. n + 1 \in 1..Len(t) /\ \A i \in 1..n : i \in 1..Len(t)
      BY <2>1
    <3> QED
      BY <2>1, <2>4, <3>1
  <2> HIDE DEF t, P
  <2>5. Agree(t) => Keep(t, T) = Keep(t, U)
    BY <2>2, <2>3, <2>4
  <2> QED
    BY <2>1, <2>5 DEF P, t
<1>3. P = Seq(S)
  <2> HIDE DEF P
  <2>1. P \in SUBSET Seq(S)
    BY DEF P
  <2> QED
    BY <1>1, <1>2, <2>1, Growing
<1> QED
  BY <1>3

\* An element kept comes right after those kept before it.
LEMMA KeepPosition ==
  ASSUME NEW S, NEW s \in Seq(S), NEW T, NEW j \in 1..Len(s), s[j] \in T
  PROVE  LET k == Len(Keep(SubSeq(s, 1, j), T))
         IN  k \in 1..Len(Keep(s, T)) /\ Keep(s, T)[k] = s[j]
<1> DEFINE b == SubSeq(s, 1, j - 1)
           K == Keep(b, T)
           L == Keep(SubSeq(s, 1, j), T)
           M == Keep(s, T)
           k == Len(L)
<1>1. b \in Seq(S) /\ s[j] \in S
  BY BeginningStep
<1>2. K \in Seq(S) /\ M \in Seq(S)
  BY <1>1, KeepType
<1>3. L = Append(K, s[j])
  BY KeepBeginning
<1>4. IsPrefix(L, M)
  <2>1. j \in 0..Len(s)
    BY LenProperties
  <2> QED
    BY <2>1, KeepIsPrefix
<1> HIDE DEF b, K, L, M
<1>5. L \in Seq(S) /\ Len(K) \in Nat /\ k = Len(K) + 1 /\ L[k] = s[j]
  BY <1>1, <1>2, <1>3, AppendProperties, LenProperties
<1>6. k <= Len(M) /\ \A i \in 1..k : L[i] = M[i]
  BY <1>2, <1>4, <1>5, IsPrefixProperties
<1>7. Len(M) \in Nat
  BY <1>2, LenProperties
<1> QED
  BY <1>5, <1>6, <1>7 DEF L, M

-------------------------------------------------------------------------------
(* Cardinalities *)

LEMMA ImageCardinality ==
  ASSUME NEW D, IsFiniteSet(D), NEW f,
         \A x, y \in D : f[x] = f[y] => x = y
  PROVE  /\ IsFiniteSet({f[x] : x \in D})
         /\ Cardinality({f[x] : x \in D}) = Cardinality(D)
<1> DEFINE T == {f[x] : x \in D}
           g == [x \in D |-> f[x]]
<1>1. g \in Bijection(D, T)
  BY DEF Bijection, Injection, Surjection, IsInjective
<1>2. ExistsBijection(D, T)
  BY <1>1 DEF ExistsBijection
<1> QED
  BY <1>2, FS_Bijection

\* A sequence without repetitions has as many elements as it is long.
LEMMA RangeCardinality ==
  ASSUME NEW S, NEW s \in Seq(S), \A i, j \in 1..Len(s) : s[i] = s[j] => i = j
  PROVE  IsFiniteSet(Range(s)) /\ Cardinality(Range(s)) = Len(s)
<1>1. Len(s) \in Nat /\ DOMAIN s = 1..Len(s)
  BY LenProperties
<1>2. IsFiniteSet(1..Len(s)) /\ Cardinality(1..Len(s)) = Len(s)
  BY <1>1, FS_Interval
<1>3. Range(s) = {s[i] : i \in 1..Len(s)}
  BY <1>1 DEF Range
<1> QED
  BY <1>2, <1>3, ImageCardinality

\* So many of the first j elements are in T as are kept of the beginning of length j.
LEMMA KeepCounts ==
  ASSUME NEW S, NEW s \in Seq(S), NEW T, NEW j \in 0..Len(s)
  PROVE  Cardinality({k \in 1..j : s[k] \in T}) = Len(Keep(SubSeq(s, 1, j), T))
<1> DEFINE n == Len(s)
           I(i) == {k \in 1..i : s[k] \in T}
           K(i) == Keep(SubSeq(s, 1, i), T)
           Right(i) == IsFiniteSet(I(i)) /\ Cardinality(I(i)) = Len(K(i))
           P == {i \in Nat : i <= n => Right(i)}
<1>1. n \in Nat /\ \A i \in 0..n : SubSeq(s, 1, i) \in Seq(S) /\ K(i) \in Seq(S)
  <2>1. n \in Nat /\ \A i \in 1..n : s[i] \in S
    BY LenProperties, ElementOfSeq
  <2>2. ASSUME NEW i \in 0..n
        PROVE  SubSeq(s, 1, i) \in Seq(S)
    BY <2>1
  <2> QED
    BY <2>1, <2>2, KeepType
<1>2. 0 \in P
  <2>1. I(0) = {}
    OBVIOUS
  <2>2. SubSeq(s, 1, 0) = <<>>
    OBVIOUS
  <2>3. Len(K(0)) = 0
    <3>1. K(0) = <<>>
      BY <2>2, KeepEmpty
    <3> QED
      BY <3>1, EmptySeq
  <2> HIDE DEF I, K
  <2> QED
    BY <2>1, <2>3, FS_EmptySet
<1>3. ASSUME NEW i \in Nat, i + 1 <= n, Right(i)
      PROVE  Right(i + 1)
  <2> DEFINE k == i + 1
  <2>1. k \in 1..n /\ k - 1 = i /\ i \in 0..n /\ k \notin I(i)
    BY <1>1, <1>3
  <2>2. K(k) = IF s[k] \in T THEN Append(K(i), s[k]) ELSE K(i)
    BY <2>1, KeepBeginning
  <2>3. K(i) \in Seq(S) /\ s[k] \in S
    BY <1>1, <2>1, ElementOfSeq
  <2>4. I(k) = IF s[k] \in T THEN I(i) \cup {k} ELSE I(i)
    BY <2>1
  <2> HIDE DEF I, K, k
  <2>5. CASE s[k] \in T
    <3>1. Len(K(k)) = Len(K(i)) + 1
      BY <2>2, <2>3, <2>5, AppendProperties
    <3>2. IsFiniteSet(I(k)) /\ Cardinality(I(k)) = Cardinality(I(i)) + 1
      <4>1. IsFiniteSet(I(i)) /\ I(k) = I(i) \cup {k} /\ k \notin I(i)
        BY <1>3, <2>1, <2>4, <2>5
      <4>2. /\ IsFiniteSet(I(i) \cup {k})
            /\ Cardinality(I(i) \cup {k}) = Cardinality(I(i)) + 1
        BY <4>1, FS_AddElement
      <4> QED
        BY <4>1, <4>2
    <3> QED
      BY <1>3, <3>1, <3>2 DEF k
  <2>6. CASE s[k] \notin T
    BY <1>3, <2>2, <2>4, <2>6 DEF k
  <2> QED
    BY <2>5, <2>6
<1>4. ASSUME NEW i \in P
      PROVE  i + 1 \in P
  <2>1. i \in Nat /\ (i + 1 <= n => i <= n)
    BY <1>1
  <2> HIDE DEF Right
  <2>2. i + 1 <= n => Right(i + 1)
    BY <1>3, <2>1
  <2> QED
    BY <2>1, <2>2
<1>5. P = Nat
  <2> HIDE DEF P
  <2> QED
    BY <1>2, <1>4, Counting DEF P
<1>6. j \in Nat /\ j <= n
  BY <1>1
<1>7. Right(j)
  <2> HIDE DEF Right
  <2> QED
    BY <1>5, <1>6
<1> QED
  BY <1>7

===============================================================================
