---------------------------- MODULE DocSearchProofs ----------------------------
(***************************************************************************)
(* The watermark is never searched. It is not inductive by itself: a timer *)
(* must not outlive the text it was started for (TimedText), and what the  *)
(* field holds is either typed or the watermark.                           *)
(*                                                                         *)
(* What the menu shows is a function of the indexes and the term, so its   *)
(* properties hold because every step that opens it computes it as Source, *)
(* Response and RenderMenu do, and every other step leaves or closes it.   *)
(***************************************************************************)
EXTENDS DocSearch, SequenceLemmas

-------------------------------------------------------------------------------
(* The text *)

\* What is in the field was typed key by key, or is the watermark.
TypedText == field \in Texts \cup {Watermark} /\ asked \in Texts

\* While the timer runs, the field does not show the watermark.
TimedText == (focused => ready) /\ (timer => ready /\ field # Watermark)

IInv == TypedText /\ TimedText

LEMMA TextsFacts ==
  /\ \A s : s \in Texts <=> s \in Seq(Key) /\ Len(s) <= MaxLength
  /\ <<>> \in Texts /\ Watermark \notin Texts /\ MaxLength \in Nat
<1>0. MaxLength \in Nat /\ Watermark \notin Seq(Key)
  BY DocSearchAssumption
<1>1. ASSUME NEW s \in Texts
      PROVE  s \in Seq(Key) /\ Len(s) <= MaxLength
  <2>1. PICK m \in 0..MaxLength : s \in [1..m -> Key]
    BY <1>1 DEF Texts, BoundedSeq, SeqOf
  <2>2. m \in Nat /\ m <= MaxLength
    BY <1>0
  <2>3. s \in Seq(Key)
    BY <2>1, <2>2, SeqDef
  <2>4. Len(s) = m
    BY <2>1, <2>2, <2>3, LenProperties
  <2> QED
    BY <2>2, <2>3, <2>4
<1>2. ASSUME NEW s \in Seq(Key), Len(s) <= MaxLength
      PROVE  s \in Texts
  <2>1. Len(s) \in 0..MaxLength /\ s \in [1..Len(s) -> Key]
    BY <1>0, <1>2, LenProperties
  <2> QED
    BY <2>1 DEF Texts, BoundedSeq, SeqOf
<1>3. <<>> \in Texts
  <2> DEFINE s == <<>>
  <2>1. s \in Seq(Key) /\ Len(s) = 0
    BY EmptySeq
  <2> HIDE DEF s
  <2>2. Len(s) <= MaxLength
    BY <1>0, <2>1
  <2>3. s \in Texts
    BY <1>2, <2>1, <2>2
  <2> QED
    BY <2>3 DEF s
<1> QED
  BY <1>0, <1>1, <1>2, <1>3

LEMMA ClearedTyped == TypedText => Cleared \in Texts /\ Cleared # Watermark
  BY TextsFacts DEF TypedText, Cleared

LEMMA ErasedTyped ==
  ASSUME NEW s \in Texts, s # <<>>
  PROVE  Front(s) \in Texts
<1> DEFINE n == Len(s)
<1>1. s \in Seq(Key) /\ n <= MaxLength /\ n \in Nat \ {0} /\ MaxLength \in Nat
  BY TextsFacts, EmptySeq
<1> HIDE DEF n
<1>2. n - 1 \in Int /\ \A i \in 1..(n - 1) : i \in 1..n
  BY <1>1
<1>3. \A i \in 1..(n - 1) : s[i] \in Key
  BY <1>1, <1>2, ElementOfSeq DEF n
<1>4. /\ SubSeq(s, 1, n - 1) \in Seq(Key)
      /\ Len(SubSeq(s, 1, n - 1)) = IF 1 <= n - 1 THEN (n - 1) - 1 + 1 ELSE 0
  BY <1>2, <1>3, SubSeqProperties
<1>5. (IF 1 <= n - 1 THEN (n - 1) - 1 + 1 ELSE 0) = n - 1
  BY <1>1
<1>6. Front(s) = SubSeq(s, 1, n - 1)
  BY DEF Front, n
<1>7. Front(s) \in Seq(Key) /\ Len(Front(s)) <= MaxLength
  BY <1>1, <1>4, <1>5, <1>6
<1> QED
  BY <1>7, TextsFacts

\* The parts of IInv when a step searches for a text that was typed.
LEMMA SearchTyped ==
  ASSUME NEW term \in Texts, SearchFor(term)
  PROVE  asked' \in Texts
  BY DEF SearchFor

LEMMA InitIInv == Init => IInv
  BY TextsFacts DEF Init, IInv, TypedText, TimedText

LEMMA LoadingKeeps ==
  ASSUME IInv, \/ \E f \in Files : Arrives(f) \/ ZipLost(f)
               \/ Ready \/ UNCHANGED vars
  PROVE  IInv'
  BY DEF IInv, TypedText, TimedText, Arrives, ZipLost, Ready, text, page, vars

LEMMA TimerKeeps ==
  ASSUME IInv, TimerFires
  PROVE  IInv'
<1>1. field \in Texts /\ UNCHANGED text /\ timer' = FALSE
  BY DEF IInv, TypedText, TimedText, TimerFires
<1>2. asked' \in Texts
  <2>1. CASE SearchFor(field)
    BY <1>1, <2>1, SearchTyped
  <2>2. CASE UNCHANGED asked
    BY <2>2 DEF IInv, TypedText
  <2> QED
    BY <2>1, <2>2 DEF TimerFires
<1> QED
  BY <1>1, <1>2 DEF IInv, TypedText, TimedText, text

LEMMA UserKeeps ==
  ASSUME IInv, User
  PROVE  IInv'
<1>1. Cleared \in Texts /\ Cleared # Watermark
  BY ClearedTyped DEF IInv
<1>2. /\ asked \in Texts /\ field \in Texts \cup {Watermark}
      /\ Watermark \notin Texts /\ <<>> \in Texts
  BY TextsFacts DEF IInv, TypedText
<1>3. ASSUME NEW k \in Key, Type(k)
      PROVE  IInv'
  <2>1. Append(Cleared, k) \in Texts
    <3>1. Cleared \in Seq(Key) /\ Len(Cleared) < MaxLength /\ Len(Cleared) \in Nat
      BY <1>1, <1>3, TextsFacts, LenProperties DEF Type
    <3>2. Append(Cleared, k) \in Seq(Key) /\ Len(Append(Cleared, k)) = Len(Cleared) + 1
      BY <3>1, AppendProperties
    <3> QED
      <4> DEFINE s == Append(Cleared, k)
      <4>1. s \in Seq(Key) /\ Len(s) <= MaxLength
        BY <3>1, <3>2, TextsFacts
      <4> QED
        BY <4>1, TextsFacts
  <2> QED
    BY <1>2, <1>3, <2>1 DEF Type, page, IInv, TypedText, TimedText
<1>4. CASE Erase
  <2>1. field' \in Texts /\ field' # Watermark
    <3>1. CASE Cleared = <<>>
      BY <1>2, <1>4, <3>1 DEF Erase
    <3>2. CASE Cleared # <<>>
      <4>1. Front(Cleared) \in Texts
        BY <1>1, <3>2, ErasedTyped
      <4> QED
        BY <1>2, <1>4, <3>2, <4>1 DEF Erase
    <3> QED
      BY <3>1, <3>2
  <2>2. TimedText'
    BY <1>4, <2>1 DEF Erase, IInv, TimedText
  <2> QED
    BY <1>2, <1>4, <2>1, <2>2 DEF Erase, IInv, TypedText
<1>5. CASE Click
  BY <1>1, <1>2, <1>5 DEF Click, page, IInv, TypedText, TimedText
<1>6. CASE Arrow
  <2>1. field' \in Texts /\ field' # Watermark
    BY <1>1, <1>2, <1>6 DEF Arrow
  <2>2. asked' \in Texts
    <3>1. CASE menu = <<>>
      BY <1>1, <1>6, <3>1, SearchTyped DEF Arrow
    <3>2. CASE menu # <<>>
      BY <1>2, <1>6, <3>2 DEF Arrow
    <3> QED
      BY <3>1, <3>2
  <2>3. TimedText'
    BY <1>6, <2>1 DEF Arrow, page, IInv, TimedText
  <2> QED
    BY <2>1, <2>2, <2>3 DEF IInv, TypedText
<1>7. CASE Escape
  <2>1. field' \in Texts /\ field' # Watermark
    BY <1>2, <1>7 DEF Escape
  <2>2. TimedText'
    BY <1>7, <2>1 DEF Escape, page, IInv, TimedText
  <2> QED
    BY <1>2, <1>7, <2>1, <2>2 DEF Escape, IInv, TypedText
<1>8. CASE Blur
  <2>1. TypedText'
    BY <1>2, <1>8 DEF Blur, TypedText
  <2>2. TimedText'
    BY <1>8 DEF Blur, TimedText
  <2> QED
    BY <2>1, <2>2 DEF IInv
<1>9. CASE Reset
  <2>1. field' \in Texts /\ field' # Watermark /\ asked' \in Texts
    BY <1>2, <1>9 DEF Reset
  <2>2. TimedText'
    BY <1>9, <2>1 DEF Reset, page, IInv, TimedText
  <2> QED
    BY <2>1, <2>2 DEF IInv, TypedText
<1>10. ASSUME NEW k \in DOMAIN menu, Select(k)
       PROVE  IInv'
  <2>1. \/ field' = <<>> /\ asked' = <<>>
        \/ field' = field /\ asked' = asked
    BY <1>10 DEF Select
  <2>2. TypedText'
    BY <1>2, <2>1 DEF TypedText
  <2>3. TimedText'
    <3>1. field # Watermark => field' # Watermark
      BY <1>2, <2>1
    <3>2. UNCHANGED <<ready, focused, timer>>
      BY <1>10 DEF Select
    <3> QED
      BY <3>1, <3>2 DEF IInv, TimedText
  <2> QED
    BY <2>2, <2>3 DEF IInv
<1> QED
  BY <1>3, <1>4, <1>5, <1>6, <1>7, <1>8, <1>9, <1>10 DEF User

\* No search is ever made for the watermark (the handlers of click, keydown and
\* blur in search.js, before those of the widget), if the keys cannot spell it
\* (DocSearchAssumption): a reader who types the word searches for it.
THEOREM NoWatermarkSearch == Spec => []WatermarkNotSearched
<1>1. IInv /\ [Next]_vars => IInv'
  BY LoadingKeeps, TimerKeeps, UserKeeps DEF Next
<1>2. IInv => WatermarkNotSearched
  BY TextsFacts DEF IInv, TypedText, WatermarkNotSearched
<1> QED
  BY <1>1, <1>2, InitIInv, PTL DEF Spec

-------------------------------------------------------------------------------
(* The matches of a category *)

LEMMA CategoriesFacts ==
  /\ Categories \in Seq(Category) /\ Len(Categories) = 5
  /\ \A i, j \in 1..5 : Categories[i] = Categories[j] => i = j
  /\ \A c \in Category : \E k \in 1..5 : Categories[k] = c
  /\ Category = {"Modules", "Packages", "Types", "Members", "SearchTags"}
<1>1. /\ Len(Categories) = 5 /\ DOMAIN Categories = 1..5
      /\ Categories[1] = "Modules" /\ Categories[2] = "Packages" /\ Categories[3] = "Types"
      /\ Categories[4] = "Members" /\ Categories[5] = "SearchTags"
  BY DEF Categories
<1>2. \A k \in 1..5 : k = 1 \/ k = 2 \/ k = 3 \/ k = 4 \/ k = 5
  OBVIOUS
<1>3. Category = {Categories[k] : k \in 1..5}
  BY <1>1 DEF Category, Range
<1>4. Categories \in Seq(Category)
  <2>1. /\ "Modules" \in Category /\ "Packages" \in Category /\ "Types" \in Category
        /\ "Members" \in Category /\ "SearchTags" \in Category
    BY <1>1, <1>3
  <2> QED
    BY <2>1 DEF Categories
<1>5. \A i, j \in 1..5 : Categories[i] = Categories[j] => i = j
  BY <1>1, <1>2
<1>6. Category = {"Modules", "Packages", "Types", "Members", "SearchTags"}
  <2>1. ASSUME NEW c \in Category
        PROVE  c \in {"Modules", "Packages", "Types", "Members", "SearchTags"}
    BY <1>1, <1>2, <1>3
  <2>2. ASSUME NEW c \in {"Modules", "Packages", "Types", "Members", "SearchTags"}
        PROVE  c \in Category
    BY <1>1, <1>3
  <2> QED
    BY <2>1, <2>2
<1> QED
  BY <1>1, <1>3, <1>4, <1>5, <1>6

IndexType == index \in [Category -> Files \cup {Absent}]

LEMMA ItemsType ==
  ASSUME IndexType, NEW c \in Category
  PROVE  /\ Items(c) \in Seq(Item)
         /\ \A i, j \in 1..Len(Items(c)) : Items(c)[i] = Items(c)[j] => i = j
<1>1. CASE index[c] = Absent
  BY <1>1 DEF Items
<1>2. CASE index[c] # Absent
  <2>1. index[c] \in Files /\ Items(c) = Content[index[c]]
    BY <1>2 DEF IndexType, Items
  <2>2. Items(c) \in Seq(Item)
    BY <2>1, DocSearchAssumption
  <2> QED
    BY <2>1, <2>2, EachItemOnce
<1> QED
  BY <1>1, <1>2

Exact(c, term) == {item \in Range(Items(c)) : IsExact(c, term, item)}
Other(c, term) == {item \in Range(Items(c)) \ Primary(c, term) :
                       SecondaryMatch(term, FullText(c, item))}
With(c, term) == {item \in Range(Items(c)) : SecondaryMatch(term, FullText(c, item))}

\* The primary matches and after them the others, each item once.
LEMMA FoundFacts ==
  ASSUME IndexType, NEW c \in Category, NEW term
  PROVE  /\ Found(c, term) \in Seq(Item)
         /\ \A i, j \in 1..Len(Found(c, term)) :
                Found(c, term)[i] = Found(c, term)[j] => i = j
         /\ \A i \in 1..Len(Found(c, term)) :
                Found(c, term)[i] \in Primary(c, term) \cup Other(c, term)
         /\ \A item \in Primary(c, term) \cup Other(c, term) :
                \E i \in 1..Len(Found(c, term)) : Found(c, term)[i] = item
         /\ IsPrefix(Keep(Items(c), Primary(c, term)), Found(c, term))
<1> DEFINE s == Items(c)
           T == Primary(c, term)
           U == Other(c, term)
           K == Keep(s, T)
           L == Keep(s, U)
           F == Found(c, term)
           k == Len(K)
           l == Len(L)
<1>1. /\ s \in Seq(Item) /\ \A i, j \in 1..Len(s) : s[i] = s[j] => i = j
      /\ T \cap U = {}
      /\ \A item \in T \cup U : \E i \in 1..Len(s) : s[i] = item
  <2>1. s \in Seq(Item) /\ \A i, j \in 1..Len(s) : s[i] = s[j] => i = j
    BY ItemsType
  <2>2. Range(s) = {s[i] : i \in 1..Len(s)}
    BY <2>1, LenProperties DEF Range
  <2> QED
    BY <2>1, <2>2 DEF Primary, Other
<1>2. F = K \o L
  BY DEF Found, Other
<1> HIDE DEF s, T, U, F
<1>3. K \in Seq(Item) /\ L \in Seq(Item)
  BY <1>1, KeepType
<1>4. PICK at : Drawn(at, s, T)
  BY <1>1, KeepDrawn
<1>5. PICK bt : Drawn(bt, s, U)
  BY <1>1, KeepDrawn
<1>6. /\ \A i \in 1..k : at[i] \in 1..Len(s) /\ K[i] = s[at[i]] /\ K[i] \in T
      /\ \A i, j \in 1..k : i < j => at[i] < at[j]
      /\ \A i \in 1..Len(s) : s[i] \in T => \E a \in 1..k : at[a] = i
  BY <1>4 DEF Drawn
<1>7. /\ \A i \in 1..l : bt[i] \in 1..Len(s) /\ L[i] = s[bt[i]] /\ L[i] \in U
      /\ \A i, j \in 1..l : i < j => bt[i] < bt[j]
      /\ \A i \in 1..Len(s) : s[i] \in U => \E a \in 1..l : bt[a] = i
  BY <1>5 DEF Drawn
<1> HIDE DEF K, L
<1>8. k \in Nat /\ l \in Nat /\ Len(s) \in Nat
  BY <1>1, <1>3, LenProperties
<1>9. \A i, j \in 1..k : K[i] = K[j] => i = j
  <2> SUFFICES ASSUME NEW i \in 1..k, NEW j \in 1..k, K[i] = K[j], i # j
               PROVE  FALSE
    OBVIOUS
  <2>1. at[i] = at[j] /\ at[i] \in Int
    BY <1>1, <1>6
  <2>2. CASE i < j
    BY <1>6, <2>1, <2>2
  <2>3. CASE j < i
    BY <1>6, <2>1, <2>3
  <2> QED
    BY <1>8, <2>2, <2>3
<1>10. \A i, j \in 1..l : L[i] = L[j] => i = j
  <2> SUFFICES ASSUME NEW i \in 1..l, NEW j \in 1..l, L[i] = L[j], i # j
               PROVE  FALSE
    OBVIOUS
  <2>1. bt[i] = bt[j] /\ bt[i] \in Int
    BY <1>1, <1>7
  <2>2. CASE i < j
    BY <1>7, <2>1, <2>2
  <2>3. CASE j < i
    BY <1>7, <2>1, <2>3
  <2> QED
    BY <1>8, <2>2, <2>3
<1>11. /\ F \in Seq(Item) /\ Len(F) = k + l
       /\ \A i \in 1..k : F[i] = K[i]
       /\ \A i \in (k + 1)..(k + l) : F[i] = L[i - k] /\ i - k \in 1..l
       /\ \A i \in 1..l : F[k + i] = L[i] /\ k + i \in 1..(k + l)
  <2>1. /\ K \o L \in Seq(Item) /\ Len(K \o L) = k + l
        /\ \A i \in 1..(k + l) : (K \o L)[i] = IF i <= k THEN K[i] ELSE L[i - k]
    BY <1>3, ConcatProperties
  <2> QED
    BY <1>2, <1>8, <2>1
<1>12. \A i \in 1..Len(F) : i \in 1..k \/ i \in (k + 1)..(k + l)
  BY <1>8, <1>11
<1>13. ASSUME NEW i \in 1..Len(F), NEW j \in 1..Len(F), F[i] = F[j]
       PROVE  i = j
  <2>1. CASE i \in 1..k /\ j \in 1..k
    BY <1>9, <1>11, <1>13, <2>1
  <2>2. CASE i \in 1..k /\ j \in (k + 1)..(k + l)
    BY <1>1, <1>6, <1>7, <1>11, <1>13, <2>2
  <2>3. CASE j \in 1..k /\ i \in (k + 1)..(k + l)
    <3>1. F[j] \in T
      BY <1>6, <1>11, <2>3
    <3>2. F[i] \in U
      BY <1>7, <1>11, <2>3
    <3> QED
      BY <1>1, <1>13, <3>1, <3>2
  <2>4. CASE i \in (k + 1)..(k + l) /\ j \in (k + 1)..(k + l)
    <3>1. i - k = j - k
      BY <1>10, <1>11, <1>13, <2>4
    <3> QED
      BY <1>8, <2>4, <3>1
  <2> QED
    BY <1>12, <2>1, <2>2, <2>3, <2>4
<1>14. \A i \in 1..Len(F) : F[i] \in T \cup U
  BY <1>6, <1>7, <1>11, <1>12
<1>15. ASSUME NEW item \in T \cup U
       PROVE  \E i \in 1..Len(F) : F[i] = item
  <2>1. PICK i \in 1..Len(s) : s[i] = item
    BY <1>1
  <2>2. CASE item \in T
    <3>1. PICK a \in 1..k : at[a] = i
      BY <1>6, <2>1, <2>2
    <3> QED
      BY <1>6, <1>8, <1>11, <2>1, <3>1
  <2>3. CASE item \in U
    <3>1. PICK a \in 1..l : bt[a] = i
      BY <1>7, <2>1, <2>3
    <3>2. F[k + a] = L[a] /\ L[a] = item /\ k + a \in 1..Len(F)
      BY <1>7, <1>11, <2>1, <3>1
    <3> QED
      BY <3>2
  <2> QED
    BY <2>2, <2>3
<1>16. IsPrefix(K, F)
  <2>1. k <= Len(F)
    BY <1>8, <1>11
  <2> QED
    BY <1>3, <1>11, <2>1, IsPrefixProperties
<1> QED
  BY <1>11, <1>13, <1>14, <1>15, <1>16 DEF F, T, U, K, s

LEMMA DisplayCountFacts ==
  ASSUME IndexType, NEW term
  PROVE  /\ DisplayCount(term) \in Nat /\ Cap \in Nat /\ DisplayCount(term) >= Cap
         /\ \A c \in Category :
                ExactCount(c, term) \in Nat /\ DisplayCount(term) >= ExactCount(c, term)
<1> DEFINE e(c) == ExactCount(c, term)
           S == {Cap} \cup {e(c) : c \in Category}
<1>1. Cap \in Nat
  BY DocSearchAssumption
<1>2. \A c \in Category : e(c) \in Nat
  <2> SUFFICES ASSUME NEW c \in Category
               PROVE  Len(Keep(Items(c), Exact(c, term))) \in Nat
    BY DEF ExactCount, Exact
  <2>1. Items(c) \in Seq(Item)
    BY ItemsType
  <2>2. Keep(Items(c), Exact(c, term)) \in Seq(Item)
    BY <2>1, KeepType
  <2> QED
    BY <2>2, LenProperties
<1> HIDE DEF e
<1>3. \E x \in S : \A y \in S : x >= y
  <2> DEFINE m == e("Modules")
             p == e("Packages")
             t == e("Types")
             b == e("Members")
             g == e("SearchTags")
  <2>1. S = {Cap, m, p, t, b, g}
    BY CategoriesFacts
  <2>2. m \in Nat /\ p \in Nat /\ t \in Nat /\ b \in Nat /\ g \in Nat
    BY <1>2, CategoriesFacts
  <2> HIDE DEF S, m, p, t, b, g
  <2>3. \E x \in {Cap, m, p} : x >= Cap /\ x >= m /\ x >= p
    BY <1>1, <2>2
  <2>4. \E x \in {t, b, g} : x >= t /\ x >= b /\ x >= g
    BY <2>2
  <2>5. PICK x \in {Cap, m, p} : x >= Cap /\ x >= m /\ x >= p
    BY <2>3
  <2>6. PICK y \in {t, b, g} : y >= t /\ y >= b /\ y >= g
    BY <2>4
  <2>7. x \in Nat /\ y \in Nat /\ x \in S /\ y \in S
    BY <1>1, <2>1, <2>2, <2>5, <2>6
  <2>8. CASE x >= y
    <3>1. \A z \in S : x >= z
      BY <1>1, <2>1, <2>2, <2>5, <2>6, <2>7, <2>8
    <3> QED
      BY <2>7, <3>1
  <2>9. CASE y >= x
    <3>1. \A z \in S : y >= z
      BY <1>1, <2>1, <2>2, <2>5, <2>6, <2>7, <2>9
    <3> QED
      BY <2>7, <3>1
  <2> QED
    BY <2>7, <2>8, <2>9
<1>4. Max(S) \in S /\ \A y \in S : Max(S) >= y
  BY <1>3 DEF Max
<1>5. DisplayCount(term) = Max(S)
  BY DEF DisplayCount, e
<1>6. \A y \in S : y \in Nat
  BY <1>1, <1>2
<1> HIDE DEF S
<1>7. Cap \in S /\ \A c \in Category : e(c) \in S
  BY DEF S
<1> QED
  BY <1>1, <1>2, <1>4, <1>5, <1>6, <1>7 DEF e

\* What is shown of a category, and its entries.
Shown(c, term) == SubSeq(Found(c, term), 1, Min({DisplayCount(term), Len(Found(c, term))}))
EntriesOf(c, term) == [i \in DOMAIN Shown(c, term) |-> Entry(c, Shown(c, term)[i])]

LEMMA ShownFacts ==
  ASSUME IndexType, NEW c \in Category, NEW term
  PROVE  /\ Shown(c, term) \in Seq(Item)
         /\ IsPrefix(Shown(c, term), Found(c, term))
         /\ \/ Len(Shown(c, term)) = Len(Found(c, term))
            \/ /\ Len(Shown(c, term)) = DisplayCount(term)
               /\ DisplayCount(term) <= Len(Found(c, term))
<1> DEFINE F == Found(c, term)
           n == Len(F)
           d == DisplayCount(term)
           m == Min({d, n})
           s == Shown(c, term)
<1>1. F \in Seq(Item) /\ n \in Nat /\ \A i \in 1..n : F[i] \in Item
  BY FoundFacts, LenProperties, ElementOfSeq
<1>2. d \in Nat
  BY DisplayCountFacts
<1> HIDE DEF F, n, d
<1>3. m \in {d, n} /\ m <= d /\ m <= n
  <2>1. \E x \in {d, n} : \A y \in {d, n} : x =< y
    BY <1>1, <1>2
  <2> QED
    BY <2>1 DEF Min
<1>4. s = SubSeq(F, 1, m)
  BY DEF Shown, F, n, d
<1> HIDE DEF m, s
<1>5. m \in Nat /\ \A i \in 1..m : i \in 1..n /\ F[i] \in Item
  BY <1>1, <1>2, <1>3
<1>6. s \in Seq(Item) /\ Len(s) = m /\ \A i \in 1..m : s[i] = F[i]
  <2>1. /\ SubSeq(F, 1, m) \in Seq(Item)
        /\ Len(SubSeq(F, 1, m)) = IF 1 <= m THEN m - 1 + 1 ELSE 0
        /\ \A i \in 1..(m - 1 + 1) : SubSeq(F, 1, m)[i] = F[1 + i - 1]
    BY <1>5, SubSeqProperties
  <2>2. /\ (IF 1 <= m THEN m - 1 + 1 ELSE 0) = m /\ m - 1 + 1 = m
        /\ \A i \in 1..m : 1 + i - 1 = i
    BY <1>5
  <2> QED
    BY <1>4, <2>1, <2>2
<1>7. IsPrefix(s, F)
  <2>1. Len(s) <= Len(F)
    BY <1>3, <1>6 DEF n
  <2> QED
    BY <1>1, <1>6, <2>1, IsPrefixProperties
<1> QED
  BY <1>1, <1>2, <1>3, <1>6, <1>7 DEF s, F, n, d

-------------------------------------------------------------------------------
(* The entries of a search *)

EntryLine == [category : Category, item : Item]

\* The entries of a category follow each other.
Grouped(es) ==
    \A i, j, k \in 1..Len(es) :
        i <= j /\ j <= k /\ es[i].category = es[k].category => es[j].category = es[i].category

\* The entries are those shown of the categories, each once.
Lists(es, term) ==
    /\ \A i \in 1..Len(es) : \E c \in Category : \E j \in 1..Len(Shown(c, term)) :
           es[i] = Entry(c, Shown(c, term)[j])
    /\ \A c \in Category : \A j \in 1..Len(Shown(c, term)) : \E i \in 1..Len(es) :
           es[i] = Entry(c, Shown(c, term)[j])
    /\ \A i, k \in 1..Len(es) : es[i] = es[k] => i = k

LEMMA ShownOnce ==
  ASSUME IndexType, NEW c \in Category, NEW term,
         NEW i \in 1..Len(Shown(c, term)), NEW j \in 1..Len(Shown(c, term)),
         Shown(c, term)[i] = Shown(c, term)[j]
  PROVE  i = j
<1> DEFINE F == Found(c, term)
           s == Shown(c, term)
<1>1. /\ F \in Seq(Item) /\ s \in Seq(Item) /\ IsPrefix(s, F)
      /\ \A a, b \in 1..Len(F) : F[a] = F[b] => a = b
  BY FoundFacts, ShownFacts
<1> HIDE DEF F, s
<1>2. /\ Len(s) <= Len(F) /\ \A a \in 1..Len(s) : s[a] = F[a]
      /\ Len(s) \in Nat /\ Len(F) \in Nat
  BY <1>1, IsPrefixProperties, LenProperties
<1>3. i \in 1..Len(s) /\ j \in 1..Len(s) /\ s[i] = s[j]
  BY DEF s
<1>4. i \in 1..Len(F) /\ j \in 1..Len(F) /\ F[i] = F[j]
  BY <1>2, <1>3
<1> QED
  BY <1>1, <1>4

LEMMA EntriesFacts ==
  ASSUME IndexType, NEW c \in Category, NEW term
  PROVE  /\ EntriesOf(c, term) \in Seq(EntryLine)
         /\ Len(EntriesOf(c, term)) = Len(Shown(c, term))
         /\ \A j \in 1..Len(Shown(c, term)) :
                EntriesOf(c, term)[j] = Entry(c, Shown(c, term)[j])
<1> DEFINE s == Shown(c, term)
           n == Len(s)
           E == EntriesOf(c, term)
<1>1. s \in Seq(Item)
  BY ShownFacts
<1>2. n \in Nat /\ DOMAIN s = 1..n /\ \A i \in 1..n : s[i] \in Item
  BY <1>1, LenProperties, ElementOfSeq
<1>3. E = [i \in 1..n |-> Entry(c, s[i])]
  BY <1>2 DEF EntriesOf
<1> HIDE DEF s, n, E
<1>4. \A i \in 1..n : Entry(c, s[i]) \in EntryLine
  BY <1>2 DEF Entry, EntryLine
<1>5. E \in Seq(EntryLine) /\ Len(E) = n
  BY <1>2, <1>3, <1>4
<1> QED
  BY <1>3, <1>5 DEF s, n, E

LEMMA SourceFacts ==
  ASSUME IndexType, NEW term
  PROVE  /\ Source(term) \in Seq(EntryLine)
         /\ Grouped(Source(term))
         /\ Lists(Source(term), term)
<1> DEFINE C == Categories
           s(k) == Shown(C[k], term)
           ss == [k \in 1..5 |-> EntriesOf(C[k], term)]
           es == Source(term)
           n == Len(es)
<1>1. /\ \A k \in 1..5 : C[k] \in Category
      /\ \A i, j \in 1..5 : C[i] = C[j] => i = j
      /\ \A c \in Category : \E k \in 1..5 : C[k] = c
      /\ DOMAIN C = 1..5
  BY CategoriesFacts, ElementOfSeq, LenProperties
<1>2. es = FlattenSeq(ss)
  BY <1>1 DEF Source, EntriesOf, Shown
<1>3. \A k \in 1..5 : /\ ss[k] \in Seq(EntryLine) /\ Len(ss[k]) = Len(s(k)) /\ Len(s(k)) \in Nat
                      /\ \A j \in 1..Len(s(k)) : ss[k][j] = Entry(C[k], s(k)[j])
  <2> SUFFICES ASSUME NEW k \in 1..5
               PROVE  /\ ss[k] \in Seq(EntryLine) /\ Len(ss[k]) = Len(s(k)) /\ Len(s(k)) \in Nat
                      /\ \A j \in 1..Len(s(k)) : ss[k][j] = Entry(C[k], s(k)[j])
    OBVIOUS
  <2>1. C[k] \in Category /\ ss[k] = EntriesOf(C[k], term)
    BY <1>1
  <2>2. s(k) \in Seq(Item)
    BY <2>1, ShownFacts
  <2> QED
    BY <2>1, <2>2, EntriesFacts, LenProperties
<1>4. ss \in Seq(Seq(EntryLine)) /\ Len(ss) = 5
  <2> DEFINE V == Seq(EntryLine)
  <2>1. ss \in [1..5 -> V]
    BY <1>3
  <2> HIDE DEF ss, V
  <2>2. ss \in Seq(V)
    BY <2>1, SeqDef
  <2>3. Len(ss) = 5
    BY <2>1, <2>2, LenProperties
  <2> QED
    BY <2>2, <2>3 DEF V
<1> HIDE DEF ss
<1>5. es \in Seq(EntryLine) /\ n \in Nat
  BY <1>2, <1>4, FlattenType, LenProperties
<1>6. PICK off : Laid(off, ss)
  BY <1>4, FlattenLaid
<1> HIDE DEF es, C, s
<1>7. /\ off \in [0..5 -> Nat]
      /\ \A k \in 1..5 : off[k] = off[k - 1] + Len(s(k))
      /\ \A a, b \in 0..5 : a <= b => off[a] <= off[b]
      /\ \A k \in 1..5 : \A j \in 1..Len(s(k)) :
             off[k - 1] + j \in 1..n /\ es[off[k - 1] + j] = Entry(C[k], s(k)[j])
      /\ \A i \in 1..n : \E k \in 1..5 : off[k - 1] < i /\ i <= off[k]
  <2>1. /\ off \in [0..5 -> Nat]
        /\ \A k \in 1..5 : off[k] = off[k - 1] + Len(ss[k])
        /\ \A a, b \in 0..5 : a <= b => off[a] <= off[b]
        /\ \A k \in 1..5 : \A j \in 1..Len(ss[k]) :
               off[k - 1] + j \in 1..n /\ es[off[k - 1] + j] = ss[k][j]
        /\ \A i \in 1..n : \E k \in 1..5 : off[k - 1] < i /\ i <= off[k]
    BY <1>2, <1>4, <1>6 DEF Laid
  <2>2. \A k \in 1..5 : off[k] = off[k - 1] + Len(s(k))
    BY <1>3, <2>1
  <2>3. \A k \in 1..5 : \A j \in 1..Len(s(k)) :
            off[k - 1] + j \in 1..n /\ es[off[k - 1] + j] = Entry(C[k], s(k)[j])
    BY <1>3, <2>1
  <2> QED
    BY <2>1, <2>2, <2>3
\* Entry i is one of part k.
<1> DEFINE In(i, k) == /\ off[k - 1] < i /\ i <= off[k]
                       /\ i - off[k - 1] \in 1..Len(s(k))
                       /\ es[i] = Entry(C[k], s(k)[i - off[k - 1]])
<1>8. ASSUME NEW i \in 1..n
      PROVE  \E k \in 1..5 : In(i, k)
  <2>1. PICK k \in 1..5 : off[k - 1] < i /\ i <= off[k]
    BY <1>7
  <2>2. off[k - 1] \in Nat /\ off[k] = off[k - 1] + Len(s(k)) /\ Len(s(k)) \in Nat
    <3>1. k - 1 \in 0..5
      OBVIOUS
    <3> QED
      BY <1>3, <1>7, <3>1
  <2>3. i - off[k - 1] \in 1..Len(s(k)) /\ off[k - 1] + (i - off[k - 1]) = i
    BY <2>1, <2>2
  <2>4. es[i] = Entry(C[k], s(k)[i - off[k - 1]])
    BY <1>7, <2>3
  <2> QED
    BY <2>1, <2>3, <2>4
<1>9. ASSUME NEW i \in 1..n, NEW j \in 1..n, NEW k \in 1..5, NEW l \in 1..5,
             i <= j, In(i, k), In(j, l)
      PROVE  k <= l
  <2> SUFFICES ASSUME l < k
               PROVE  FALSE
    OBVIOUS
  <2>1. k - 1 \in 0..5 /\ l \in 0..5 /\ l <= k - 1
    OBVIOUS
  <2>2. off[l] <= off[k - 1] /\ off[l] \in Nat /\ off[k - 1] \in Nat
    BY <1>7, <2>1
  <2>3. off[k - 1] < i /\ j <= off[l]
    BY <1>9
  <2> QED
    BY <1>9, <2>2, <2>3
<1>10. ASSUME NEW i \in 1..n, NEW k \in 1..5, In(i, k)
       PROVE  es[i].category = C[k] /\ es[i].item = s(k)[i - off[k - 1]]
  BY <1>10 DEF Entry
<1> HIDE DEF In
<1>11. Grouped(es)
  <2> SUFFICES ASSUME NEW i \in 1..n, NEW j \in 1..n, NEW l \in 1..n,
                      i <= j, j <= l, es[i].category = es[l].category
               PROVE  es[j].category = es[i].category
    BY DEF Grouped
  <2>1. PICK a \in 1..5 : In(i, a)
    BY <1>8
  <2>2. PICK b \in 1..5 : In(j, b)
    BY <1>8
  <2>3. PICK d \in 1..5 : In(l, d)
    BY <1>8
  <2>4. a = d
    BY <1>1, <1>10, <2>1, <2>3 DEF C
  <2>5. a <= b /\ b <= d
    BY <1>9, <2>1, <2>2, <2>3
  <2>6. a = b
    BY <2>4, <2>5
  <2> QED
    BY <1>10, <2>1, <2>2, <2>6
<1>12. \A i \in 1..n : \E c \in Category : \E j \in 1..Len(Shown(c, term)) :
           es[i] = Entry(c, Shown(c, term)[j])
  <2> SUFFICES ASSUME NEW i \in 1..n
               PROVE  \E c \in Category : \E j \in 1..Len(Shown(c, term)) :
                          es[i] = Entry(c, Shown(c, term)[j])
    OBVIOUS
  <2>1. PICK k \in 1..5 : In(i, k)
    BY <1>8
  <2>2. /\ C[k] \in Category /\ i - off[k - 1] \in 1..Len(Shown(C[k], term))
        /\ es[i] = Entry(C[k], Shown(C[k], term)[i - off[k - 1]])
    BY <1>1, <2>1 DEF In, s, C
  <2> QED
    BY <2>2
<1>13. \A c \in Category : \A j \in 1..Len(Shown(c, term)) : \E i \in 1..n :
           es[i] = Entry(c, Shown(c, term)[j])
  <2> SUFFICES ASSUME NEW c \in Category, NEW j \in 1..Len(Shown(c, term))
               PROVE  \E i \in 1..n : es[i] = Entry(c, Shown(c, term)[j])
    OBVIOUS
  <2>1. PICK k \in 1..5 : C[k] = c
    BY <1>1 DEF C
  <2>2. s(k) = Shown(c, term)
    BY <2>1 DEF s
  <2> QED
    BY <1>7, <2>1, <2>2
<1>14. ASSUME NEW i \in 1..n, NEW j \in 1..n, es[i] = es[j]
       PROVE  i = j
  <2>1. PICK k \in 1..5 : In(i, k)
    BY <1>8
  <2>2. PICK l \in 1..5 : In(j, l)
    BY <1>8
  <2>3. k = l
    BY <1>1, <1>10, <1>14, <2>1, <2>2 DEF C
  <2>4. /\ i - off[k - 1] \in 1..Len(s(k)) /\ j - off[k - 1] \in 1..Len(s(k))
        /\ s(k)[i - off[k - 1]] = s(k)[j - off[k - 1]]
    BY <1>10, <1>14, <2>1, <2>2, <2>3 DEF In
  <2>5. i - off[k - 1] = j - off[k - 1]
    <3>1. C[k] \in Category
      BY <1>1 DEF C
    <3> QED
      BY <2>4, <3>1, ShownOnce DEF s
  <2>6. off[k - 1] \in Nat
    <3>1. k - 1 \in 0..5
      OBVIOUS
    <3> QED
      BY <1>7, <3>1
  <2> QED
    BY <1>5, <2>5, <2>6
<1> QED
  BY <1>5, <1>11, <1>12, <1>13, <1>14 DEF Lists, es

-------------------------------------------------------------------------------
(* The menu of a search *)

Line == [category : Category \cup {None}, item : Item \cup {None}]

\* UnderItsHeader, of any menu.
Headed(m) ==
    \A k \in {p \in DOMAIN m : m[p].item # None} : \E h \in 1..(k - 1) :
        /\ m[h] = Header(m[k].category)
        /\ \A j \in DOMAIN m : m[j] = m[h] => j = h
        /\ \A j \in h..k : m[j].category = m[h].category

\* Entry i is line at[i] of the menu, and there are no other entries.
Placed(at, es, m) ==
    /\ at \in [1..Len(es) -> 1..Len(m)]
    /\ \A i, j \in 1..Len(es) : i < j => at[i] < at[j]
    /\ \A i \in 1..Len(es) : m[at[i]] = es[i]
    /\ \A p \in 1..Len(m) : m[p].item # None => \E i \in 1..Len(es) : at[i] = p

LEMMA Rendered ==
  ASSUME NEW es \in Seq(EntryLine), Grouped(es)
  PROVE  /\ RenderMenu(es) \in Seq(Line)
         /\ Headed(RenderMenu(es))
         /\ \E at : Placed(at, es, RenderMenu(es))
<1> DEFINE n == Len(es)
           First(i) == ~(i > 1 /\ es[i - 1].category = es[i].category)
           head(i) == Header(es[i].category)
           part(i) == IF First(i) THEN <<head(i), es[i]>> ELSE <<es[i]>>
           ss == [i \in 1..n |-> part(i)]
           m == RenderMenu(es)
<1>1. n \in Nat /\ DOMAIN es = 1..n /\ \A i \in 1..n : es[i] \in EntryLine
  BY LenProperties, ElementOfSeq
<1>2. ASSUME NEW i \in 1..n
      PROVE  /\ es[i] \in Line /\ head(i) \in Line
             /\ es[i].item # None /\ head(i).item = None
             /\ es[i] # NoResult /\ head(i).category = es[i].category
  BY <1>1, DocSearchAssumption DEF EntryLine, Line, Header, NoResult, Entry
<1>3. m = FlattenSeq(ss)
  BY <1>1, <1>2 DEF RenderMenu
<1> HIDE DEF m, head
<1>4. ASSUME NEW i \in 1..n
      PROVE  /\ ss[i] \in Seq(Line)
             /\ Len(ss[i]) = IF First(i) THEN 2 ELSE 1
             /\ ss[i][Len(ss[i])] = es[i]
             /\ First(i) => ss[i][1] = head(i)
  <2>1. ss[i] = part(i)
    OBVIOUS
  <2> HIDE DEF ss, First
  <2>2. CASE First(i)
    BY <1>2, <2>1, <2>2
  <2>3. CASE ~First(i)
    BY <1>2, <2>1, <2>3
  <2> QED
    BY <2>2, <2>3
<1>5. ss \in Seq(Seq(Line)) /\ Len(ss) = n
  <2> DEFINE V == Seq(Line)
  <2>1. ss \in [1..n -> V]
    BY <1>4
  <2> HIDE DEF ss, V
  <2>2. ss \in Seq(V)
    BY <1>1, <2>1, SeqDef
  <2>3. Len(ss) = n
    BY <1>1, <2>1, <2>2, LenProperties
  <2> QED
    BY <2>2, <2>3 DEF V
<1>6. m \in Seq(Line) /\ Len(m) \in Nat /\ DOMAIN m = 1..Len(m)
  BY <1>3, <1>5, FlattenType, LenProperties
<1>7. PICK off : Laid(off, ss)
  BY <1>5, FlattenLaid
<1> HIDE DEF ss, n, First
<1>8. /\ off \in [0..n -> Nat] /\ Len(m) = off[n]
      /\ \A i \in 1..n : off[i] = off[i - 1] + Len(ss[i])
      /\ \A a, b \in 0..n : a <= b => off[a] <= off[b]
      /\ \A i \in 1..n : \A j \in 1..Len(ss[i]) :
             off[i - 1] + j \in 1..Len(m) /\ m[off[i - 1] + j] = ss[i][j]
      /\ \A p \in 1..Len(m) : \E i \in 1..n : off[i - 1] < p /\ p <= off[i]
  BY <1>3, <1>5, <1>7 DEF Laid
<1>9. ASSUME NEW i \in 1..n
      PROVE  /\ off[i - 1] \in Nat /\ off[i] \in Nat /\ off[i - 1] < off[i]
             /\ off[i] \in 1..Len(m) /\ m[off[i]] = es[i]
             /\ First(i) => /\ off[i] = off[i - 1] + 2
                            /\ m[off[i - 1] + 1] = head(i)
             /\ ~First(i) => off[i] = off[i - 1] + 1
  <2>1. i - 1 \in 0..n /\ i \in 0..n
    BY <1>1
  <2>2. off[i - 1] \in Nat /\ off[i] \in Nat /\ off[i] = off[i - 1] + Len(ss[i])
    BY <1>8, <2>1
  <2>3. Len(ss[i]) \in 1..Len(ss[i]) /\ Len(ss[i]) \in {1, 2} /\ 1 \in 1..Len(ss[i])
    <3> DEFINE l == Len(ss[i])
    <3>1. l = 1 \/ l = 2
      BY <1>4
    <3> HIDE DEF l
    <3>2. l \in 1..l /\ l \in {1, 2} /\ 1 \in 1..l
      BY <3>1
    <3> QED
      BY <3>2 DEF l
  <2>4. off[i] \in 1..Len(m) /\ m[off[i]] = es[i]
    BY <1>4, <1>8, <2>2, <2>3
  <2>5. First(i) => m[off[i - 1] + 1] = head(i)
    BY <1>4, <1>8, <2>3
  <2> QED
    BY <1>4, <2>2, <2>3, <2>4, <2>5
\* Line p is entry i or the header before it.
<1>10. ASSUME NEW p \in 1..Len(m)
       PROVE  \E i \in 1..n : /\ off[i - 1] < p /\ p <= off[i]
                              /\ \/ p = off[i] /\ m[p] = es[i]
                                 \/ First(i) /\ p = off[i - 1] + 1 /\ m[p] = head(i)
  <2>1. PICK i \in 1..n : off[i - 1] < p /\ p <= off[i]
    BY <1>8
  <2>2. CASE p = off[i]
    BY <1>9, <2>1, <2>2
  <2>3. CASE p # off[i]
    <3>1. First(i) /\ p = off[i - 1] + 1
      BY <1>9, <2>1, <2>3
    <3> QED
      BY <1>9, <2>1, <3>1
  <2> QED
    BY <2>2, <2>3
<1>11. ASSUME NEW i \in 1..n, NEW j \in 1..n, i < j
       PROVE  off[i] <= off[j - 1] /\ off[i] < off[j]
  <2>1. i \in 0..n /\ j - 1 \in 0..n /\ i <= j - 1
    BY <1>1, <1>11
  <2>2. off[i] <= off[j - 1]
    BY <1>8, <2>1
  <2> QED
    BY <1>9, <2>2
<1>12. \E at : Placed(at, es, m)
  <2> DEFINE at == [i \in 1..n |-> off[i]]
  <2>1. at \in [1..n -> 1..Len(m)] /\ \A i \in 1..n : at[i] = off[i]
    BY <1>9
  <2> HIDE DEF at
  <2>2. \A i, j \in 1..n : i < j => at[i] < at[j]
    BY <1>11, <2>1
  <2>3. \A p \in 1..Len(m) : m[p].item # None => \E i \in 1..n : at[i] = p
    BY <1>2, <1>10, <2>1
  <2>4. Placed(at, es, m)
    BY <1>9, <2>1, <2>2, <2>3 DEF Placed, n
  <2> QED
    BY <2>4
<1>13. ASSUME NEW k \in 1..Len(m), m[k].item # None
       PROVE  \E h \in 1..(k - 1) :
                 /\ m[h] = Header(m[k].category)
                 /\ \A j \in 1..Len(m) : m[j] = m[h] => j = h
                 /\ \A j \in h..k : m[j].category = m[h].category
  <2>1. PICK i \in 1..n : k = off[i] /\ m[k] = es[i]
    BY <1>2, <1>10, <1>13
  <2> DEFINE c == es[i].category
             T == {a \in 1..n : es[a].category = c}
  <2>2. PICK f \in T : \A a \in T : f <= a
    <3>1. T \in SUBSET Nat /\ T # {}
      BY <1>1
    <3> HIDE DEF T
    <3> QED
      BY <3>1, LeastOf
  <2>3. f \in 1..n /\ es[f].category = c /\ f <= i
    BY <2>2
  <2>4. First(f)
    <3> SUFFICES ASSUME f > 1, es[f - 1].category = es[f].category
                 PROVE  FALSE
      BY DEF First
    <3>1. f - 1 \in T /\ f - 1 < f
      BY <1>1, <2>3
    <3> QED
      BY <2>2, <3>1
  <2> DEFINE h == off[f - 1] + 1
  <2>5. /\ h \in 1..Len(m) /\ m[h] = head(f) /\ h < off[f]
    BY <1>6, <1>9, <2>3, <2>4
  <2>6. off[f] <= k
    BY <1>9, <1>11, <2>1, <2>3
  <2>7. h \in 1..(k - 1)
    BY <1>9, <2>1, <2>3, <2>5, <2>6
  <2>8. m[h] = Header(c) /\ m[h].category = c /\ m[h].item = None
    BY <1>2, <2>3, <2>5 DEF head
  <2> HIDE DEF h
  <2>9. ASSUME NEW j \in 1..Len(m), m[j] = m[h]
        PROVE  j = h
    <3>1. PICK b \in 1..n : First(b) /\ j = off[b - 1] + 1 /\ m[j] = head(b)
      BY <1>2, <1>10, <2>8, <2>9
    <3>2. es[b].category = c
      BY <1>2, <2>8, <2>9, <3>1
    <3>3. f <= b
      BY <2>2, <3>2
    <3>4. CASE f < b
      <4>1. b - 1 \in 1..n /\ f <= b - 1 /\ b - 1 <= b /\ b > 1
        BY <1>1, <2>3, <3>4
      <4>2. es[b - 1].category = es[f].category
        BY <2>3, <3>2, <4>1 DEF Grouped, n
      <4> QED
        BY <2>3, <3>1, <3>2, <4>1, <4>2 DEF First
    <3>5. CASE f = b
      BY <3>1, <3>5 DEF h
    <3> QED
      BY <2>3, <3>3, <3>4, <3>5
  <2>10. ASSUME NEW j \in h..k
         PROVE  m[j].category = m[h].category
    <3>1. j \in 1..Len(m)
      BY <1>6, <2>7
    <3>2. PICK b \in 1..n : /\ off[b - 1] < j /\ j <= off[b]
                            /\ m[j] = es[b] \/ m[j] = head(b)
      BY <1>10, <3>1
    <3>3. f <= b
      <4> SUFFICES ASSUME b < f
                   PROVE  FALSE
        BY <2>3
      <4>1. off[b] <= off[f - 1]
        BY <1>11, <2>3
      <4>2. h <= j /\ off[f - 1] < h
        BY <1>9, <2>3 DEF h
      <4>3. off[b] \in Nat /\ off[f - 1] \in Nat
        BY <1>9, <2>3
      <4> QED
        BY <2>5, <3>1, <3>2, <4>1, <4>2, <4>3
    <3>4. b <= i
      <4> SUFFICES ASSUME i < b
                   PROVE  FALSE
        OBVIOUS
      <4>1. off[i] <= off[b - 1]
        BY <1>11
      <4>2. off[i] \in Nat /\ off[b - 1] \in Nat /\ j <= k
        BY <1>9
      <4> QED
        BY <2>1, <3>1, <3>2, <4>1, <4>2
    <3>5. es[b].category = c
      BY <2>3, <3>3, <3>4 DEF Grouped, n
    <3> QED
      BY <1>2, <2>8, <3>2, <3>5
  <2> QED
    BY <2>1, <2>7, <2>8, <2>9, <2>10
<1>14. Headed(m)
  BY <1>6, <1>13 DEF Headed
<1> QED
  BY <1>6, <1>12, <1>14 DEF m

-------------------------------------------------------------------------------
(* The invariants of the menu and the field *)

MenuRight(m) ==
    /\ Headed(m)
    /\ \A k \in DOMAIN m : m[k].item # None => m[k].category \in Category /\ m[k].item \in Item

\* The rest of TypeOK, and UnderItsHeader.
PageRight ==
    /\ IndexType /\ asking \subseteq Files
    /\ ready \in BOOLEAN /\ marked \in BOOLEAN /\ timer \in BOOLEAN /\ focused \in BOOLEAN
    /\ field = Watermark => marked
    /\ timer \/ menu # <<>> => focused
    /\ MenuRight(menu)

LEMMA EmptyMenuRight == MenuRight(<<>>)
<1>1. DOMAIN <<>> = {}
  OBVIOUS
<1> DEFINE m == <<>>
<1>2. DOMAIN m = {}
  BY <1>1
<1> HIDE DEF m
<1>3. MenuRight(m)
  BY <1>2 DEF MenuRight, Headed
<1> QED
  BY <1>3 DEF m

LEMMA NoResultMenu == RenderMenu(<<NoResult>>) = <<NoResult>>
<1>1. RenderMenu(<<NoResult>>) = FlattenSeq(<< <<NoResult>> >>)
  BY DEF RenderMenu
<1>2. <<>> \in Seq(Seq({NoResult})) /\ <<NoResult>> \in Seq({NoResult})
  BY EmptySeq
<1>3. FlattenSeq(Append(<<>>, <<NoResult>>)) = FlattenSeq(<<>>) \o <<NoResult>>
  BY <1>2, FlattenAppend
<1>4. Append(<<>>, <<NoResult>>) = << <<NoResult>> >>
  OBVIOUS
<1>5. <<>> \o <<NoResult>> = <<NoResult>>
  BY <1>2, ConcatEmptySeq
<1> QED
  BY <1>1, <1>3, <1>4, <1>5, FlattenEmpty

LEMMA SearchedMenuRight ==
  ASSUME IndexType, NEW term, SearchFor(term)
  PROVE  MenuRight(menu')
<1> DEFINE es == Source(term)
           m == RenderMenu(Response(es))
<1>1. CASE term = <<>>
  BY <1>1, EmptyMenuRight DEF SearchFor
<1>2. CASE term # <<>> /\ es # <<>>
  <2>1. menu' = RenderMenu(es)
    BY <1>2 DEF SearchFor, Response
  <2>2. es \in Seq(EntryLine) /\ Grouped(es)
    BY SourceFacts
  <2> HIDE DEF es
  <2>3. RenderMenu(es) \in Seq(Line) /\ Headed(RenderMenu(es))
    BY <2>2, Rendered
  <2>4. PICK at : Placed(at, es, RenderMenu(es))
    BY <2>2, Rendered
  <2> DEFINE r == RenderMenu(es)
  <2> HIDE DEF r
  <2>5. ASSUME NEW k \in DOMAIN r, r[k].item # None
        PROVE  r[k].category \in Category /\ r[k].item \in Item
    <3>1. k \in 1..Len(r)
      BY <2>3, LenProperties DEF r
    <3>2. PICK i \in 1..Len(es) : r[k] = es[i]
      BY <2>4, <2>5, <3>1 DEF Placed, r
    <3>3. es[i] \in EntryLine
      BY <2>2, ElementOfSeq
    <3> QED
      BY <3>2, <3>3 DEF EntryLine
  <2> QED
    BY <2>1, <2>3, <2>5 DEF MenuRight, r
<1>3. CASE term # <<>> /\ es = <<>>
  <2>1. menu' = RenderMenu(<<NoResult>>)
    BY <1>3 DEF SearchFor, Response
  <2>2. menu' = <<NoResult>>
    BY <2>1, NoResultMenu
  <2> DEFINE r == menu'
  <2>4. DOMAIN r = {1} /\ r[1].item = None
    BY <2>2 DEF NoResult, Entry
  <2> HIDE DEF r
  <2>5. MenuRight(r)
    BY <2>4 DEF MenuRight, Headed
  <2> QED
    BY <2>5 DEF r
<1> QED
  BY <1>1, <1>2, <1>3

\* A step leaves the menu, closes it, or searches for a text in the indexes there are.
LEMMA MenuChanges ==
  ASSUME IInv, [Next]_vars
  PROVE  \/ menu' = menu
         \/ menu' = <<>>
         \/ index' = index /\ \E term \in Texts : SearchFor(term)
<1>1. CASE \/ \E f \in Files : Arrives(f) \/ ZipLost(f)
           \/ Ready \/ Blur \/ Reset \/ Escape \/ Click \/ Erase \/ UNCHANGED vars
  BY <1>1 DEF Arrives, ZipLost, Ready, Blur, Reset, Escape, Click, Erase, vars
<1>2. CASE TimerFires
  BY <1>2 DEF TimerFires, page, IInv, TypedText, TimedText
<1>3. CASE Arrow
  <2>1. Cleared \in Texts
    BY ClearedTyped DEF IInv
  <2> QED
    BY <1>3, <2>1 DEF Arrow, page
<1>4. CASE \E k \in Key : Type(k)
  BY <1>4 DEF Type
<1>5. CASE \E k \in DOMAIN menu : Select(k)
  BY <1>5 DEF Select
<1> QED
  BY <1>1, <1>2, <1>3, <1>4, <1>5 DEF Next, User

LEMMA MenuStaysRight ==
  ASSUME IInv, PageRight, [Next]_vars
  PROVE  MenuRight(menu')
<1>1. CASE menu' = menu
  BY <1>1 DEF PageRight
<1>2. CASE menu' = <<>>
  BY <1>2, EmptyMenuRight
<1>3. CASE \E term \in Texts : SearchFor(term)
  BY <1>3, SearchedMenuRight DEF PageRight
<1> QED
  BY <1>1, <1>2, <1>3, MenuChanges

LEMMA InitPageRight == Init => PageRight
<1> SUFFICES ASSUME Init
             PROVE  PageRight
  OBVIOUS
<1>1. MenuRight(menu)
  BY EmptyMenuRight DEF Init
<1>2. IndexType /\ asking \subseteq Files
  BY DEF Init, IndexType, Requests
<1>3. field # Watermark
  BY TextsFacts DEF Init
<1> QED
  BY <1>1, <1>2, <1>3 DEF Init, PageRight

\* Which files are there and which are on their way.
LEMMA LoadingTyped ==
  ASSUME PageRight, [Next]_vars
  PROVE  IndexType' /\ asking' \subseteq Files
<1>1. CASE UNCHANGED page
  BY <1>1 DEF PageRight, IndexType, page
<1>2. ASSUME NEW f \in Files, Arrives(f) \/ ZipLost(f)
      PROVE  IndexType' /\ asking' \subseteq Files
  BY <1>2 DEF Arrives, ZipLost, PageRight, IndexType
<1>3. CASE Ready \/ TimerFires \/ User \/ UNCHANGED vars
  BY <1>1, <1>3 DEF Ready, TimerFires, User, Type, Erase, Click, Arrow, Escape, Blur, Reset,
                    Select, page, vars
<1> QED
  BY <1>2, <1>3 DEF Next

\* The class "watermark", the focus, the timer and the closing of the menu.
LEMMA FieldMarked ==
  ASSUME IInv, PageRight, [Next]_vars
  PROVE  /\ ready' \in BOOLEAN /\ marked' \in BOOLEAN /\ timer' \in BOOLEAN /\ focused' \in BOOLEAN
         /\ field' = Watermark => marked'
         /\ timer' \/ menu' # <<>> => focused'
<1>1. /\ ready \in BOOLEAN /\ marked \in BOOLEAN /\ timer \in BOOLEAN /\ focused \in BOOLEAN
      /\ field = Watermark => marked
      /\ timer \/ menu # <<>> => focused
      /\ Cleared \in Texts /\ asked \in Texts /\ field \in Texts \cup {Watermark}
      /\ Watermark \notin Texts /\ <<>> \in Texts
      /\ Cleared # Watermark /\ <<>> # Watermark /\ asked # Watermark
  BY ClearedTyped, TextsFacts DEF IInv, TypedText, PageRight
<1>2. TypedText'
  BY LoadingKeeps, TimerKeeps, UserKeeps DEF Next, IInv
<1>3. Unmarked \in BOOLEAN
  BY <1>1 DEF Unmarked
<1>4. CASE \/ \E f \in Files : Arrives(f) \/ ZipLost(f)
           \/ UNCHANGED vars
  BY <1>1, <1>4 DEF Arrives, ZipLost, text, vars
<1>5. CASE Ready
  BY <1>1, <1>5 DEF Ready, page
<1>6. CASE TimerFires
  BY <1>1, <1>6 DEF TimerFires, text
<1>7. CASE \E k \in Key : Type(k)
  <2>1. PICK k \in Key : Type(k)
    BY <1>7
  <2>2. field' # Watermark
    <3>1. Append(Cleared, k) # <<>> /\ Append(Cleared, k) \in Seq(Key)
      BY <1>1, TextsFacts, AppendProperties
    <3> QED
      BY <2>1, <3>1, DocSearchAssumption DEF Type
  <2> QED
    BY <1>1, <1>3, <2>1, <2>2 DEF Type
<1>8. CASE Erase
  <2>1. field' # Watermark
    <3>1. CASE Cleared = <<>>
      BY <1>1, <1>8, <3>1 DEF Erase
    <3>2. CASE Cleared # <<>>
      <4>1. field' = Front(Cleared)
        BY <1>8, <3>2 DEF Erase
      <4> QED
        BY <1>1, <4>1, ErasedTyped, <3>2
    <3> QED
      BY <3>1, <3>2
  <2> QED
    BY <1>1, <1>3, <1>8, <2>1 DEF Erase
<1>9. CASE Click
  BY <1>1, <1>3, <1>9 DEF Click
<1>10. CASE Arrow
  <2>1. field' # Watermark
    BY <1>1, <1>10 DEF Arrow
  <2> QED
    BY <1>1, <1>3, <1>10, <2>1 DEF Arrow
<1>11. CASE Escape
  BY <1>1, <1>3, <1>11 DEF Escape
<1>12. CASE Blur
  BY <1>1, <1>12 DEF Blur
<1>13. CASE Reset
  BY <1>1, <1>13 DEF Reset
<1>14. CASE \E k \in DOMAIN menu : Select(k)
  BY <1>1, <1>14 DEF Select
<1> QED
  BY <1>4, <1>5, <1>6, <1>7, <1>8, <1>9, <1>10, <1>11, <1>12, <1>13, <1>14 DEF Next, User

LEMMA PageStaysRight ==
  ASSUME IInv, PageRight, [Next]_vars
  PROVE  PageRight'
BY LoadingTyped, FieldMarked, MenuStaysRight DEF PageRight

LEMMA PageInv == Spec => [](IInv /\ PageRight)
<1>1. IInv /\ PageRight /\ [Next]_vars => (IInv /\ PageRight)'
  BY LoadingKeeps, TimerKeeps, UserKeeps, PageStaysRight DEF Next
<1> QED
  BY <1>1, InitIInv, InitPageRight, PTL DEF Spec

\* The field, the class of its watermark, the focus and the lines of the menu fit
\* each other, for any indexes, keys and order of events.
THEOREM TypeCorrect == Spec => []TypeOK
<1>1. IInv /\ PageRight => TypeOK
  BY DEF IInv, TypedText, PageRight, IndexType, MenuRight, TypeOK, Entries
<1> QED
  BY <1>1, PageInv, PTL

\* Every entry of the menu stands under the header of its category, which is there
\* once (_renderMenu in search.js).
THEOREM EntriesUnderHeaders == Spec => []UnderItsHeader
<1>1. PageRight => UnderItsHeader
  BY DEF PageRight, MenuRight, Headed, UnderItsHeader, Entries
<1> QED
  BY <1>1, PageInv, PTL

-------------------------------------------------------------------------------
(* What a search lists *)

LEMMA SearchPlaces ==
  ASSUME IndexType, NEW term, term # <<>>, SearchFor(term)
  PROVE  menu' \in Seq(Line) /\ \E at : Placed(at, Source(term), menu')
<1> DEFINE es == Source(term)
           m == menu'
<1>1. es \in Seq(EntryLine) /\ Grouped(es)
  BY SourceFacts
<1>2. m = RenderMenu(Response(es))
  BY DEF SearchFor
<1> HIDE DEF es, m
<1>3. CASE es # <<>>
  <2>1. m = RenderMenu(es)
    BY <1>2, <1>3 DEF Response
  <2> QED
    BY <1>1, <2>1, Rendered DEF es, m
<1>4. CASE es = <<>>
  <2>1. m = <<NoResult>>
    BY <1>2, <1>4, NoResultMenu DEF Response
  <2> DEFINE at == [i \in 1..0 |-> 0]
  <2>2. /\ m \in Seq(Line) /\ Len(m) = 1 /\ Len(es) = 0
        /\ \A p \in 1..1 : m[p].item = None
    BY <1>4, <2>1 DEF NoResult, Entry, Line
  <2>3. at \in [1..0 -> 1..1]
    OBVIOUS
  <2> HIDE DEF at
  <2>4. Placed(at, es, m)
    BY <2>2, <2>3 DEF Placed
  <2> QED
    BY <2>2, <2>4 DEF es, m
<1> QED
  BY <1>3, <1>4

\* The items of category c in a menu are those shown of it, each in one line.
LinesOf(m, c) == {p \in DOMAIN m : m[p].category = c /\ m[p].item # None}
LEMMA LinesFacts ==
  ASSUME IndexType, NEW term, NEW c \in Category, NEW m \in Seq(Line),
         NEW at, Placed(at, Source(term), m)
  PROVE  /\ {m[p].item : p \in LinesOf(m, c)} = Range(Shown(c, term))
         /\ IsFiniteSet(LinesOf(m, c))
         /\ Cardinality({m[p].item : p \in LinesOf(m, c)}) = Cardinality(LinesOf(m, c))
<1> DEFINE es == Source(term)
           s == Shown(c, term)
           L == LinesOf(m, c)
           n == Len(es)
<1>1. es \in Seq(EntryLine) /\ Lists(es, term) /\ s \in Seq(Item)
  BY SourceFacts, ShownFacts
<1>2. Placed(at, es, m)
  OBVIOUS
<1>3. DOMAIN m = 1..Len(m) /\ Len(m) \in Nat /\ DOMAIN s = 1..Len(s) /\ n \in Nat
  BY <1>1, LenProperties
<1>4. \A j \in 1..Len(s) : s[j] \in Item
  BY <1>1, ElementOfSeq
<1> HIDE DEF es
<1>5. /\ at \in [1..n -> 1..Len(m)]
      /\ \A i \in 1..n : m[at[i]] = es[i]
      /\ \A p \in 1..Len(m) : m[p].item # None => \E i \in 1..n : at[i] = p
  BY <1>2 DEF Placed
<1>6. ASSUME NEW p \in L
      PROVE  \E i \in 1..n : \E j \in 1..Len(s) :
                 at[i] = p /\ es[i] = Entry(c, s[j]) /\ m[p] = es[i] /\ m[p].item = s[j]
  <2>1. p \in 1..Len(m) /\ m[p].category = c /\ m[p].item # None
    BY <1>3 DEF LinesOf
  <2>2. PICK i \in 1..n : at[i] = p /\ m[p] = es[i]
    BY <1>5, <2>1
  <2>3. PICK d \in Category : \E j \in 1..Len(Shown(d, term)) : es[i] = Entry(d, Shown(d, term)[j])
    BY <1>1, <2>2 DEF Lists
  <2>4. PICK j \in 1..Len(Shown(d, term)) : es[i] = Entry(d, Shown(d, term)[j])
    BY <2>3
  <2>5. d = c
    BY <2>1, <2>2, <2>4 DEF Entry
  <2>6. j \in 1..Len(s) /\ es[i] = Entry(c, s[j]) /\ m[p].item = s[j]
    BY <2>2, <2>4, <2>5 DEF Entry
  <2> QED
    BY <2>2, <2>6
<1>7. ASSUME NEW j \in 1..Len(s)
      PROVE  \E p \in L : m[p].item = s[j]
  <2>1. PICK i \in 1..n : es[i] = Entry(c, s[j])
    BY <1>1 DEF Lists
  <2>2. at[i] \in 1..Len(m) /\ m[at[i]] = Entry(c, s[j])
    BY <1>5, <2>1
  <2>3. s[j] # None
    BY <1>4, DocSearchAssumption
  <2>4. m[at[i]].category = c /\ m[at[i]].item = s[j]
    BY <2>2 DEF Entry
  <2> QED
    BY <1>3, <2>2, <2>3, <2>4 DEF LinesOf
<1>8. ASSUME NEW p \in L, NEW q \in L, m[p].item = m[q].item
      PROVE  p = q
  <2>1. PICK i \in 1..n : \E j \in 1..Len(s) :
            at[i] = p /\ es[i] = Entry(c, s[j]) /\ m[p] = es[i] /\ m[p].item = s[j]
    BY <1>6
  <2>2. PICK k \in 1..n : \E j \in 1..Len(s) :
            at[k] = q /\ es[k] = Entry(c, s[j]) /\ m[q] = es[k] /\ m[q].item = s[j]
    BY <1>6
  <2>3. es[i] = es[k]
    BY <1>8, <2>1, <2>2
  <2>4. i = k
    BY <1>1, <2>3 DEF Lists
  <2> QED
    BY <2>1, <2>2, <2>4
<1> HIDE DEF s, L
<1>9. {m[p].item : p \in L} = Range(s)
  <2>0. Range(s) = {s[j] : j \in 1..Len(s)}
    BY <1>3 DEF Range
  <2>1. \A p \in L : m[p].item \in Range(s)
    BY <1>6, <2>0
  <2>2. \A x \in Range(s) : x \in {m[p].item : p \in L}
    BY <1>7, <2>0
  <2> QED
    BY <2>1, <2>2
<1>10. IsFiniteSet(L)
  <2>1. IsFiniteSet(1..Len(m))
    BY <1>3, FS_Interval
  <2>2. L \in SUBSET (1..Len(m))
    BY <1>3 DEF L, LinesOf
  <2> QED
    BY <2>1, <2>2, FS_Subset
<1>11. Cardinality({m[p].item : p \in L}) = Cardinality(L)
  <2> DEFINE f == [p \in L |-> m[p].item]
  <2>1. {m[p].item : p \in L} = {f[p] : p \in L}
    OBVIOUS
  <2>2. \A p \in L : f[p] = m[p].item
    OBVIOUS
  <2> HIDE DEF f
  <2>3. \A p, q \in L : f[p] = f[q] => p = q
    BY <1>8, <2>2
  <2>4. Cardinality({f[p] : p \in L}) = Cardinality(L)
    BY <1>10, <2>3, ImageCardinality
  <2> QED
    BY <2>1, <2>4
<1> QED
  BY <1>9, <1>10, <1>11 DEF L, s

\* What is shown of a category is found, and is all of it or as much as its share.
LEMMA ShownMatches ==
  ASSUME IndexType, NEW c \in Category, NEW term
  PROVE  /\ Range(Shown(c, term)) \subseteq Primary(c, term) \cup Other(c, term)
         /\ \/ With(c, term) \subseteq Range(Shown(c, term))
            \/ Cardinality(Range(Shown(c, term))) >= Cap
<1> DEFINE s == Shown(c, term)
           F == Found(c, term)
           M == Primary(c, term) \cup Other(c, term)
           d == DisplayCount(term)
           W == With(c, term)
<1>1. s \in Seq(Item) /\ F \in Seq(Item) /\ IsPrefix(s, F)
  BY ShownFacts, FoundFacts
<1>2. /\ \A i \in 1..Len(F) : F[i] \in M
      /\ \A item \in M : \E i \in 1..Len(F) : F[i] = item
  BY FoundFacts
<1>3. Len(s) = Len(F) \/ Len(s) = d
  BY ShownFacts
<1>4. d \in Nat /\ Cap \in Nat /\ d >= Cap
  BY DisplayCountFacts
<1>5. W \subseteq M
  BY DEF With, Other
<1>6. Cardinality(Range(s)) = Len(s)
  BY <1>1, ShownOnce, RangeCardinality
<1> HIDE DEF s, F, M, d, W
<1>7. /\ Len(s) <= Len(F) /\ \A i \in 1..Len(s) : s[i] = F[i]
      /\ Len(s) \in Nat /\ Len(F) \in Nat /\ DOMAIN s = 1..Len(s)
  BY <1>1, IsPrefixProperties, LenProperties
<1>8. Range(s) \subseteq M
  BY <1>2, <1>7 DEF Range
<1>9. CASE Len(s) = Len(F)
  <2>1. M \subseteq Range(s)
    BY <1>2, <1>7, <1>9 DEF Range
  <2> QED
    BY <1>5, <1>8, <2>1 DEF s, M, W
<1>10. CASE Len(s) = d
  BY <1>4, <1>6, <1>8, <1>10 DEF s, M
<1> QED
  BY <1>3, <1>9, <1>10

\* The exact match at position j of an index is shown when no inexact primary
\* match comes before it.
LEMMA ExactShown ==
  ASSUME IndexType, NEW c \in Category, NEW term, NEW j \in 1..Len(Items(c)),
         IsExact(c, term, Items(c)[j]),
         \A i \in 1..(j - 1) : IsPrimary(c, term, Items(c)[i]) => IsExact(c, term, Items(c)[i])
  PROVE  Items(c)[j] \in Range(Shown(c, term))
<1> DEFINE s == Items(c)
           T == Primary(c, term)
           E == Exact(c, term)
           b == SubSeq(s, 1, j)
           F == Found(c, term)
           r == Shown(c, term)
           k == Len(Keep(b, T))
           d == DisplayCount(term)
<1>1. s \in Seq(Item) /\ Len(s) \in Nat /\ DOMAIN s = 1..Len(s) /\ j \in 0..Len(s)
  BY ItemsType, LenProperties
<1>2. \A i \in 1..Len(s) : s[i] \in Item /\ s[i] \in Range(s)
  BY <1>1, ElementOfSeq DEF Range
<1>3. \A i \in 1..j : i \in 1..Len(s) /\ (s[i] \in T <=> s[i] \in E)
  <2> SUFFICES ASSUME NEW i \in 1..j
               PROVE  i \in 1..Len(s) /\ (s[i] \in T <=> s[i] \in E)
    OBVIOUS
  <2>1. i \in 1..Len(s) /\ s[i] \in Range(s)
    BY <1>1, <1>2
  <2>2. s[i] \in E => s[i] \in T
    BY DEF Exact, Primary, IsPrimary
  <2>3. s[i] \in T => s[i] \in E
    <3>1. CASE i = j
      BY <2>1, <3>1 DEF Exact
    <3>2. CASE i # j
      <4>1. i \in 1..(j - 1)
        BY <1>1, <3>2
      <4> QED
        BY <2>1, <4>1 DEF Exact, Primary
    <3> QED
      BY <3>1, <3>2
  <2> QED
    BY <2>1, <2>2, <2>3
<1>4. s[j] \in T
  BY <1>2 DEF Primary, IsPrimary
<1>5. /\ F \in Seq(Item) /\ r \in Seq(Item)
      /\ IsPrefix(Keep(s, T), F) /\ IsPrefix(r, F)
      /\ Len(r) = Len(F) \/ Len(r) = d
  BY FoundFacts, ShownFacts
<1>6. d \in Nat /\ Len(Keep(s, E)) <= d /\ Len(Keep(s, E)) \in Nat
  BY DisplayCountFacts DEF ExactCount, Exact
<1> HIDE DEF s, T, E, F, r, d
<1>7. b \in Seq(Item) /\ Len(b) = j /\ \A i \in 1..j : b[i] = s[i]
  BY <1>1, <1>2, <1>3, SubSeqProperties
<1> HIDE DEF b
<1>8. Keep(b, T) = Keep(b, E)
  BY <1>3, <1>7, KeepSame
<1>9. Keep(b, T) \in Seq(Item) /\ Keep(s, T) \in Seq(Item) /\ Keep(s, E) \in Seq(Item)
  BY <1>1, <1>7, KeepType
<1>10. k \in 1..Len(Keep(s, T)) /\ Keep(s, T)[k] = s[j]
  BY <1>1, <1>4, KeepPosition DEF b, s
<1>11. IsPrefix(Keep(b, E), Keep(s, E))
  BY <1>1, KeepIsPrefix DEF b
<1>12. k <= Len(Keep(s, E))
  BY <1>8, <1>9, <1>11, IsPrefixProperties
<1>13. k \in 1..Len(F) /\ F[k] = s[j]
  <2>1. /\ Len(Keep(s, T)) <= Len(F) /\ \A i \in 1..Len(Keep(s, T)) : Keep(s, T)[i] = F[i]
        /\ Len(F) \in Nat /\ Len(Keep(s, T)) \in Nat
    BY <1>5, <1>9, IsPrefixProperties, LenProperties
  <2> QED
    BY <1>10, <2>1
<1>14. k \in 1..Len(r)
  BY <1>5, <1>6, <1>12, <1>13
<1>15. r[k] = s[j] /\ DOMAIN r = 1..Len(r)
  BY <1>5, <1>13, <1>14, IsPrefixProperties, LenProperties
<1> QED
  BY <1>14, <1>15 DEF Range, r, s

\* The lines of the menu that a step opens.
LEMMA OpenedLines ==
  ASSUME IInv, PageRight, [Next]_vars, Opens, NEW c \in Category
  PROVE  LET listed == {menu'[p].item : p \in Listed(c)}
         IN  /\ listed = Range(Shown(c, asked'))
             /\ Cardinality(listed) = Cardinality(Listed(c))
<1>1. PICK term \in Texts : SearchFor(term)
  BY MenuChanges DEF Opens
<1>2. asked' = term /\ term # <<>>
  BY <1>1 DEF SearchFor, Opens
<1>3. IndexType
  BY DEF PageRight
<1>4. menu' \in Seq(Line)
  BY <1>1, <1>2, <1>3, SearchPlaces
<1>5. PICK at : Placed(at, Source(term), menu')
  BY <1>1, <1>2, <1>3, SearchPlaces
<1> DEFINE m == menu'
<1>6. Listed(c) = LinesOf(m, c)
  BY DEF Listed, LinesOf
<1> HIDE DEF m
<1>7. /\ {m[p].item : p \in LinesOf(m, c)} = Range(Shown(c, term))
      /\ Cardinality({m[p].item : p \in LinesOf(m, c)}) = Cardinality(LinesOf(m, c))
  <2>1. m \in Seq(Line) /\ Placed(at, Source(term), m)
    BY <1>4, <1>5 DEF m
  <2> QED
    BY <1>3, <2>1, LinesFacts
<1> QED
  BY <1>2, <1>6, <1>7 DEF m

\* The menu lists what matches in the indexes that are there, each item once, and
\* leaves out only what is beyond the share of its category (source in search.js).
THEOREM MenuListsMatches == Spec => ListsWhatMatches
<1>1. ASSUME IInv, PageRight, [Next]_vars, Opens, NEW c \in Category
      PROVE  LET listed == {menu'[k].item : k \in Listed(c)}
                 with == {i \in Range(Items(c)) : SecondaryMatch(asked', FullText(c, i))}
             IN  /\ Cardinality(listed) = Cardinality(Listed(c))
                 /\ listed \subseteq Range(Items(c))
                 /\ \A i \in listed \ with : IsPrimary(c, asked', i)
                 /\ with \subseteq listed \/ Cardinality(listed) >= Cap
  <2> DEFINE listed == {menu'[k].item : k \in Listed(c)}
             with == With(c, asked')
  <2>1. listed = Range(Shown(c, asked')) /\ Cardinality(listed) = Cardinality(Listed(c))
    BY <1>1, OpenedLines
  <2>2. /\ Range(Shown(c, asked')) \subseteq Primary(c, asked') \cup Other(c, asked')
        /\ \/ with \subseteq Range(Shown(c, asked'))
           \/ Cardinality(Range(Shown(c, asked'))) >= Cap
    BY <1>1, ShownMatches DEF PageRight
  <2> HIDE DEF listed
  <2>3. listed \subseteq Range(Items(c)) /\ \A i \in listed \ with : IsPrimary(c, asked', i)
    BY <2>1, <2>2 DEF Primary, Other, With
  <2>4. with \subseteq listed \/ Cardinality(listed) >= Cap
    BY <2>1, <2>2
  <2> QED
    BY <2>1, <2>3, <2>4 DEF listed, With
<1>2. IInv /\ PageRight /\ [Next]_vars =>
        [Opens => \A c \in Category :
          LET listed == {menu'[k].item : k \in Listed(c)}
              with == {i \in Range(Items(c)) : SecondaryMatch(asked', FullText(c, i))}
          IN  /\ Cardinality(listed) = Cardinality(Listed(c))
              /\ listed \subseteq Range(Items(c))
              /\ \A i \in listed \ with : IsPrimary(c, asked', i)
              /\ with \subseteq listed \/ Cardinality(listed) >= Cap]_vars
  BY <1>1
<1> QED
  BY <1>2, PageInv, PTL DEF Spec, ListsWhatMatches

\* However many items begin like the name asked for, one that has exactly this name
\* is listed, unless an item that only begins like it comes first (displayCount).
THEOREM MenuListsExact == Spec => ExactListed
<1>1. ASSUME IInv, PageRight, [Next]_vars, Opens,
             NEW c \in Category, NEW j \in DOMAIN Items(c), IsExact(c, asked', Items(c)[j])
      PROVE  \/ \E k \in Listed(c) : menu'[k].item = Items(c)[j]
             \/ \E i \in 1..(j - 1) : /\ ~IsExact(c, asked', Items(c)[i])
                                      /\ IsPrimary(c, asked', Items(c)[i])
  <2> SUFFICES ASSUME \A i \in 1..(j - 1) : IsPrimary(c, asked', Items(c)[i])
                                               => IsExact(c, asked', Items(c)[i])
               PROVE  \E k \in Listed(c) : menu'[k].item = Items(c)[j]
    OBVIOUS
  <2>1. j \in 1..Len(Items(c))
    BY <1>1, ItemsType, LenProperties DEF PageRight
  <2>2. Items(c)[j] \in Range(Shown(c, asked'))
    BY <1>1, <2>1, ExactShown DEF PageRight
  <2> QED
    BY <1>1, <2>2, OpenedLines
<1>2. IInv /\ PageRight /\ [Next]_vars =>
        [Opens => \A c \in Category : \A j \in DOMAIN Items(c) :
          IsExact(c, asked', Items(c)[j]) =>
              \/ \E k \in Listed(c) : menu'[k].item = Items(c)[j]
              \/ \E i \in 1..(j - 1) : /\ ~IsExact(c, asked', Items(c)[i])
                                       /\ IsPrimary(c, asked', Items(c)[i])]_vars
  BY <1>1
<1> QED
  BY <1>2, PageInv, PTL DEF Spec, ExactListed

-------------------------------------------------------------------------------
(* The indexes *)

\* A script that has not been executed is asked for, so the browser still has it.
Awaited == \A f \in Files : f[2] = "script" => f \in asking \/ index[f[1]] # Absent

Stays == \A c \in Category : index[c] # Absent => index'[c] # Absent

LEMMA IndexSteps ==
  ASSUME PageRight, Awaited, [Next]_vars
  PROVE  Awaited' /\ Stays
<1>1. CASE UNCHANGED page
  BY <1>1 DEF page, Awaited, Stays
<1>2. CASE \E f \in Files : ZipLost(f)
  BY <1>2 DEF ZipLost, Awaited, Stays
<1>3. ASSUME NEW f \in Files, Arrives(f)
      PROVE  Awaited' /\ Stays
  <2>1. f[1] \in Category /\ f # Absent
    BY DocSearchAssumption
  <2>2. \A c \in Category : index'[c] = IF c = f[1] THEN f ELSE index[c]
    BY <1>3 DEF Arrives, PageRight, IndexType
  <2>3. index'[f[1]] # Absent
    BY <2>1, <2>2
  <2>4. Stays
    BY <2>1, <2>2 DEF Stays
  <2>5. ASSUME NEW g \in Files, g[2] = "script"
        PROVE  g \in asking' \/ index'[g[1]] # Absent
    <3>1. g \in asking \/ index[g[1]] # Absent
      BY <2>5 DEF Awaited
    <3>2. g[1] \in Category
      BY DocSearchAssumption
    <3>3. g # f => g \in asking' \/ index'[g[1]] # Absent
      BY <1>3, <2>4, <3>1, <3>2 DEF Arrives, Stays
    <3> QED
      BY <2>3, <3>3
  <2> QED
    BY <2>4, <2>5 DEF Awaited
<1>4. Ready \/ TimerFires \/ User => UNCHANGED page
  BY DEF Ready, TimerFires, User, Type, Erase, Click, Arrow, Escape, Blur, Reset, Select
<1> QED
  BY <1>1, <1>2, <1>3, <1>4 DEF Next, vars

\* An index is there or its script is still to come, whatever becomes of the zip
\* files, and it does not go again (loadScripts in script.js).
THEOREM IndexesStay == Spec => []Awaited /\ [][Stays]_vars
<1>1. Init => Awaited
  BY DEF Init, Requests, Awaited
<1>2. PageRight /\ Awaited /\ [Next]_vars => Awaited' /\ [Stays]_vars
  BY IndexSteps
<1> QED
  BY <1>1, <1>2, PageInv, PTL DEF Spec

===============================================================================
