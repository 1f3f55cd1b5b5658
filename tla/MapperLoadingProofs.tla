------------------------- MODULE MapperLoadingProofs -------------------------
(***************************************************************************)
(* Proofs about MapperLoading, for any mappers, names and files.           *)
(*                                                                         *)
(* That a known mapper has been read to its end, and that a statement uses *)
(* its own mapper's result map if there is one, both rest on how far files *)
(* have been read: elements before the next one are accounted for, result  *)
(* maps come before statements (and so before references to them), and a   *)
(* file marked as loaded has been read whole. At the end, that no load     *)
(* goes on for ever.                                                       *)
(***************************************************************************)
EXTENDS MapperLoading, SequenceLemmas

\* How far the load under way has come.
Progress ==
    /\ phase = "maps" =>
        \A i \in DOMAIN file[loading].resultMaps : i < next =>
            resultMaps[<<loading, file[loading].resultMaps[i].id>>] # Nothing
    /\ phase = "statements" =>
        /\ MapsRead(loading)
        /\ \A i \in DOMAIN file[loading].statements : i < next =>
              Accounted(loading, file[loading].statements[i])
    /\ phase = "retry" =>
        /\ loading \in xmlLoaded
        /\ \A i \in DOMAIN pending : i < next => ~Complete(pending[i].statement)

\* What the marks in loadedResources and knownMappers stand for.
Marks ==
    /\ \A m \in xmlLoaded :
        /\ file[m] # Nothing /\ MapsRead(m)
        /\ \A i \in DOMAIN file[m].statements : Accounted(m, file[m].statements[i])
    /\ \A m \in interfaceLoaded : file[m] # Nothing => m \in xmlLoaded
    /\ \A m \in known : m = loading \/ m \in interfaceLoaded

\* A result map is its file's; statements come after all result maps of theirs.
Origins ==
    /\ \A m \in Mapper, n \in Name : resultMaps[<<m, n>>] # Nothing =>
        /\ file[m] # Nothing
        /\ \E i \in DOMAIN file[m].resultMaps : file[m].resultMaps[i].id = n
    /\ \A m \in Mapper, i \in Name : bound[<<m, i>>] # {} => file[m] # Nothing /\ MapsRead(m)
    /\ \A i \in DOMAIN pending : file[pending[i].mapper] # Nothing /\ MapsRead(pending[i].mapper)

IInv == TypeOK /\ ShortNames /\ Progress /\ Marks /\ Origins /\ BindingsRight

-------------------------------------------------------------------------------
(* Operators. *)

\* Iterator.remove: the elements before the one removed stay where they are,
\* those after it move down by one.
LEMMA RemoveAtProperties ==
    ASSUME NEW S, NEW s \in Seq(S), NEW n \in 1 .. Len(s)
    PROVE  /\ RemoveAt(s, n) \in Seq(S)
           /\ Len(RemoveAt(s, n)) = Len(s) - 1
           /\ \A i \in 1 .. Len(s) - 1 : RemoveAt(s, n)[i] = IF i < n THEN s[i] ELSE s[i + 1]
           /\ Range(s) \subseteq Range(RemoveAt(s, n)) \cup {s[n]}
<1>. DEFINE u == SubSeq(s, 1, n - 1)
            v == SubSeq(s, n + 1, Len(s))
            t == RemoveAt(s, n)
<1>0. Len(s) \in Nat /\ DOMAIN s = 1 .. Len(s)
  OBVIOUS
<1>1. /\ u \in Seq(S)
      /\ Len(u) = n - 1
      /\ \A i \in 1 .. n - 1 : u[i] = s[i]
  OBVIOUS
<1>2. /\ v \in Seq(S)
      /\ Len(v) = Len(s) - n
      /\ \A i \in 1 .. Len(s) - n : v[i] = s[n + i]
  OBVIOUS
<1>3. t = u \o v
  BY DEF RemoveAt
<1>. HIDE DEF t, u, v
<1>4. /\ u \o v \in Seq(S)
      /\ Len(u \o v) = Len(u) + Len(v)
      /\ \A i \in 1 .. Len(u) + Len(v) :
            (u \o v)[i] = IF i <= Len(u) THEN u[i] ELSE v[i - Len(u)]
  BY <1>1, <1>2, ConcatProperties
<1>5. t \in Seq(S) /\ Len(t) = Len(s) - 1 /\ DOMAIN t = 1 .. Len(s) - 1
  <2>1. t \in Seq(S) /\ Len(t) = Len(s) - 1
    BY <1>0, <1>1, <1>2, <1>3, <1>4
  <2>. QED
    BY <2>1
<1>6. ASSUME NEW i \in 1 .. Len(s) - 1
      PROVE  t[i] = IF i < n THEN s[i] ELSE s[i + 1]
  <2>1. CASE i < n
    BY <2>1, <1>1, <1>2, <1>3, <1>4
  <2>2. CASE ~(i < n)
    <3>1. i - (n - 1) \in 1 .. Len(s) - n /\ n + (i - (n - 1)) = i + 1
      BY <2>2, <1>0
    <3>2. t[i] = v[i - (n - 1)]
      BY <2>2, <1>0, <1>1, <1>2, <1>3, <1>4
    <3>. QED
      BY <2>2, <3>1, <3>2, <1>2
  <2>. QED
    BY <2>1, <2>2
<1>7. ASSUME NEW e \in Range(s), e # s[n]
      PROVE  e \in Range(t)
  <2>1. PICK j \in 1 .. Len(s) : e = s[j] /\ j # n
    BY <1>0, <1>7 DEF Range
  <2>2. \E i \in 1 .. Len(s) - 1 : e = t[i]
    <3>1. CASE j < n
      BY <3>1, <2>1, <1>0, <1>6
    <3>2. CASE j > n
      <4>1. j - 1 \in 1 .. Len(s) - 1 /\ t[j - 1] = s[j]
        BY <3>2, <2>1, <1>0, <1>6
      <4>. QED
        BY <4>1, <2>1
    <3>. QED
      BY <3>1, <3>2, <2>1, <1>0
  <2>. QED
    BY <2>2, <1>5 DEF Range
<1>. QED
  BY <1>5, <1>6, <1>7 DEF t

\* A full name is never a simple one.
LEMMA Names ==
    /\ \A k \in Full : k \in Key /\ k \in Entry /\ k # Nothing /\ k # Ambiguous
    /\ \A n \in Name : Short(n) \in Key /\ Short(n) \notin Full
    /\ Nothing \in Entry /\ Ambiguous \in Entry /\ Nothing # Ambiguous
  BY LoadingAssumption DEF Full, Key, Entry, Short

\* What StrictMap.put does to a map with a fresh name.
LEMMA PutProperties ==
    ASSUME NEW map \in [Key -> Entry], Unambiguous(map),
           NEW k \in Full, Fresh(map, k)
    PROVE  /\ Put(map, k) \in [Key -> Entry]
           /\ \A f \in Full : Put(map, k)[f] = IF f = k THEN k ELSE map[f]
           /\ Unambiguous(Put(map, k))
<1>. DEFINE new == Put(map, k)
            s == Short(k[2])
<1>0. PICK mk \in Mapper, nk \in Name : k = <<mk, nk>>
  BY DEF Full
<1>1. s \in Key /\ s \notin Full /\ s = Short(nk)
  BY Names, <1>0
<1>2. new \in [Key -> Entry]
  BY <1>1, Names DEF Put
<1>3. \A f \in Full : new[f] = IF f = k THEN k ELSE map[f]
  BY <1>1, Names DEF Put
<1>4. \A n \in Name : new[Short(n)] = IF n # nk THEN map[Short(n)]
                                       ELSE IF map[s] = Nothing THEN k ELSE Ambiguous
  BY <1>0, <1>1, Names DEF Put, Short
<1>. HIDE DEF new
<1>5. \A f \in Full : new[f] \in {f, Nothing}
  BY <1>3 DEF Unambiguous
<1>6. ASSUME NEW n \in Name
      PROVE  \/ /\ new[Short(n)] = Nothing
                /\ \A m \in Mapper : new[<<m, n>>] = Nothing
             \/ \E m \in Mapper :
                  /\ new[Short(n)] = <<m, n>>
                  /\ \A d \in Mapper : new[<<d, n>>] # Nothing <=> d = m
             \/ /\ new[Short(n)] = Ambiguous
                /\ \E m, d \in Mapper : m # d /\ new[<<m, n>>] # Nothing /\ new[<<d, n>>] # Nothing
  <2>0. \A m \in Mapper : <<m, n>> \in Full
    BY DEF Full
  <2>1. CASE n # nk
    <3>1. \A m \in Mapper : new[<<m, n>>] = map[<<m, n>>]
      BY <2>0, <2>1, <1>0, <1>3
    <3>2. new[Short(n)] = map[Short(n)]
      BY <2>1, <1>4
    <3>3. \/ /\ map[Short(n)] = Nothing
             /\ \A m \in Mapper : map[<<m, n>>] = Nothing
          \/ \E m \in Mapper :
               /\ map[Short(n)] = <<m, n>>
               /\ \A d \in Mapper : map[<<d, n>>] # Nothing <=> d = m
          \/ /\ map[Short(n)] = Ambiguous
             /\ \E m, d \in Mapper : m # d /\ map[<<m, n>>] # Nothing /\ map[<<d, n>>] # Nothing
      BY DEF Unambiguous
    <3>4. CASE \E m \in Mapper :
                 /\ map[Short(n)] = <<m, n>>
                 /\ \A d \in Mapper : map[<<d, n>>] # Nothing <=> d = m
      BY <3>1, <3>2, <3>4
    <3>. QED
      BY <3>1, <3>2, <3>3, <3>4
  <2>2. CASE n = nk
    <3>1. new[<<mk, n>>] = <<mk, n>> /\ <<mk, n>> # Nothing
      BY <2>2, <1>0, <1>3, Names
    <3>2. map[<<mk, n>>] = Nothing
      BY <2>2, <1>0 DEF Fresh
    <3>3. \A d \in Mapper : d # mk => new[<<d, n>>] = map[<<d, n>>]
      BY <2>0, <2>2, <1>0, <1>3
    <3>4. CASE map[Short(n)] = Nothing
      <4>1. new[Short(n)] = <<mk, n>>
        BY <3>4, <2>2, <1>0, <1>1, <1>4
      <4>2. \A m \in Mapper : map[<<m, n>>] = Nothing
        BY <3>4, <2>0, Names DEF Unambiguous
      <4>. QED
        BY <4>1, <4>2, <3>1, <3>3
    <3>5. CASE map[Short(n)] # Nothing
      <4>1. new[Short(n)] = Ambiguous
        BY <3>5, <2>2, <1>1, <1>4
      <4>2. PICK m \in Mapper : map[<<m, n>>] # Nothing
        BY <3>5 DEF Unambiguous
      <4>. QED
        BY <4>1, <4>2, <3>1, <3>2, <3>3
    <3>. QED
      BY <3>4, <3>5
  <2>. QED
    BY <2>1, <2>2
<1>7. Unambiguous(new)
  BY <1>5, <1>6 DEF Unambiguous
<1>. QED
  BY <1>2, <1>3, <1>7 DEF new

-------------------------------------------------------------------------------
(* What the steps do to the parts of the invariant. *)

LEMMA FileTypes ==
    ASSUME TypeOK, NEW m \in Mapper, file[m] # Nothing
    PROVE  /\ file[m].resultMaps \in Seq(ResultMap)
           /\ \A i \in DOMAIN file[m].resultMaps :
                 /\ file[m].resultMaps[i].id \in Name
                 /\ <<m, file[m].resultMaps[i].id>> \in Full
           /\ file[m].statements \in Seq(Statement)
           /\ \A i \in DOMAIN file[m].statements :
                 /\ file[m].statements[i] \in Statement
                 /\ <<m, file[m].statements[i].id>> \in Full
<1>1. file[m] \in [resultMaps : Seq(ResultMap), statements : Seq(Statement)]
  BY LoadingAssumption DEF TypeOK
<1>2. file[m].resultMaps \in Seq(ResultMap) /\ file[m].statements \in Seq(Statement)
  BY <1>1
<1>3. ASSUME NEW i \in DOMAIN file[m].resultMaps
      PROVE  file[m].resultMaps[i] \in ResultMap
  BY <1>2
<1>4. ASSUME NEW i \in DOMAIN file[m].statements
      PROVE  file[m].statements[i] \in Statement
  BY <1>2
<1>. QED
  BY <1>2, <1>3, <1>4 DEF ResultMap, Statement, Full

LEMMA PendingTypes ==
    ASSUME TypeOK, NEW i \in DOMAIN pending
    PROVE  /\ pending[i].mapper \in Mapper
           /\ pending[i].statement \in Statement
           /\ <<pending[i].mapper, pending[i].statement.id>> \in Full
           /\ i \in 1 .. Len(pending)
           /\ pending[i] = [mapper |-> pending[i].mapper, statement |-> pending[i].statement]
<1>1. pending \in Seq(Element)
  BY DEF TypeOK
<1>2. pending[i] \in Element
  BY <1>1
<1>. QED
  BY <1>1, <1>2 DEF Element, Statement, Full

\* Result maps, statements, pending elements and bindings are left alone by all
\* calls but those that read or retry an element.
Quiet == UNCHANGED <<file, resultMaps, statements, bound, pending>>

LEMMA QuietStep ==
    ASSUME IInv, Quiet
    PROVE  /\ ShortNames' /\ Origins' /\ BindingsRight'
           /\ \A m : MapsRead(m)' <=> MapsRead(m)
           /\ \A m, e : Accounted(m, e)' <=> Accounted(m, e)
           /\ \A e : Complete(e)' <=> Complete(e)
<1>1. ShortNames'
  BY DEF IInv, Quiet, ShortNames, Unambiguous
<1>2. \A m : MapsRead(m)' <=> MapsRead(m)
  BY DEF Quiet, MapsRead
<1>3. Origins'
  BY <1>2 DEF IInv, Quiet, Origins
<1>4. BindingsRight'
  BY DEF IInv, Quiet, BindingsRight
<1>5. \A m, e : Accounted(m, e)' <=> Accounted(m, e)
  BY DEF Quiet, Accounted
<1>6. \A e : Complete(e)' <=> Complete(e)
  BY DEF Quiet, Complete, Gets
<1>. QED
  BY <1>1, <1>2, <1>3, <1>4, <1>5, <1>6

\* A statement that is complete is registered: its references to simple names
\* are to its own mapper's result maps where there are any, for all of those
\* are there by now.
LEMMA RegisterStep ==
    ASSUME IInv, NEW m \in Mapper, NEW e \in Statement,
           file[m] # Nothing, MapsRead(m),
           Complete(e), Fresh(statements, <<m, e.id>>), Register(m, e),
           UNCHANGED <<file, resultMaps>>
    PROVE  /\ statements' \in [Key -> Entry]
           /\ bound' \in [Full -> SUBSET (Key \X Entry)]
           /\ ShortNames' /\ BindingsRight'
           /\ statements'[<<m, e.id>>] # Nothing
           /\ \A k \in Full : statements[k] # Nothing =>
                 statements'[k] = statements[k] /\ bound'[k] = bound[k]
           /\ \A d \in Mapper, i \in Name :
                 bound'[<<d, i>>] # {} => d = m \/ bound[<<d, i>>] # {}
<1>. DEFINE k == <<m, e.id>>
<1>0. k \in Full /\ e.refs \subseteq Key
  BY DEF Full, Statement
<1>1. /\ statements' \in [Key -> Entry]
      /\ \A f \in Full : statements'[f] = IF f = k THEN k ELSE statements[f]
      /\ Unambiguous(statements')
  <2>1. statements \in [Key -> Entry] /\ Unambiguous(statements) /\ Fresh(statements, k)
    BY DEF IInv, TypeOK, ShortNames
  <2>2. statements' = Put(statements, k)
    BY DEF Register
  <2>. HIDE DEF k
  <2>. QED
    BY <1>0, <2>1, <2>2, PutProperties
<1>2. ShortNames'
  BY <1>1 DEF IInv, ShortNames, Unambiguous
<1>3. \A r \in e.refs : resultMaps[r] \in Entry
  BY <1>0 DEF IInv, TypeOK
<1>4. {<<r, resultMaps[r]>> : r \in e.refs} \in SUBSET (Key \X Entry)
  BY <1>0, <1>3
<1>5. /\ bound' \in [Full -> SUBSET (Key \X Entry)]
      /\ \A f \in Full : bound'[f] = IF f = k THEN {<<r, resultMaps[r]>> : r \in e.refs}
                                              ELSE bound[f]
  BY <1>0, <1>4 DEF IInv, TypeOK, Register
<1>6. ASSUME NEW r \in e.refs
      PROVE  /\ r \in Full => resultMaps[r] = r
             /\ r \notin Full =>
                  /\ \E d \in Mapper : resultMaps[r] = <<d, r[2]>>
                  /\ resultMaps[<<m, r[2]>>] # Nothing => resultMaps[r] = <<m, r[2]>>
  <2>1. resultMaps[r] # Nothing /\ resultMaps[r] # Ambiguous
    BY <1>6 DEF Complete, Gets
  <2>2. CASE r \in Full
    BY <2>1, <2>2 DEF IInv, ShortNames, Unambiguous
  <2>3. CASE r \notin Full
    <3>1. PICK n \in Name : r = Short(n)
      BY <2>3, <1>0 DEF Key, Full, Short
    <3>2. r[2] = n
      BY <3>1 DEF Short
    <3>3. PICK d \in Mapper : /\ resultMaps[r] = <<d, n>>
                              /\ \A c \in Mapper : resultMaps[<<c, n>>] # Nothing <=> c = d
      BY <2>1, <3>1 DEF IInv, ShortNames, Unambiguous
    <3>. QED
      BY <2>3, <3>2, <3>3
  <2>. QED
    BY <2>2, <2>3
<1>7. BindingsRight'
  <2>1. SUFFICES ASSUME NEW d \in Mapper, NEW i \in Name, NEW b \in bound'[<<d, i>>]
                 PROVE  /\ b[1] \in Full => b[2] = b[1]
                        /\ b[1] \notin Full =>
                            /\ \E c \in Mapper : b[2] = <<c, b[1][2]>>
                            /\ resultMaps[<<d, b[1][2]>>] # Nothing => b[2] = <<d, b[1][2]>>
    BY DEF BindingsRight
  <2>2. <<d, i>> \in Full
    BY DEF Full
  <2>3. CASE <<d, i>> = k
    <3>1. PICK r \in e.refs : b = <<r, resultMaps[r]>>
      BY <2>1, <2>2, <2>3, <1>5
    <3>2. d = m
      BY <2>3
    <3>3. b[1] = r /\ b[2] = resultMaps[r]
      BY <3>1
    <3>. QED
      BY <3>2, <3>3, <1>6
  <2>4. CASE <<d, i>> # k
    <3>1. b \in bound[<<d, i>>]
      BY <2>1, <2>2, <2>4, <1>5
    <3>. QED
      BY <3>1 DEF IInv, BindingsRight
  <2>. QED
    BY <2>3, <2>4
<1>8. statements'[k] # Nothing
  BY <1>0, <1>1, Names
<1>9. \A f \in Full : statements[f] # Nothing =>
          statements'[f] = statements[f] /\ bound'[f] = bound[f]
  BY <1>1, <1>5 DEF Fresh
<1>10. ASSUME NEW d \in Mapper, NEW i \in Name, bound'[<<d, i>>] # {}, d # m
       PROVE  bound[<<d, i>>] # {}
  <2>1. <<d, i>> \in Full /\ <<d, i>> # k
    BY <1>10 DEF Full
  <2>. QED
    BY <2>1, <1>5, <1>10
<1>. QED
  BY <1>1, <1>2, <1>5, <1>7, <1>8, <1>9, <1>10

-------------------------------------------------------------------------------
(* The invariant is kept by every action. *)

LEMMA InitIInv == Init => IInv
<1>. SUFFICES ASSUME Init
              PROVE  IInv
  OBVIOUS
<1>1. TypeOK
  BY LoadingAssumption DEF Init, TypeOK, Entry
<1>2. ShortNames
  <2>1. \A k \in Full : k \in Key
    BY Names
  <2>2. \A n \in Name : Short(n) \in Key
    BY Names
  <2>3. \A m \in Mapper, n \in Name : <<m, n>> \in Key
    BY DEF Key
  <2>. QED
    BY <2>1, <2>2, <2>3 DEF Init, ShortNames, Unambiguous
<1>3. Progress /\ Marks
  BY DEF Init, Progress, Marks
<1>4. Origins /\ BindingsRight
  <2>1. \A m \in Mapper, n \in Name : <<m, n>> \in Key /\ <<m, n>> \in Full
    BY DEF Key, Full
  <2>. QED
    BY <2>1 DEF Init, Origins, BindingsRight
<1>. QED
  BY <1>1, <1>2, <1>3, <1>4 DEF IInv

LEMMA ReadResultMapStep ==
    ASSUME IInv, ReadResultMap
    PROVE  IInv'
<1>. USE DEF ReadResultMap
<1>. DEFINE k == <<loading, ThisResultMap.id>>
<1>0. loading \in Mapper /\ file[loading] # Nothing /\ file[loading].resultMaps \in Seq(ResultMap)
  <2>1. loading \in Mapper /\ file[loading] # Nothing
    BY DEF IInv, TypeOK
  <2>. QED
    BY <2>1, FileTypes DEF IInv
<1>1. next \in DOMAIN file[loading].resultMaps
  BY <1>0 DEF IInv, TypeOK
<1>2. k \in Full
  BY <1>0, <1>1, FileTypes DEF IInv, ThisResultMap
<1>3. /\ resultMaps' \in [Key -> Entry]
      /\ \A f \in Full : resultMaps'[f] = IF f = k THEN k ELSE resultMaps[f]
      /\ Unambiguous(resultMaps')
  <2>1. resultMaps \in [Key -> Entry] /\ Unambiguous(resultMaps)
    BY DEF IInv, TypeOK, ShortNames
  <2>2. resultMaps' = Put(resultMaps, k) /\ Fresh(resultMaps, k)
    BY DEF ReadResultMap
  <2>. HIDE DEF k, ReadResultMap
  <2>3. /\ Put(resultMaps, k) \in [Key -> Entry]
        /\ \A f \in Full : Put(resultMaps, k)[f] = IF f = k THEN k ELSE resultMaps[f]
        /\ Unambiguous(Put(resultMaps, k))
    BY <1>2, <2>1, <2>2, PutProperties
  <2>. QED
    BY <2>2, <2>3
<1>4. TypeOK'
  <2>1. TypeOK /\ UNCHANGED <<file, known, xmlLoaded, interfaceLoaded, statements, bound,
                              pending, loading, phase>>
    BY DEF IInv
  <2>2. next' \in Nat \ {0}
    BY DEF IInv, TypeOK
  <2>. HIDE DEF k, ReadResultMap
  <2>. QED
    BY <1>3, <2>1, <2>2 DEF TypeOK
<1>5. ShortNames'
  BY <1>3 DEF IInv, ShortNames, Unambiguous
<1>6. \A f \in Full : resultMaps[f] # Nothing => resultMaps'[f] # Nothing
  BY <1>2, <1>3, Names
<1>7. ASSUME NEW m \in Mapper, file[m] # Nothing, MapsRead(m)
      PROVE  MapsRead(m)'
  BY <1>6, <1>7, FileTypes DEF IInv, MapsRead
<1>8. \A m, e : Accounted(m, e)' <=> Accounted(m, e)
  BY DEF Accounted
<1>9. Progress'
  <2>1. ASSUME NEW i \in DOMAIN file[loading].resultMaps, i < next + 1
        PROVE  resultMaps'[<<loading, file[loading].resultMaps[i].id>>] # Nothing
    <3>1. <<loading, file[loading].resultMaps[i].id>> \in Full
      BY <1>0, FileTypes DEF IInv
    <3>2. CASE i = next
      BY <3>1, <3>2, <1>2, <1>3, Names DEF ThisResultMap
    <3>3. CASE i < next
      BY <3>1, <3>3, <1>6 DEF IInv, Progress
    <3>4. i \in Nat /\ next \in Nat
      BY <1>0 DEF IInv, TypeOK
    <3>. QED
      BY <2>1, <3>2, <3>3, <3>4
  <2>. QED
    BY <2>1 DEF Progress
<1>10. Marks'
  <2>1. \A m \in xmlLoaded : m \in Mapper /\ file[m] # Nothing /\ MapsRead(m)'
    BY <1>7 DEF IInv, TypeOK, Marks
  <2>2. \A m \in xmlLoaded : \A i \in DOMAIN file[m].statements :
            Accounted(m, file[m].statements[i])'
    BY <1>8 DEF IInv, Marks
  <2>. QED
    BY <2>1, <2>2 DEF IInv, Marks
<1>11. Origins'
  <2>1. ASSUME NEW m \in Mapper, NEW n \in Name, resultMaps'[<<m, n>>] # Nothing
        PROVE  /\ file[m] # Nothing
               /\ \E i \in DOMAIN file[m].resultMaps : file[m].resultMaps[i].id = n
    <3>0. <<m, n>> \in Full
      BY DEF Full
    <3>1. CASE <<m, n>> = k
      <4>1. m = loading /\ n = file[loading].resultMaps[next].id
        BY <3>1 DEF ThisResultMap
      <4>. QED
        BY <4>1, <1>0, <1>1
    <3>2. CASE <<m, n>> # k
      <4>1. resultMaps[<<m, n>>] # Nothing
        BY <3>0, <3>2, <1>3, <2>1
      <4>. QED
        BY <4>1 DEF IInv, Origins
    <3>. QED
      BY <3>1, <3>2
  <2>2. \A m \in Mapper, i \in Name : bound[<<m, i>>] # {} => file[m] # Nothing /\ MapsRead(m)'
    BY <1>7 DEF IInv, Origins
  <2>3. \A i \in DOMAIN pending :
            file[pending[i].mapper] # Nothing /\ MapsRead(pending[i].mapper)'
    <3>1. \A i \in DOMAIN pending : pending[i].mapper \in Mapper
      BY PendingTypes DEF IInv
    <3>. QED
      BY <3>1, <1>7 DEF IInv, Origins
  <2>. QED
    BY <2>1, <2>2, <2>3 DEF Origins
<1>12. BindingsRight'
  <2>1. SUFFICES ASSUME NEW m \in Mapper, NEW i \in Name, NEW b \in bound[<<m, i>>],
                        b[1] \notin Full, resultMaps'[<<m, b[1][2]>>] # Nothing
                 PROVE  b[2] = <<m, b[1][2]>>
    BY DEF IInv, BindingsRight
  <2>2. file[m] # Nothing /\ MapsRead(m)
    BY <2>1 DEF IInv, Origins
  <2>3. b[1][2] \in Name
    <3>1. <<m, i>> \in Full
      BY DEF Full
    <3>2. b \in Key \X Entry
      BY <3>1, <2>1 DEF IInv, TypeOK
    <3>3. b[1] \in (Mapper \cup {NoMapper}) \X Name
      BY <3>2 DEF Key
    <3>. QED
      BY <3>3
  <2>4. <<m, b[1][2]>> \in Full
    BY <2>3 DEF Full
  <2>5. CASE <<m, b[1][2]>> = k
    <3>1. resultMaps[k] # Nothing
      BY <2>2, <2>5, <1>1 DEF MapsRead, ThisResultMap
    <3>. QED
      BY <3>1 DEF Fresh
  <2>6. CASE <<m, b[1][2]>> # k
    <3>1. resultMaps[<<m, b[1][2]>>] # Nothing
      BY <2>1, <2>4, <2>6, <1>3
    <3>. QED
      BY <3>1, <2>1 DEF IInv, BindingsRight
  <2>. QED
    BY <2>5, <2>6
<1>. QED
  BY <1>4, <1>5, <1>9, <1>10, <1>11, <1>12 DEF IInv

LEMMA ReadStatementStep ==
    ASSUME IInv, ReadStatement
    PROVE  IInv'
<1>. USE DEF ReadStatement
<1>1. loading \in Mapper /\ file[loading] # Nothing /\ next \in DOMAIN file[loading].statements
  <2>1. loading \in Mapper /\ file[loading] # Nothing
    BY DEF IInv, TypeOK
  <2>2. file[loading].statements \in Seq(Statement)
    BY <2>1, FileTypes DEF IInv
  <2>. QED
    BY <2>1, <2>2 DEF IInv, TypeOK
<1>2. ThisStatement \in Statement
  BY <1>1, FileTypes DEF IInv, ThisStatement
<1>3. MapsRead(loading)
  BY DEF IInv, Progress
<1>4. /\ statements' \in [Key -> Entry]
      /\ bound' \in [Full -> SUBSET (Key \X Entry)]
      /\ ShortNames' /\ BindingsRight'
      /\ statements'[<<loading, ThisStatement.id>>] # Nothing
      /\ \A k \in Full : statements[k] # Nothing => statements'[k] # Nothing
      /\ \A d \in Mapper, i \in Name :
            bound'[<<d, i>>] # {} => d = loading \/ bound[<<d, i>>] # {}
  BY <1>1, <1>2, <1>3, RegisterStep
<1>5. TypeOK'
  BY <1>4 DEF IInv, TypeOK
<1>6. \A m : MapsRead(m)' <=> MapsRead(m)
  BY DEF MapsRead
<1>7. ASSUME NEW m \in Mapper, NEW e \in Statement, Accounted(m, e)
      PROVE  Accounted(m, e)'
  BY <1>4, <1>7 DEF Accounted, Statement, Full
<1>8. Progress'
  <2>1. ASSUME NEW i \in DOMAIN file[loading].statements, i < next + 1
        PROVE  Accounted(loading, file[loading].statements[i])'
    <3>1. CASE i = next
      BY <3>1, <1>4 DEF Accounted, ThisStatement
    <3>2. CASE i < next
      BY <3>2, <1>1, <1>7, FileTypes DEF IInv, Progress
    <3>3. i \in Nat /\ next \in Nat
      BY <1>1, FileTypes DEF IInv, TypeOK
    <3>. QED
      BY <2>1, <3>1, <3>2, <3>3
  <2>. QED
    BY <2>1, <1>3, <1>6 DEF Progress
<1>9. Marks'
  BY <1>6, <1>7, FileTypes DEF IInv, TypeOK, Marks
<1>10. Origins'
  BY <1>1, <1>3, <1>4, <1>6 DEF IInv, Origins
<1>. QED
  BY <1>4, <1>5, <1>8, <1>9, <1>10 DEF IInv

LEMMA PostponeStatementStep ==
    ASSUME IInv, PostponeStatement
    PROVE  IInv'
<1>. USE DEF PostponeStatement
<1>. DEFINE e == [mapper |-> loading, statement |-> ThisStatement]
<1>1. loading \in Mapper /\ file[loading] # Nothing /\ next \in DOMAIN file[loading].statements
  <2>1. loading \in Mapper /\ file[loading] # Nothing
    BY DEF IInv, TypeOK
  <2>2. file[loading].statements \in Seq(Statement)
    BY <2>1, FileTypes DEF IInv
  <2>. QED
    BY <2>1, <2>2 DEF IInv, TypeOK
<1>2. e \in Element
  BY <1>1, FileTypes DEF IInv, ThisStatement, Element
<1>3. /\ pending \in Seq(Element)
      /\ pending' \in Seq(Element)
      /\ Len(pending') = Len(pending) + 1
      /\ \A i \in 1 .. Len(pending) : pending'[i] = pending[i]
      /\ pending'[Len(pending) + 1] = e
  BY <1>2 DEF IInv, TypeOK
<1>4. Range(pending) \subseteq Range(pending') /\ e \in Range(pending')
  <2>. HIDE DEF PostponeStatement, e
  <2>. QED
    BY <1>3 DEF Range
<1>5. TypeOK'
  BY <1>3 DEF IInv, TypeOK
<1>6. ShortNames' /\ BindingsRight'
  BY DEF IInv, ShortNames, Unambiguous, BindingsRight
<1>7. \A m : MapsRead(m)' <=> MapsRead(m)
  BY DEF MapsRead
<1>8. ASSUME NEW m \in Mapper, NEW s \in Statement, Accounted(m, s)
      PROVE  Accounted(m, s)'
  BY <1>4, <1>8 DEF Accounted
<1>9. Progress'
  <2>1. ASSUME NEW i \in DOMAIN file[loading].statements, i < next + 1
        PROVE  Accounted(loading, file[loading].statements[i])'
    <3>1. CASE i = next
      BY <3>1, <1>4 DEF Accounted, ThisStatement
    <3>2. CASE i < next
      BY <3>2, <1>1, <1>8, FileTypes DEF IInv, Progress
    <3>3. i \in Nat /\ next \in Nat
      BY <1>1, FileTypes DEF IInv, TypeOK
    <3>. QED
      BY <2>1, <3>1, <3>2, <3>3
  <2>. QED
    BY <2>1, <1>7 DEF IInv, Progress
<1>10. Marks'
  BY <1>7, <1>8, FileTypes DEF IInv, TypeOK, Marks
<1>11. Origins'
  <2>1. ASSUME NEW i \in DOMAIN pending'
        PROVE  (file[pending[i].mapper] # Nothing /\ MapsRead(pending[i].mapper))'
    <3>. DEFINE m == pending'[i].mapper
    <3>1. file[m] # Nothing /\ MapsRead(m)
      <4>1. CASE i \in DOMAIN pending
        <5>1. m = pending[i].mapper
          BY <4>1, <1>3
        <5>. QED
          BY <5>1, <4>1 DEF IInv, Origins
      <4>2. CASE i \notin DOMAIN pending
        <5>1. i = Len(pending) + 1
          BY <4>2, <1>3, <2>1
        <5>2. m = loading
          BY <5>1, <1>3
        <5>. QED
          BY <5>2, <1>1 DEF IInv, Progress
      <4>. QED
        BY <4>1, <4>2
    <3>. QED
      BY <3>1 DEF MapsRead
  <2>. QED
    BY <2>1, <1>7 DEF IInv, Origins
<1>. QED
  BY <1>5, <1>6, <1>9, <1>10, <1>11 DEF IInv

LEMMA RetryCompletesStep ==
    ASSUME IInv, RetryCompletes
    PROVE  IInv'
<1>. USE DEF RetryCompletes
<1>1. /\ pending \in Seq(Element) /\ next \in 1 .. Len(pending)
      /\ ThisPending.mapper \in Mapper /\ ThisPending.statement \in Statement
      /\ ThisPending = [mapper |-> ThisPending.mapper, statement |-> ThisPending.statement]
      /\ file[ThisPending.mapper] # Nothing /\ MapsRead(ThisPending.mapper)
  <2>1. pending \in Seq(Element) /\ next \in 1 .. Len(pending)
    BY DEF IInv, TypeOK
  <2>2. next \in DOMAIN pending
    BY <2>1
  <2>. QED
    BY <2>1, <2>2, PendingTypes DEF IInv, Origins, ThisPending
<1>. DEFINE m == ThisPending.mapper
            e == ThisPending.statement
<1>2. /\ statements' \in [Key -> Entry]
      /\ bound' \in [Full -> SUBSET (Key \X Entry)]
      /\ ShortNames' /\ BindingsRight'
      /\ statements'[<<m, e.id>>] # Nothing
      /\ \A k \in Full : statements[k] # Nothing => statements'[k] # Nothing
      /\ \A d \in Mapper, i \in Name : bound'[<<d, i>>] # {} => d = m \/ bound[<<d, i>>] # {}
  BY <1>1, RegisterStep
<1>3. /\ pending' \in Seq(Element)
      /\ Len(pending') = Len(pending) - 1
      /\ \A i \in 1 .. Len(pending) - 1 :
            pending'[i] = IF i < next THEN pending[i] ELSE pending[i + 1]
      /\ Range(pending) \subseteq Range(pending') \cup {ThisPending}
  BY <1>1, RemoveAtProperties DEF ThisPending
<1>4. TypeOK'
  BY <1>2, <1>3 DEF IInv, TypeOK
<1>5. \A d : MapsRead(d)' <=> MapsRead(d)
  BY DEF MapsRead
<1>6. ASSUME NEW d \in Mapper, NEW s \in Statement, Accounted(d, s)
      PROVE  Accounted(d, s)'
  <2>. DEFINE p == [mapper |-> d, statement |-> s]
  <2>1. CASE statements[<<d, s.id>>] # Nothing
    BY <2>1, <1>2 DEF Accounted, Statement, Full
  <2>2. CASE p \in Range(pending) /\ p # ThisPending
    BY <2>2, <1>3 DEF Accounted
  <2>3. CASE p = ThisPending
    <3>1. m = d /\ e = s
      BY <2>3
    <3>. QED
      BY <3>1, <1>2 DEF Accounted
  <2>. QED
    BY <1>6, <2>1, <2>2, <2>3 DEF Accounted
<1>7. \A s : Complete(s)' <=> Complete(s)
  BY DEF Complete, Gets
<1>8. Progress'
  <2>1. phase \notin {"maps", "statements"}
    BY DEF Retrying
  <2>2. ASSUME phase = "retry", NEW i \in DOMAIN pending', i < next
        PROVE  ~Complete(pending[i].statement)'
    <3>. DEFINE s == pending'[i].statement
    <3>1. i \in 1 .. Len(pending) - 1 /\ i \in DOMAIN pending
      BY <1>1, <1>3, <2>2
    <3>2. s = pending[i].statement
      BY <3>1, <1>3, <2>2
    <3>3. ~Complete(s)
      BY <3>1, <3>2, <2>2 DEF IInv, Progress
    <3>. QED
      BY <3>3 DEF Complete, Gets
  <2>. QED
    BY <2>1, <2>2 DEF IInv, Progress
<1>9. Marks'
  BY <1>5, <1>6, FileTypes DEF IInv, TypeOK, Marks
<1>10. Origins'
  <2>1. ASSUME NEW i \in DOMAIN pending'
        PROVE  (file[pending[i].mapper] # Nothing /\ MapsRead(pending[i].mapper))'
    <3>. DEFINE d == pending'[i].mapper
    <3>1. \E j \in DOMAIN pending : d = pending[j].mapper
      <4>1. i \in 1 .. Len(pending) - 1 /\ i \in DOMAIN pending /\ i + 1 \in DOMAIN pending
        BY <1>1, <1>3, <2>1
      <4>. QED
        BY <4>1, <1>3
    <3>2. file[d] # Nothing /\ MapsRead(d)
      BY <3>1 DEF IInv, Origins
    <3>. QED
      BY <3>2 DEF MapsRead
  <2>2. \A d \in Mapper, i \in Name : bound'[<<d, i>>] # {} => file[d] # Nothing /\ MapsRead(d)'
    BY <1>1, <1>2, <1>5 DEF IInv, Origins
  <2>. QED
    BY <2>1, <2>2 DEF IInv, Origins
<1>. QED
  BY <1>2, <1>4, <1>8, <1>9, <1>10 DEF IInv

\* The marks stay true when they, and what they are about, stay the same.
LEMMA QuietMarks ==
    ASSUME IInv, Quiet, UNCHANGED <<xmlLoaded, interfaceLoaded>>,
           \A m \in known' : m = loading' \/ m \in interfaceLoaded
    PROVE  Marks'
<1>1. \A m \in xmlLoaded :
        /\ file[m] # Nothing /\ MapsRead(m)'
        /\ \A i \in DOMAIN file[m].statements : Accounted(m, file[m].statements[i])'
  BY QuietStep DEF IInv, Marks, Quiet, Accounted
<1>2. \A m \in xmlLoaded' :
        /\ file'[m] # Nothing /\ MapsRead(m)'
        /\ \A i \in DOMAIN file'[m].statements : Accounted(m, file[m].statements[i])'
  BY <1>1 DEF Quiet
<1>3. \A m \in interfaceLoaded' : file'[m] # Nothing => m \in xmlLoaded'
  BY DEF IInv, Marks, Quiet
<1>. QED
  BY <1>2, <1>3 DEF Marks

LEMMA AbortStep ==
    ASSUME IInv, Abort
    PROVE  IInv'
<1>. USE DEF Abort
<1>1. Quiet
  BY DEF Quiet
<1>2. TypeOK' /\ Progress'
  BY DEF IInv, TypeOK, Progress
<1>3. Marks'
  BY <1>1, QuietMarks DEF IInv, Marks
<1>. QED
  BY <1>1, <1>2, <1>3, QuietStep DEF IInv

LEMMA ResultMapsReadStep ==
    ASSUME IInv, ResultMapsRead
    PROVE  IInv'
<1>. USE DEF ResultMapsRead, configuration
<1>1. Quiet
  BY DEF Quiet
<1>2. TypeOK'
  BY DEF IInv, TypeOK
<1>3. Marks'
  BY <1>1, QuietMarks DEF IInv, Marks
<1>4. loading \in Mapper /\ file[loading] # Nothing /\ next \in Nat
  BY DEF IInv, TypeOK
<1>5. MapsRead(loading)
  <2>1. ASSUME NEW i \in DOMAIN file[loading].resultMaps
        PROVE  i < next
    BY <1>4, FileTypes DEF IInv
  <2>. QED
    BY <2>1 DEF IInv, Progress, MapsRead
<1>6. \A i \in DOMAIN file[loading].statements : ~(i < 1)
  BY <1>4, FileTypes DEF IInv
<1>7. Progress'
  BY <1>1, <1>5, <1>6, QuietStep DEF Progress
<1>. QED
  BY <1>1, <1>2, <1>3, <1>7, QuietStep DEF IInv

LEMMA StatementsReadStep ==
    ASSUME IInv, StatementsRead
    PROVE  IInv'
<1>. USE DEF StatementsRead
<1>1. Quiet
  BY DEF Quiet
<1>2. TypeOK'
  BY DEF IInv, TypeOK
<1>3. loading \in Mapper /\ file[loading] # Nothing /\ next \in Nat /\ MapsRead(loading)
  BY DEF IInv, TypeOK, Progress
<1>4. ASSUME NEW i \in DOMAIN file[loading].statements
      PROVE  Accounted(loading, file[loading].statements[i])
  <2>1. i < next
    BY <1>3, FileTypes DEF IInv
  <2>. QED
    BY <2>1 DEF IInv, Progress
<1>5. Marks'
  <2>1. \A m \in xmlLoaded' :
          /\ file[m] # Nothing /\ MapsRead(m)'
          /\ \A i \in DOMAIN file[m].statements : Accounted(m, file[m].statements[i])'
    BY <1>1, <1>3, <1>4, QuietStep DEF IInv, Marks
  <2>. QED
    BY <2>1 DEF IInv, Marks
<1>6. \A i \in DOMAIN pending : ~(i < 1)
  BY PendingTypes DEF IInv
<1>7. Progress'
  BY <1>6 DEF Progress
<1>. QED
  BY <1>1, <1>2, <1>5, <1>7, QuietStep DEF IInv

LEMMA RetryIncompleteStep ==
    ASSUME IInv, RetryIncomplete
    PROVE  IInv'
<1>. USE DEF RetryIncomplete, configuration
<1>1. Quiet
  BY DEF Quiet
<1>2. next \in Nat \ {0}
  BY DEF IInv, TypeOK
<1>3. TypeOK'
  BY <1>2 DEF IInv, TypeOK, Retrying
<1>4. Marks'
  BY <1>1, QuietMarks DEF IInv, Marks
<1>5. Progress'
  <2>1. CASE phase = "retry"
    <3>1. ASSUME NEW i \in DOMAIN pending, i < next + 1
          PROVE  ~Complete(pending[i].statement)
      <4>1. i < next \/ i = next
        BY <3>1, <1>2, PendingTypes DEF IInv
      <4>. QED
        BY <4>1, <2>1 DEF IInv, Progress, ThisPending
    <3>. QED
      BY <3>1, <2>1, <1>1, QuietStep DEF IInv, Progress
  <2>2. CASE phase # "retry"
    BY <2>2 DEF Progress
  <2>. QED
    BY <2>1, <2>2
<1>. QED
  BY <1>1, <1>3, <1>4, <1>5, QuietStep DEF IInv

LEMMA LoadedStep ==
    ASSUME IInv, Loaded
    PROVE  IInv'
<1>. USE DEF Loaded
<1>1. Quiet
  BY DEF Quiet
<1>2. TypeOK' /\ Progress'
  BY DEF IInv, TypeOK, Progress
<1>3. Marks'
  <2>1. \A m \in xmlLoaded' :
          /\ file[m] # Nothing /\ MapsRead(m)'
          /\ \A i \in DOMAIN file[m].statements : Accounted(m, file[m].statements[i])'
    BY <1>1, QuietStep DEF IInv, Marks
  <2>2. loading \in xmlLoaded
    BY DEF IInv, Progress
  <2>. QED
    BY <2>1, <2>2 DEF IInv, Marks
<1>. QED
  BY <1>1, <1>2, <1>3, QuietStep DEF IInv

LEMMA AddMapperStep ==
    ASSUME IInv, NEW m \in Mapper, AddMapper(m)
    PROVE  IInv'
<1>. USE DEF AddMapper
<1>1. Quiet
  BY DEF Quiet
<1>2. TypeOK'
  BY DEF IInv, TypeOK
<1>3. Marks'
  <2>1. \A d \in xmlLoaded' :
          /\ file[d] # Nothing /\ MapsRead(d)'
          /\ \A i \in DOMAIN file[d].statements : Accounted(d, file[d].statements[i])'
    BY <1>1, QuietStep DEF IInv, Marks
  <2>2. \A d \in known : d \in interfaceLoaded
    BY LoadingAssumption DEF IInv, Marks, TypeOK
  <2>. QED
    BY <2>1, <2>2 DEF IInv, Marks
<1>4. Progress'
  <2>1. CASE UNCHANGED phase
    BY <2>1 DEF Progress
  <2>2. CASE /\ m \notin interfaceLoaded /\ file[m] # Nothing
             /\ loading' = m /\ next' = 1
             /\ phase' = IF m \in xmlLoaded THEN "retry" ELSE "maps"
    <3>1. \A i \in DOMAIN pending : ~(i < 1)
      BY PendingTypes DEF IInv
    <3>2. \A i \in DOMAIN file[m].resultMaps : ~(i < 1)
      BY <2>2, FileTypes DEF IInv
    <3>. QED
      BY <2>2, <3>1, <3>2 DEF Progress
  <2>. QED
    BY <2>1, <2>2
<1>. QED
  BY <1>1, <1>2, <1>3, <1>4, QuietStep DEF IInv

\* Calls that end, or begin, without any effect on the configuration.
LEMMA IdleStep ==
    ASSUME IInv, UNCHANGED <<file, configuration, loading>>,
           phase \in {"idle", "build"}, phase' \in {"idle", "build"}, next' = 1
    PROVE  IInv'
<1>1. Quiet
  BY DEF Quiet, configuration
<1>2. TypeOK' /\ Progress'
  BY DEF IInv, TypeOK, Progress, configuration
<1>3. Marks'
  BY <1>1, QuietMarks DEF IInv, Marks, configuration
<1>. QED
  BY <1>1, <1>2, <1>3, QuietStep DEF IInv

LEMMA NextIInv ==
    ASSUME IInv, [Next]_vars
    PROVE  IInv'
<1>1. ASSUME NEW m \in Mapper, AddMapper(m)
      PROVE  IInv'
  BY <1>1, AddMapperStep
<1>2. CASE UNCHANGED vars
  <2>1. Quiet /\ UNCHANGED <<configuration, loading, phase, next>>
    BY <1>2 DEF vars, configuration, Quiet
  <2>2. TypeOK' /\ Progress' /\ Marks'
    <3>1. TypeOK'
      BY <2>1 DEF IInv, TypeOK, Quiet, configuration
    <3>2. Marks'
      BY <2>1, QuietMarks DEF IInv, Marks, configuration
    <3>3. Progress'
      BY <2>1 DEF IInv, Progress, Quiet, configuration, MapsRead, Accounted, Complete, Gets
    <3>. QED
      BY <3>1, <3>2, <3>3
  <2>. QED
    BY <2>1, <2>2, QuietStep DEF IInv
<1>3. ASSUME NEW m \in Mapper, AddAgain(m)
      PROVE  IInv'
  BY <1>2, <1>3 DEF AddAgain
<1>4. CASE ElementFails
  BY <1>4, AbortStep DEF ElementFails
<1>5. CASE RetryFails
  <2>1. CASE phase = "retry" /\ Abort
    BY <2>1, AbortStep
  <2>2. CASE /\ phase = "build" /\ phase' = "idle" /\ next' = 1
             /\ UNCHANGED <<file, configuration, loading>>
    BY <2>2, IdleStep
  <2>. QED
    BY <1>5, <2>1, <2>2 DEF RetryFails
<1>6. CASE Built
  BY <1>6, IdleStep DEF Built
<1>7. CASE Lookup
  BY <1>7, IdleStep DEF Lookup
<1>. QED
  BY <1>1, <1>2, <1>3, <1>4, <1>5, <1>6, <1>7, ReadResultMapStep, ResultMapsReadStep,
     ReadStatementStep, PostponeStatementStep, StatementsReadStep, RetryCompletesStep,
     RetryIncompleteStep, LoadedStep DEF Next

THEOREM LoadingInvariance == Spec => []IInv
  BY InitIInv, NextIInv, PTL DEF Spec

LEMMA KnownIsLoadedFollows == IInv => KnownIsLoaded
  BY DEF IInv, Marks, KnownIsLoaded

-------------------------------------------------------------------------------
(* The theorems. *)

\* The variables keep their types, and the mapper being loaded is known.
THEOREM LoadingTypes == Spec => []TypeOK
<1>1. IInv => TypeOK
  BY DEF IInv
<1>. QED
  BY <1>1, LoadingInvariance, PTL

\* StrictMap's simple names: each stands for the only full name that ends in it,
\* or is marked ambiguous exactly if there are several.
THEOREM NamesAreClear == Spec => []ShortNames
<1>1. IInv => ShortNames
  BY DEF IInv
<1>. QED
  BY <1>1, LoadingInvariance, PTL

\* A known mapper that is not being loaded has been read to its end, whatever
\* loads failed before or in between.
THEOREM KnownMappersAreLoaded == Spec => []KnownIsLoaded
  BY KnownIsLoadedFollows, LoadingInvariance, PTL

\* However the files were ordered, a statement uses its own mapper's result map
\* of the name it refers to, if that mapper has one.
THEOREM OwnResultMapsFirst == Spec => []BindingsRight
<1>1. IInv => BindingsRight
  BY DEF IInv
<1>. QED
  BY <1>1, LoadingInvariance, PTL

\* No load, retry or repeated load replaces a statement or binds it anew.
THEOREM StatementsStay == Spec => NothingReplaced
<1>. DEFINE Stays == \A k \in Full : statements[k] # Nothing =>
                        statements'[k] = statements[k] /\ bound'[k] = bound[k]
<1>1. ASSUME IInv, [Next]_vars
      PROVE  [Stays]_vars
  <2>1. CASE UNCHANGED <<statements, bound>>
    BY <2>1
  <2>2. ASSUME NEW m \in Mapper, NEW e \in Statement,
               Fresh(statements, <<m, e.id>>), Register(m, e)
        PROVE  Stays
    <3>1. <<m, e.id>> \in Full
      BY DEF Statement, Full
    <3>2. ASSUME NEW k \in Full, k # <<m, e.id>>
          PROVE  statements'[k] = statements[k] /\ bound'[k] = bound[k]
      <4>1. /\ k \in Key /\ Short(e.id) # k
            /\ statements \in [Key -> Entry] /\ bound \in [Full -> SUBSET (Key \X Entry)]
        BY <1>1, Names DEF Statement, IInv, TypeOK
      <4>2. statements' = Put(statements, <<m, e.id>>)
        BY <2>2 DEF Register
      <4>3. statements'[k] = statements[k]
        BY <3>2, <4>1, <4>2 DEF Put
      <4>4. bound'[k] = bound[k]
        BY <2>2, <3>2, <4>1 DEF Register
      <4>. QED
        BY <4>3, <4>4
    <3>. QED
      BY <2>2, <3>1, <3>2 DEF Fresh
  <2>3. CASE ReadStatement
    <3>1. loading \in Mapper /\ file[loading] # Nothing
      BY <1>1, <2>3 DEF IInv, TypeOK, ReadStatement
    <3>2. file[loading].statements \in Seq(Statement) /\ next \in Nat \ {0}
      BY <1>1, <3>1, FileTypes DEF IInv, TypeOK
    <3>3. next \in DOMAIN file[loading].statements
      BY <2>3, <3>2 DEF ReadStatement
    <3>4. ThisStatement \in Statement
      BY <1>1, <3>1, <3>3, FileTypes DEF IInv, ThisStatement
    <3>. QED
      BY <2>2, <2>3, <3>1, <3>4 DEF ReadStatement
  <2>4. CASE RetryCompletes
    <3>1. next \in DOMAIN pending
      BY <1>1, <2>4 DEF IInv, TypeOK, RetryCompletes
    <3>2. ThisPending.mapper \in Mapper /\ ThisPending.statement \in Statement
      BY <1>1, <3>1, PendingTypes DEF IInv, ThisPending
    <3>. QED
      BY <2>2, <2>4, <3>2 DEF RetryCompletes
  <2>. QED
    BY <1>1, <2>1, <2>3, <2>4 DEF Next, vars, configuration, ReadResultMap, ResultMapsRead,
       PostponeStatement, StatementsRead, ElementFails, Abort, RetryIncomplete, RetryFails,
       Loaded, Built, AddMapper, AddAgain, Lookup
<1>. QED
  BY <1>1, LoadingInvariance, PTL DEF Spec, NothingReplaced

\* A mapper once loaded stays known: being added again is refused, and failures
\* of other mappers do not reach it.
THEOREM MappersStayKnown == Spec => KnownForGood
<1>. DEFINE Stays == \A m \in known : m \in known' \/ m = loading
<1>1. ASSUME [Next]_vars
      PROVE  [Stays]_vars
  BY <1>1 DEF Next, vars, configuration, ReadResultMap, ResultMapsRead, ReadStatement,
     PostponeStatement, StatementsRead, ElementFails, Abort, RetryCompletes, RetryIncomplete,
     RetryFails, Loaded, Built, AddMapper, AddAgain, Lookup
<1>. QED
  BY <1>1, PTL DEF Spec, KnownForGood

\* A load that succeeds leaves no statement pending that could be completed.
THEOREM RetriesAreThorough == Spec => RetryIsThorough
<1>1. ASSUME IInv
      PROVE  [Loaded => \A i \in DOMAIN pending : ~Complete(pending[i].statement)]_vars
  <2>1. SUFFICES ASSUME Loaded, NEW i \in DOMAIN pending
                 PROVE  ~Complete(pending[i].statement)
    OBVIOUS
  <2>2. i < next
    BY <1>1, <2>1, PendingTypes DEF IInv, TypeOK, Loaded
  <2>. QED
    BY <1>1, <2>1, <2>2 DEF IInv, Progress, Loaded
<1>. QED
  BY <1>1, LoadingInvariance, PTL DEF RetryIsThorough

-------------------------------------------------------------------------------
(* The end of a load *)

\* How far a load, or a lookup, is from its end: the lists it has yet to go
\* through, and the elements that are left of this one.
Stages == [maps |-> 2, statements |-> 1, retry |-> 0, build |-> 0, idle |-> 0]
ToRead ==
    CASE phase = "maps" -> Len(file[loading].resultMaps)
      [] phase = "statements" -> Len(file[loading].statements)
      [] Retrying -> Len(pending)
      [] phase = "idle" -> 0
Distance == <<Stages[phase], ToRead + 1 - next>>
Ranks == [1..2 -> Nat]

\* The next element is one of the list, or the end of it.
Within == next <= ToRead + 1

Descends == phase = "idle" \/ phase' = "idle" \/ <<Distance', Distance>> \in LexBelow(2)

LEMMA ToReadType == ASSUME TypeOK PROVE ToRead \in Nat
<1>1. Len(pending) \in Nat
  BY LenProperties DEF TypeOK
<1>2. CASE phase \in {"maps", "statements"}
  <2>1. loading \in Mapper /\ file[loading] # Nothing
    BY <1>2 DEF TypeOK
  <2>2. Len(file[loading].resultMaps) \in Nat /\ Len(file[loading].statements) \in Nat
    BY <2>1, FileTypes, LenProperties
  <2>. QED
    BY <1>2, <2>2 DEF ToRead
<1>. QED
  BY <1>1, <1>2 DEF TypeOK, ToRead, Retrying

LEMMA DistanceType == ASSUME TypeOK, Within PROVE Distance \in Ranks
<1>1. Stages[phase] \in Nat
  BY DEF TypeOK, Stages
<1>2. ToRead + 1 - next \in Nat
  BY ToReadType DEF TypeOK, Within
<1>. QED
  BY <1>1, <1>2 DEF Distance, Ranks

LEMMA StartsWithin == TypeOK /\ next = 1 => Within
  BY ToReadType DEF Within

\* The steps of a load: the next list, the next element, or one element fewer.
Onwards ==
    \/ Stages[phase'] < Stages[phase] /\ next' = 1
    \/ /\ phase' = phase /\ next <= ToRead
       /\ \/ ToRead' = ToRead /\ next' = next + 1
          \/ ToRead' = ToRead - 1 /\ next' = next

LEMMA StepOnwards ==
  ASSUME IInv, Next
  PROVE  phase = "idle" \/ (phase' = "idle" /\ next' = 1) \/ Onwards
<1>1. CASE ReadResultMap
  <2>1. /\ phase = "maps" /\ next <= Len(file[loading].resultMaps) /\ next' = next + 1
        /\ UNCHANGED <<phase, file, loading>>
    BY <1>1 DEF ReadResultMap
  <2>. QED
    BY <2>1 DEF Onwards, ToRead, Retrying
<1>2. CASE ReadStatement \/ PostponeStatement
  <2>1. /\ phase = "statements" /\ next <= Len(file[loading].statements) /\ next' = next + 1
        /\ UNCHANGED <<phase, file, loading>>
    BY <1>2 DEF ReadStatement, PostponeStatement
  <2>. QED
    BY <2>1 DEF Onwards, ToRead, Retrying
<1>3. CASE RetryIncomplete
  <2>1. CASE phase = "retry"
    <3>1. next <= Len(pending) /\ next' = next + 1 /\ UNCHANGED <<phase, pending>>
      BY <1>3, <2>1 DEF RetryIncomplete, configuration
    <3>. QED
      BY <2>1, <3>1 DEF Onwards, ToRead, Retrying
  <2>. QED
    BY <1>3, <2>1 DEF RetryIncomplete
<1>4. CASE RetryCompletes
  <2>1. /\ phase \in {"retry", "build"} /\ next <= Len(pending)
        /\ pending' = RemoveAt(pending, next) /\ UNCHANGED <<phase, next>>
    BY <1>4 DEF RetryCompletes, Retrying
  <2>2. pending \in Seq(Element) /\ next \in 1 .. Len(pending)
    BY <2>1, LenProperties DEF IInv, TypeOK
  <2>3. Len(pending') = Len(pending) - 1
    BY <2>1, <2>2, RemoveAtProperties
  <2>. QED
    BY <2>1, <2>3 DEF Onwards, ToRead, Retrying
<1>5. CASE ResultMapsRead \/ StatementsRead
  BY <1>5 DEF ResultMapsRead, StatementsRead, Onwards, Stages
<1>6. CASE ElementFails \/ RetryFails \/ Loaded \/ Built
  BY <1>6 DEF ElementFails, Abort, RetryFails, Loaded, Built
<1>7. ASSUME NEW m \in Mapper, AddMapper(m) \/ AddAgain(m) \/ Lookup
      PROVE  phase = "idle"
  BY <1>7 DEF AddMapper, AddAgain, Lookup
<1>. QED
  BY <1>1, <1>2, <1>3, <1>4, <1>5, <1>6, <1>7 DEF Next, Lookup

LEMMA StepWithin ==
  ASSUME IInv, IInv', Within, [Next]_vars
  PROVE  Within'
<1>1. CASE UNCHANGED <<phase, next, loading, file, pending>>
  BY <1>1 DEF Within, ToRead, Retrying
<1>2. CASE next' = 1
  <2>1. (TypeOK /\ next = 1)' => Within'
    BY StartsWithin, PTL
  <2>. QED
    BY <1>2, <2>1 DEF IInv
<1>3. CASE Onwards
  <2>1. ToRead \in Nat /\ next \in Nat
    BY ToReadType DEF IInv, TypeOK
  <2>. QED
    BY <1>2, <1>3, <2>1 DEF Onwards, Within
<1>4. ASSUME phase = "idle", Next
      PROVE  next' = 1 \/ UNCHANGED <<phase, next, loading, file, pending>>
  <2>1. ASSUME NEW m \in Mapper, AddMapper(m) \/ AddAgain(m)
        PROVE  next' = 1 \/ UNCHANGED <<phase, next, loading, file, pending>>
    BY <2>1 DEF AddMapper, AddAgain, vars, configuration
  <2>2. Lookup => next' = 1
    BY DEF Lookup
  <2>. QED
    BY <1>4, <2>1, <2>2 DEF Next, Retrying, ReadResultMap, ResultMapsRead, ReadStatement,
       PostponeStatement, StatementsRead, ElementFails, RetryCompletes, RetryIncomplete,
       RetryFails, Loaded, Built
<1>5. UNCHANGED vars => UNCHANGED <<phase, next, loading, file, pending>>
  BY DEF vars, configuration
<1>. QED
  BY <1>1, <1>2, <1>3, <1>4, <1>5, StepOnwards

LEMMA LexBelowCases ==
  ASSUME NEW a \in Ranks, NEW b \in Ranks, a[1] < b[1] \/ (a[1] = b[1] /\ a[2] < b[2])
  PROVE  <<a, b>> \in LexBelow(2)
<1>1. PICK j \in 1..2 : a[j] < b[j] /\ \A i \in 1..(j - 1) : a[i] = b[i]
  <2>1. CASE a[1] < b[1]
    BY <2>1
  <2>2. CASE a[1] = b[1] /\ a[2] < b[2]
    <3>1. \A i \in 1..(2 - 1) : a[i] = b[i]
      BY <2>2
    <3>. QED
      BY <2>2, <3>1
  <2>. QED
    BY <2>1, <2>2
<1>. QED
  BY <1>1, LexBelowAt DEF Ranks

LEMMA StepDescends ==
  ASSUME IInv, Next, Distance \in Ranks, Distance' \in Ranks
  PROVE  Descends
<1>. DEFINE d == Distance
            e == Distance'
<1>1. /\ d[1] = Stages[phase] /\ d[2] = ToRead + 1 - next
      /\ e[1] = Stages[phase'] /\ e[2] = ToRead' + 1 - next'
  BY DEF Distance
<1>2. e[1] < d[1] => <<e, d>> \in LexBelow(2)
  BY LexBelowCases
<1>3. e[1] = d[1] /\ e[2] < d[2] => <<e, d>> \in LexBelow(2)
  BY LexBelowCases
<1>4. CASE Onwards
  <2>1. ToRead \in Nat /\ next \in Nat
    BY ToReadType DEF IInv, TypeOK
  <2>2. CASE Stages[phase'] < Stages[phase]
    BY <1>1, <1>2, <2>2 DEF Descends
  <2>3. CASE phase' = phase /\ (\/ ToRead' = ToRead /\ next' = next + 1
                                \/ ToRead' = ToRead - 1 /\ next' = next)
    <3>1. e[1] = d[1] /\ e[2] < d[2]
      BY <1>1, <2>1, <2>3
    <3>. QED
      BY <1>3, <3>1 DEF Descends
  <2>. QED
    BY <1>4, <2>2, <2>3 DEF Onwards
<1>. QED
  BY <1>4, StepOnwards DEF Descends

\* No load goes on for ever, nor a lookup: each step ends it or brings it nearer to
\* its end in an order without infinite descent, however many statements are
\* pending and become complete (the loops of XMLMapperBuilder.parse, which remove
\* elements from the list they go through, and Configuration.buildAllStatements).
THEOREM LoadsDescend ==
  /\ IsWellFoundedOn(LexBelow(2), Ranks)
  /\ Spec => [](Distance \in Ranks) /\ [][Descends]_vars
<1>1. Init => IInv /\ Within
  BY InitIInv, StartsWithin DEF Init, IInv
<1>2. IInv /\ Within /\ [Next]_vars => (IInv /\ Within)'
  BY NextIInv, StepWithin
<1>3. IInv /\ Within => Distance \in Ranks
  BY DistanceType DEF IInv
<1>4. IInv /\ Within /\ (IInv /\ Within)' /\ [Next]_vars => [Descends]_vars
  <2>0. (IInv /\ Within)' => (Distance \in Ranks)'
    BY <1>3, PTL
  <2>1. ASSUME IInv, Within, (IInv /\ Within)', Next
        PROVE  Descends
    <3>1. Distance \in Ranks
      BY <1>3, <2>1
    <3>2. Distance' \in Ranks
      BY <2>0, <2>1 DEF Ranks
    <3>. QED
      BY <2>1, <3>1, <3>2, StepDescends
  <2>. QED
    BY <2>1
<1>5. IsWellFoundedOn(LexBelow(2), Ranks)
  BY LexBelowWellFounded DEF Ranks
<1>6. Spec => [](IInv /\ Within)
  BY <1>1, <1>2, PTL DEF Spec
<1>7. Spec => [](Distance \in Ranks)
  BY <1>3, <1>6, PTL
<1>8. Spec => [][Descends]_vars
  BY <1>4, <1>6, PTL DEF Spec
<1>. QED
  BY <1>5, <1>7, <1>8

===============================================================================
