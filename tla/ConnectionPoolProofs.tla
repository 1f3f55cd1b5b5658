------------------------- MODULE ConnectionPoolProofs -------------------------
(* Proofs about ConnectionPool, for every value of its constants. *)
EXTENDS ConnectionPool, SequenceTheorems, TLAPS

-------------------------------------------------------------------------------
(* Sequences as the pool uses them. *)

Injective(s) == \A i, j \in DOMAIN s : s[i] = s[j] => i = j

\* ArrayList.remove(Object): on a list without repetitions the element goes,
\* the others stay, and an absent element changes nothing.
LEMMA RemoveFirstProperties ==
    ASSUME NEW S, NEW s \in Seq(S), NEW e, Injective(s)
    PROVE  /\ RemoveFirst(s, e) \in Seq(S)
           /\ Injective(RemoveFirst(s, e))
           /\ Range(RemoveFirst(s, e)) = Range(s) \ {e}
           /\ Len(RemoveFirst(s, e)) = IF e \in Range(s) THEN Len(s) - 1 ELSE Len(s)
<1>1. CASE ~(\E i \in 1 .. Len(s) : s[i] = e)
  <2>1. RemoveFirst(s, e) = s
    BY <1>1 DEF RemoveFirst
  <2>2. e \notin Range(s)
    BY <1>1 DEF Range
  <2>. QED
    BY <2>1, <2>2
<1>2. CASE \E i \in 1 .. Len(s) : s[i] = e
  <2>. DEFINE I == {i \in 1 .. Len(s) : s[i] = e}
              k == SelectInSeq(s, LAMBDA v : v = e)
              t == RemoveAt(s, k)
  <2>0. Len(s) \in Nat /\ DOMAIN s = 1 .. Len(s)
    OBVIOUS
  <2>1. PICK n \in 1 .. Len(s) : s[n] = e
    BY <1>2
  <2>2. I = {n}
    BY <2>1 DEF Injective
  <2>3. k = n
    <3>1. Min(I) = n
      BY <2>2 DEF Min
    <3>2. k = IF I # {} THEN Min(I) ELSE 0
      BY DEF SelectInSeq
    <3>. QED
      BY <2>2, <3>1, <3>2
  <2>4. /\ SubSeq(s, 1, n - 1) \in Seq(S)
        /\ Len(SubSeq(s, 1, n - 1)) = n - 1
        /\ \A i \in 1 .. n - 1 : SubSeq(s, 1, n - 1)[i] = s[i]
    BY <2>1
  <2>5. /\ SubSeq(s, n + 1, Len(s)) \in Seq(S)
        /\ Len(SubSeq(s, n + 1, Len(s))) = Len(s) - n
        /\ \A i \in 1 .. Len(s) - n : SubSeq(s, n + 1, Len(s))[i] = s[n + i]
    BY <2>1
  <2>6. /\ t \in Seq(S)
        /\ Len(t) = Len(s) - 1
        /\ DOMAIN t = 1 .. Len(s) - 1
        /\ \A i \in 1 .. Len(s) - 1 : t[i] = IF i < n THEN s[i] ELSE s[i + 1]
    <3>. DEFINE u == SubSeq(s, 1, n - 1)
                v == SubSeq(s, n + 1, Len(s))
    <3>1. u \in Seq(S) /\ v \in Seq(S)
      BY <2>4, <2>5
    <3>2. /\ u \o v \in Seq(S)
          /\ Len(u \o v) = Len(u) + Len(v)
          /\ \A i \in 1 .. Len(u) + Len(v) :
                (u \o v)[i] = IF i <= Len(u) THEN u[i] ELSE v[i - Len(u)]
      BY <3>1, ConcatProperties
    <3>3. t = u \o v
      BY <2>3 DEF RemoveAt
    <3>. HIDE DEF t, u, v
    <3>4. Len(u) = n - 1 /\ Len(v) = Len(s) - n
      BY <2>4, <2>5 DEF u, v
    <3>5. /\ \A i \in 1 .. n - 1 : u[i] = s[i]
          /\ \A i \in 1 .. Len(s) - n : v[i] = s[n + i]
      BY <2>4, <2>5 DEF u, v
    <3>6. ASSUME NEW i \in 1 .. Len(s) - 1
          PROVE  t[i] = IF i < n THEN s[i] ELSE s[i + 1]
      <4>1. CASE i < n
        BY <4>1, <3>2, <3>3, <3>4, <3>5, <2>1
      <4>2. CASE ~(i < n)
        <5>1. i - (n - 1) \in 1 .. Len(s) - n /\ n + (i - (n - 1)) = i + 1
          BY <4>2, <2>1
        <5>2. t[i] = v[i - (n - 1)]
          BY <4>2, <3>2, <3>3, <3>4, <2>1
        <5>. QED
          BY <4>2, <5>1, <5>2, <3>5
      <4>. QED
        BY <4>1, <4>2
    <3>7. t \in Seq(S)
      BY <3>2, <3>3
    <3>8. Len(t) = Len(s) - 1
      BY <3>2, <3>3, <3>4, <2>0
    <3>9. DOMAIN t = 1 .. Len(s) - 1
      BY <3>7, <3>8
    <3>. QED
      BY <3>6, <3>7, <3>8, <3>9
  <2>7. RemoveFirst(s, e) = t
    BY <1>2 DEF RemoveFirst
  <2>. HIDE DEF t, k, I
  <2>8. Injective(t)
    <3>1. SUFFICES ASSUME NEW i \in 1 .. Len(s) - 1, NEW j \in 1 .. Len(s) - 1, t[i] = t[j]
                   PROVE  i = j
      BY <2>6 DEF Injective
    <3>. DEFINE at(m) == IF m < n THEN m ELSE m + 1
    <3>2. at(i) \in DOMAIN s /\ at(j) \in DOMAIN s /\ s[at(i)] = s[at(j)]
      BY <3>1, <2>0, <2>1, <2>6
    <3>3. at(i) = at(j)
      BY <3>2 DEF Injective
    <3>. QED
      BY <3>3, <2>1
  <2>9. Range(t) = Range(s) \ {e}
    <3>1. ASSUME NEW x \in Range(t)
          PROVE  x \in Range(s) \ {e}
      <4>1. PICK i \in 1 .. Len(s) - 1 : x = t[i]
        BY <2>6 DEF Range
      <4>2. PICK j \in 1 .. Len(s) : x = s[j] /\ j # n
        <5>. DEFINE j == IF i < n THEN i ELSE i + 1
        <5>1. j \in 1 .. Len(s) /\ j # n /\ t[i] = s[j]
          BY <2>0, <2>1, <2>6
        <5>. QED
          BY <4>1, <5>1
      <4>. QED
        BY <4>2, <2>0, <2>1 DEF Range, Injective
    <3>2. ASSUME NEW x \in Range(s) \ {e}
          PROVE  x \in Range(t)
      <4>1. PICK j \in 1 .. Len(s) : x = s[j] /\ j # n
        BY <2>1 DEF Range
      <4>2. \E i \in 1 .. Len(s) - 1 : x = t[i]
        <5>1. CASE j < n
          BY <5>1, <4>1, <2>0, <2>6, <2>1
        <5>2. CASE j > n
          <6>1. j - 1 \in 1 .. Len(s) - 1 /\ t[j - 1] = s[j]
            BY <5>2, <4>1, <2>0, <2>6, <2>1
          <6>. QED
            BY <6>1, <4>1
        <5>. QED
          BY <5>1, <5>2, <4>1, <2>0, <2>1
      <4>. QED
        BY <4>2, <2>6 DEF Range
    <3>. QED
      BY <3>1, <3>2
  <2>10. e \in Range(s)
    BY <2>1 DEF Range
  <2>. QED
    BY <2>6, <2>7, <2>8, <2>9, <2>10
<1>. QED
  BY <1>1, <1>2

LEMMA AppendRange ==
    ASSUME NEW S, NEW s \in Seq(S), NEW e \in S
    PROVE  /\ Append(s, e) \in Seq(S)
           /\ Len(Append(s, e)) = Len(s) + 1
           /\ Range(Append(s, e)) = Range(s) \cup {e}
           /\ Injective(s) /\ e \notin Range(s) => Injective(Append(s, e))
<1>. DEFINE t == Append(s, e)
<1>1. /\ t \in Seq(S) /\ Len(t) = Len(s) + 1
      /\ \A i \in 1 .. Len(s) : t[i] = s[i]
      /\ t[Len(s) + 1] = e
  BY AppendProperties
<1>2. Range(t) = Range(s) \cup {e}
  BY <1>1 DEF Range
<1>3. Injective(s) /\ e \notin Range(s) => Injective(t)
  BY <1>1 DEF Injective, Range
<1>. QED
  BY <1>1, <1>2, <1>3

LEMMA TailRange ==
    ASSUME NEW S, NEW s \in Seq(S), s # <<>>, Injective(s)
    PROVE  /\ Head(s) \in S /\ Head(s) \in Range(s)
           /\ Tail(s) \in Seq(S)
           /\ Len(Tail(s)) = Len(s) - 1
           /\ Range(Tail(s)) = Range(s) \ {Head(s)}
           /\ Injective(Tail(s))
<1>1. /\ Tail(s) \in Seq(S) /\ Len(Tail(s)) = Len(s) - 1 /\ Len(s) > 0
      /\ \A i \in 1 .. Len(s) - 1 : Tail(s)[i] = s[i + 1]
      /\ Head(s) = s[1] /\ Head(s) \in S
  BY HeadTailProperties
<1>2. Injective(Tail(s))
  BY <1>1 DEF Injective
<1>3. Head(s) \in Range(s)
  BY <1>1 DEF Range
<1>4. Range(Tail(s)) = Range(s) \ {Head(s)}
  <2>1. ASSUME NEW x \in Range(s), x # Head(s)
        PROVE  x \in Range(Tail(s))
    <3>1. PICK i \in 1 .. Len(s) : x = s[i]
      BY DEF Range
    <3>2. i - 1 \in 1 .. Len(s) - 1 /\ Tail(s)[i - 1] = s[i]
      BY <1>1, <2>1, <3>1
    <3>. QED
      <4>1. i - 1 \in DOMAIN Tail(s)
        BY <3>2, <1>1
      <4>. QED
        BY <3>1, <3>2, <4>1 DEF Range
  <2>2. ASSUME NEW x \in Range(Tail(s))
        PROVE  x \in Range(s) \ {Head(s)}
    BY <1>1 DEF Range, Injective
  <2>. QED
    BY <2>1, <2>2
<1>. QED
  BY <1>1, <1>2, <1>3, <1>4

-------------------------------------------------------------------------------
(* The inductive invariant. Exclusive alone is not inductive: that an overdue  *)
(* wrapper has sole control of its connection needs ActiveIsHeld, and that a   *)
(* candidate is nobody else's needs ControlState.                              *)

IInv == Types /\ ControlState /\ Exclusive /\ ActiveIsHeld

\* The values the actions write are of the right type.
LEMMA ConnectionValues ==
    ASSUME Types
    PROVE  /\ Closed \in Connection /\ Opened \in Connection
           /\ \A k \in Connection : RolledBack(k) \in Connection
           /\ NoUser \in User /\ NoCode \in ConnectionType
           /\ \A r \in Real : Usable(r) \subseteq Connection /\ Unusable(r) \subseteq Connection
<1>1. Closed \in Connection /\ Opened \in Connection
  BY PoolAssumption DEF Types, ConnectionType, Closed, Opened, Connection
<1>2. ASSUME NEW k \in Connection
      PROVE  RolledBack(k) \in Connection
  BY DEF RolledBack, Connection
<1>3. NoUser \in User /\ NoCode \in ConnectionType
  BY DEF Types, ConnectionType, NoUser, NoCode
<1>4. ASSUME NEW r \in Real
      PROVE  Usable(r) \subseteq Connection /\ Unusable(r) \subseteq Connection
  <2>1. conn[r] \in Connection /\ RolledBack(conn[r]) \in Connection
    BY <1>2 DEF Types
  <2>. QED
    BY <1>1, <2>1 DEF Usable, Unusable
<1>. QED
  BY <1>1, <1>2, <1>3, <1>4

LEMMA InitIInv == Init => IInv
<1>. SUFFICES ASSUME Init
              PROVE  IInv
  OBVIOUS
<1>1. Types
  <2>1. Closed \in Connection /\ NoUser \in User /\ NoCode \in ConnectionType
    BY DEF Init, Closed, Connection, NoUser, NoCode, ConnectionType
  <2>2. 0 \in 0 .. MaxIdle + Tolerance
    BY PoolAssumption
  <2>3. valid \in [Client -> BOOLEAN] /\ reconfiguring \in BOOLEAN
    BY DEF Init
  <2>4. active \in Seq(Client) /\ idle \in Seq(Real)
    BY DEF Init
  <2>5. /\ lock \in Client \cup {NoClient} /\ cand \in Real \cup {NoReal}
        /\ pc \in [Client -> {"idle", "pop", "wait", "check", "using", "acting"}]
        /\ overdue \in SUBSET Client
    BY DEF Init
  <2>. QED
    BY <2>1, <2>2, <2>3, <2>4, <2>5 DEF Init, Types
<1>2. ControlState
  BY PoolAssumption DEF Init, ControlState, Holding
<1>3. Exclusive
  BY DEF Init, Exclusive, Range
<1>4. ActiveIsHeld
  BY DEF Init, ActiveIsHeld, Range
<1>. QED
  BY <1>1, <1>2, <1>3, <1>4 DEF IInv

\* A step that moves no connection and nobody in or out of the lock or of a
\* wrapper preserves the invariant as soon as it preserves the types.
LEMMA Frame ==
    ASSUME IInv, Types',
           UNCHANGED <<active, idle, lock, cand, held, valid>>,
           \A c \in Client : pc'[c] = "check" <=> pc[c] = "check",
           \A c \in Client : Holding(c)' <=> Holding(c)
    PROVE  IInv'
<1>1. ControlState'
  BY DEF IInv, ControlState
<1>2. Exclusive'
  BY DEF IInv, Exclusive
<1>3. ActiveIsHeld'
  BY DEF IInv, ActiveIsHeld, Types, Range
<1>. QED
  BY <1>1, <1>2, <1>3 DEF IInv

\* popConnection without a hand-out, waiting and calls through a proxy; then the
\* setters, time and the server: the steps Frame covers.
LEMMA QuietSteps ==
    ASSUME IInv, NEW c \in Client,
           \/ Request(c) \/ CreateFails(c) \/ Wait(c) \/ Timeout(c) \/ Interrupt(c)
           \/ CheckConnection(c) \/ Act(c)
    PROVE  IInv'
<1>. USE DEF IInv
<1>1. CASE Request(c)
  <2>1. Types'
    BY <1>1 DEF Request, Types, configVars
  <2>. QED
    BY <1>1, <2>1, Frame DEF Request, Types, Holding
<1>2. CASE CreateFails(c)
  <2>1. conn' \in [Real -> Connection]
    BY <1>2, ConnectionValues DEF CreateFails, Open, Types
  <2>0. /\ bad' \in [Client -> 0 .. MaxIdle + Tolerance]
        /\ user' \in [Client -> User]
    BY <1>2, ConnectionValues, PoolAssumption DEF CreateFails, Throw, Return, Types
  <2>2. Types'
    BY <1>2, <2>0, <2>1 DEF CreateFails, Throw, Types, configVars
  <2>. QED
    BY <1>2, <2>2, Frame DEF CreateFails, MayCreate, Entering, Throw, Types, Holding
<1>3. CASE Wait(c)
  <2>1. Types'
    BY <1>3 DEF Wait, Types, configVars
  <2>. QED
    BY <1>3, <2>1, Frame DEF Wait, Saturated, Entering, Types, Holding
<1>4. CASE Timeout(c)
  <2>1. Types'
    BY <1>4 DEF Timeout, Types, configVars
  <2>. QED
    BY <1>4, <2>1, Frame DEF Timeout, Types, Holding
<1>5. CASE Interrupt(c)
  <2>1. Types'
    BY <1>5, ConnectionValues, PoolAssumption DEF Interrupt, Throw, Return, Types, configVars
  <2>. QED
    BY <1>5, <2>1, Frame DEF Interrupt, Throw, Types, Holding
<1>6. CASE CheckConnection(c)
  <2>1. Types'
    BY <1>6 DEF CheckConnection, Types, configVars
  <2>. QED
    BY <1>6, <2>1, Frame DEF CheckConnection, Types, Holding
<1>7. CASE Act(c)
  <2>1. held[c] \in Real
    BY <1>7 DEF Act, ControlState, Holding, Types
  <2>2. conn' \in [Real -> Connection]
    <3>1. conn[held[c]] \in Connection
      BY <2>1 DEF Types
    <3>2. Results(c, conn[held[c]]) \subseteq Connection
      <4>. DEFINE k == conn[held[c]]
      <4>1. ASSUME NEW b \in BOOLEAN
            PROVE  [k EXCEPT !.auto = b, !.pending = IF b THEN {} ELSE @] \in Connection
        BY <3>1 DEF Connection
      <4>2. [k EXCEPT !.pending = @ \cup {c}] \in Connection
        BY <3>1 DEF Connection
      <4>3. RolledBack(k) \in Connection
        BY <3>1, ConnectionValues
      <4>. HIDE DEF k
      <4>4. k \in Connection
        BY <3>1 DEF k
      <4>5. ASSUME NEW n \in Results(c, k)
            PROVE  n \in Connection
        BY <4>1, <4>2, <4>3, <4>4, <4>5 DEF Results
      <4>. QED
        BY <4>5 DEF k
    <3>. QED
      BY <1>7, <3>2 DEF Act, Types
  <2>3. Types'
    BY <1>7, <2>2 DEF Act, Types, configVars
  <2>. QED
    BY <1>7, <2>3, Frame DEF Act, Types, Holding
<1>. QED
  BY <1>1, <1>2, <1>3, <1>4, <1>5, <1>6, <1>7

LEMMA EnvironmentSteps ==
    ASSUME IInv, SetField \/ CheckoutExpires \/ ServerDrops
    PROVE  IInv'
<1>. USE DEF IInv
<1>1. CASE SetField
  <2>0. config' \in ConnectionType /\ reconfiguring' \in BOOLEAN
    <3>1. config \in ConnectionType
      BY DEF Types
    <3>. QED
      BY <1>1, <3>1 DEF SetField, ConnectionType
  <2>1. Types'
    BY <1>1, <2>0 DEF SetField, Types, clientVars
  <2>. QED
    BY <1>1, <2>1, Frame DEF SetField, clientVars, Holding
<1>2. CASE CheckoutExpires
  <2>1. Types'
    BY <1>2 DEF CheckoutExpires, Types, configVars
  <2>. QED
    BY <1>2, <2>1, Frame DEF CheckoutExpires, Holding
<1>3. CASE ServerDrops
  <2>1. conn' \in [Real -> Connection]
    BY <1>3, ConnectionValues DEF ServerDrops, Types
  <2>2. Types'
    BY <1>3, <2>1 DEF ServerDrops, Types, clientVars, configVars
  <2>. QED
    BY <1>3, <2>2, Frame DEF ServerDrops, clientVars, Holding
<1>. QED
  BY <1>1, <1>2, <1>3

\* The lists of a state that satisfies the invariant.
LEMMA ListsOK ==
    ASSUME IInv
    PROVE  /\ active \in Seq(Client) /\ Injective(active)
           /\ idle \in Seq(Real) /\ Injective(idle)
           /\ Range(active) \subseteq Client /\ Range(idle) \subseteq Real
BY DEF IInv, Types, Exclusive, Injective, Range

\* The oldest idle connection becomes the candidate.
LEMMA TakeIdleStep ==
    ASSUME IInv, NEW c \in Client, TakeIdle(c)
    PROVE  IInv'
<1>. USE DEF IInv
<1>1. /\ idle' \in Seq(Real) /\ Injective(idle')
      /\ cand' \in Real /\ cand' \in Range(idle)
      /\ Range(idle') = Range(idle) \ {cand'}
  BY ListsOK, TailRange DEF TakeIdle, Candidate
<1>2. Types'
  BY <1>1 DEF TakeIdle, Candidate, Types, configVars
<1>3. ControlState'
  BY <1>1, PoolAssumption DEF TakeIdle, Candidate, Entering, ControlState,
         Types, Holding
<1>4. ActiveIsHeld'
  BY DEF TakeIdle, Candidate, Entering,
         ActiveIsHeld, Types, Holding, Range
<1>5. Exclusive'
  BY <1>1 DEF TakeIdle, Exclusive, Injective
<1>. QED
  BY <1>2, <1>3, <1>4, <1>5

\* A new connection becomes the candidate: nobody refers to it yet.
LEMMA CreateStep ==
    ASSUME IInv, NEW c \in Client, Create(c)
    PROVE  IInv'
<1>. USE DEF IInv
<1>1. PICK r \in Real : Unreferenced(r) /\ Open(r) /\ Candidate(c, r)
  BY DEF Create
<1>2. Types'
  BY <1>1, ConnectionValues DEF Create, Candidate, Open, Types, configVars
<1>3. ControlState'
  BY <1>1, PoolAssumption
     DEF Create, MayCreate, Candidate, Entering, ControlState,
         Types, Holding
<1>4. ActiveIsHeld'
  BY <1>1 DEF Create, MayCreate, Candidate, Entering,
         ActiveIsHeld, Types, Holding, Range
<1>5. Exclusive'
  BY <1>1 DEF Create, Candidate, Exclusive, Unreferenced
<1>. QED
  BY <1>2, <1>3, <1>4, <1>5

\* The overdue wrapper is invalidated, its connection becomes the candidate.
LEMMA ClaimStep ==
    ASSUME IInv, NEW c \in Client, Claim(c)
    PROVE  IInv'
<1>. USE DEF IInv
<1>. DEFINE o == Head(active)
            r == held[o]
<1>1. active # <<>>
  BY ListsOK, PoolAssumption DEF Claim, Invalidate, OldestOverdue, Saturated
<1>2. /\ o \in Client /\ o \in Range(active)
      /\ active' \in Seq(Client) /\ Injective(active')
      /\ Range(active') = Range(active) \ {o}
  BY <1>1, ListsOK, TailRange, RemoveFirstProperties DEF Claim, Invalidate, OldestOverdue
<1>3. valid[o] /\ Holding(o) /\ r \in Real
  BY <1>2 DEF ActiveIsHeld, ControlState, Types
<1>4. /\ Candidate(c, r)
      /\ valid' = [valid EXCEPT ![o] = FALSE]
      /\ UNCHANGED <<idle, held>>
  BY DEF Claim, Invalidate, OldestOverdue
<1>5. conn' \in [Real -> Connection]
  <2>1. conn[r] \in Connection /\ RolledBack(conn[r]) \in Connection
    BY <1>3, ConnectionValues DEF Types
  <2>2. conn' = [conn EXCEPT ![r] = RolledBack(conn[r])] \/ conn' = conn
    BY DEF Claim, Invalidate, OldestOverdue
  <2>. QED
    BY <1>3, <2>1, <2>2 DEF Types
<1>6. Types'
  BY <1>2, <1>3, <1>4, <1>5 DEF Claim, Invalidate, OldestOverdue, Candidate, Types, configVars
<1>7. ControlState'
  BY <1>3, <1>4, PoolAssumption
     DEF Claim, Invalidate, OldestOverdue, Saturated, Candidate, Entering, ControlState,
         Types, Holding
<1>8. ActiveIsHeld'
  BY <1>2, <1>4, ListsOK
     DEF Claim, Invalidate, OldestOverdue, Saturated, Candidate, Entering,
         ActiveIsHeld, Types, Holding
<1>9. Exclusive'
  BY <1>2, <1>3, <1>4 DEF Candidate, Exclusive, Types, Injective
<1>. QED
  BY <1>6, <1>7, <1>8, <1>9

LEMMA ClaimFailsStep ==
    ASSUME IInv, NEW c \in Client, ClaimFails(c)
    PROVE  IInv'
<1>. USE DEF IInv
<1>1. /\ active' \in Seq(Client) /\ Injective(active')
      /\ Range(active') \subseteq Range(active)
  BY ListsOK, RemoveFirstProperties DEF ClaimFails
<1>2. /\ bad' \in [Client -> 0 .. MaxIdle + Tolerance]
      /\ user' \in [Client -> User]
  BY ConnectionValues, PoolAssumption DEF ClaimFails, Throw, Return, Types
<1>3. Types'
  BY <1>1, <1>2 DEF ClaimFails, Throw, Types, configVars
<1>4. ControlState'
  BY DEF ClaimFails, Saturated, Throw, Entering, ControlState,
         Types, Holding
<1>5. ActiveIsHeld'
  BY <1>1, ListsOK DEF ClaimFails, Saturated, Throw, Entering,
         ActiveIsHeld, Types, Holding
<1>6. Exclusive'
  BY <1>1 DEF ClaimFails, Exclusive, Injective
<1>. QED
  BY <1>3, <1>4, <1>5, <1>6

\* The candidate gets a valid wrapper: nothing else has a claim on it.
LEMMA InstallStep ==
    ASSUME IInv, NEW c \in Client, Install(c)
    PROVE  IInv'
<1>. USE DEF IInv
<1>1. lock = c /\ pc[c] = "check" /\ cand \in Real /\ ~valid[c]
  BY PoolAssumption DEF Install, ControlState,
         Types, Holding
<1>2. c \notin Range(active)
  BY <1>1 DEF ActiveIsHeld
<1>3. /\ active' \in Seq(Client) /\ Injective(active')
      /\ Range(active') = Range(active) \cup {c}
  BY <1>2, ListsOK, AppendRange DEF Install
<1>4. conn' \in [Real -> Connection]
  BY <1>1, ConnectionValues DEF Install, Types
<1>5. /\ bad' \in [Client -> 0 .. MaxIdle + Tolerance]
      /\ user' \in [Client -> User]
      /\ code' \in [Client -> ConnectionType]
  BY ConnectionValues, PoolAssumption DEF Install, Return, Types, ConnectionType
<1>6. Types'
  BY <1>1, <1>3, <1>4, <1>5 DEF Install, Release, Types, configVars
<1>7. ControlState'
  BY <1>1, PoolAssumption DEF Install, Release, ControlState,
         Types, Holding
<1>8. ActiveIsHeld'
  BY <1>3, ListsOK DEF Install, ActiveIsHeld, Types, Holding
<1>9. Exclusive'
  <2>1. NoReal \notin Range(idle)
    BY ListsOK, PoolAssumption
  <2>. QED
    BY <1>1, <1>3, <2>1, PoolAssumption
       DEF Install, Release, Exclusive, ControlState, Types, Injective, Holding
<1>. QED
  BY <1>6, <1>7, <1>8, <1>9

\* The lock holder leaves popConnection without a connection.
LEMMA GiveUpStep ==
    ASSUME IInv, NEW c \in Client, InstallFails(c) \/ Discard(c)
    PROVE  IInv'
<1>. USE DEF IInv
<1>1. lock = c /\ pc[c] = "check" /\ cand \in Real
  BY PoolAssumption DEF InstallFails, Discard, GivesUp, ControlState, Types
<1>2. conn' \in [Real -> Connection]
  <2>1. PICK k \in Usable(cand) \cup Unusable(cand) : conn' = [conn EXCEPT ![cand] = k]
    BY DEF InstallFails, Discard, GivesUp
  <2>2. k \in Connection
    BY <1>1, ConnectionValues
  <2>. QED
    BY <2>1, <2>2 DEF Types
<1>3. /\ UNCHANGED <<active, idle, held, valid, code, overdue, configVars>>
      /\ lock' = NoClient /\ cand' = NoReal
  BY DEF InstallFails, Discard, GivesUp, Release
<1>4. /\ \E next \in {"idle", "pop"} : pc' = [pc EXCEPT ![c] = next]
      /\ bad' \in [Client -> 0 .. MaxIdle + Tolerance]
      /\ user' \in [Client -> User]
  <2>1. CASE InstallFails(c)
    BY <2>1, ConnectionValues, PoolAssumption DEF InstallFails, Throw, Return, Types
  <2>0. bad[c] \in 0 .. MaxIdle + Tolerance /\ 0 \in 0 .. MaxIdle + Tolerance
    BY PoolAssumption DEF Types
  <2>2. CASE Discard(c) /\ bad[c] + 1 > MaxIdle + Tolerance
    <3>1. Throw(c)
      BY <2>2 DEF Discard, GivesUp
    <3>. QED
      BY <2>0, <3>1, ConnectionValues DEF Throw, Return, Types
  <2>3. CASE Discard(c) /\ ~(bad[c] + 1 > MaxIdle + Tolerance)
    <3>1. /\ bad' = [bad EXCEPT ![c] = bad[c] + 1]
          /\ pc' = [pc EXCEPT ![c] = "pop"]
          /\ user' = user
      BY <2>3 DEF Discard, GivesUp
    <3>2. bad[c] + 1 \in 0 .. MaxIdle + Tolerance
      BY <2>0, <2>3, PoolAssumption
    <3>. QED
      BY <3>1, <3>2 DEF Types
  <2>. QED
    BY <2>1, <2>2, <2>3
<1>5. Types'
  BY <1>2, <1>3, <1>4 DEF Types, configVars
<1>6. ControlState'
  BY <1>1, <1>3, <1>4, PoolAssumption DEF ControlState,
         Types, Holding
<1>7. ActiveIsHeld'
  BY <1>1, <1>3, <1>4, ListsOK DEF ActiveIsHeld, Types, Holding
<1>8. Exclusive'
  <2>1. NoReal \notin Range(idle)
    BY ListsOK, PoolAssumption
  <2>. QED
    BY <1>3, <2>1, PoolAssumption DEF Exclusive, ControlState
<1>. QED
  BY <1>5, <1>6, <1>7, <1>8

\* What the three ways for a wrapper to end have in common.
LEMMA DropStep ==
    ASSUME IInv, NEW c \in Client, Closing(c), DropWrapper(c),
           active' = RemoveFirst(active, c),
           conn' \in [Real -> Connection],
           pc' \in [Client -> {"idle", "pop", "wait", "check", "using", "acting"}],
           pc'[c] = "idle",
           \A d \in Client \ {c} :
              pc'[d] = pc[d] \/ (pc[d] = "wait" /\ pc'[d] = "pop"),
           UNCHANGED <<lock, cand, user, bad, configVars>>,
           \/ UNCHANGED idle
           \/ valid[c] /\ idle' = Append(idle, held[c])
    PROVE  IInv'
<1>. USE DEF IInv
<1>1. lock = NoClient /\ cand = NoReal /\ pc[c] = "using" /\ held[c] \in Real
  BY DEF Closing, ControlState,
         Types, Holding
<1>2. /\ active' \in Seq(Client) /\ Injective(active')
      /\ Range(active') = Range(active) \ {c}
  BY ListsOK, RemoveFirstProperties
<1>3. /\ idle' \in Seq(Real) /\ Injective(idle')
      /\ \/ Range(idle') = Range(idle)
         \/ valid[c] /\ Range(idle') = Range(idle) \cup {held[c]}
  <2>1. CASE UNCHANGED idle
    BY <2>1, ListsOK
  <2>2. CASE valid[c] /\ idle' = Append(idle, held[c])
    <3>1. held[c] \notin Range(idle)
      BY <2>2 DEF Exclusive
    <3>. QED
      BY <2>2, <3>1, <1>1, ListsOK, AppendRange
  <2>. QED
    BY <2>1, <2>2
<1>4. NoCode \in ConnectionType
  BY ConnectionValues
<1>5. Types'
  BY <1>2, <1>3, <1>4 DEF Types, DropWrapper, Invalidate, configVars
<1>6. ControlState'
  BY <1>1, PoolAssumption DEF ControlState, Types, Holding, DropWrapper, Invalidate
<1>7. ActiveIsHeld'
  BY <1>2, ListsOK DEF ActiveIsHeld, Types, Holding, DropWrapper, Invalidate
<1>8. Exclusive'
  <2>1. NoReal \notin Range(idle')
    BY <1>3, <1>1, ListsOK, PoolAssumption
  <2>2. ASSUME NEW d \in Client, valid'[d]
        PROVE  d # c /\ valid[d] /\ held'[d] = held[d] /\ held[d] # NoReal
    BY <2>2 DEF DropWrapper, Invalidate, Types, ControlState
  <2>3. ASSUME NEW d \in Client, valid'[d]
        PROVE  held'[d] \notin Range(idle') \cup {cand'}
    BY <2>2, <2>3, <1>1, <1>3 DEF Exclusive
  <2>. QED
    BY <1>1, <1>2, <1>3, <2>1, <2>2, <2>3 DEF Exclusive, Injective
<1>. QED
  BY <1>5, <1>6, <1>7, <1>8

LEMMA CloseStep ==
    ASSUME IInv, NEW c \in Client, Close(c)
    PROVE  IInv'
<1>. USE DEF IInv
<1>1. Closing(c) /\ held[c] \in Real
  BY DEF Close, CloseBad, CloseReal, CloseToIdle, CloseFails,
         Closing, ControlState,
         Types, Holding
<1>2. CASE CloseBad(c)
  <2>1. conn' \in [Real -> Connection]
    <3>1. ASSUME NEW k \in Unusable(held[c]), conn' = [conn EXCEPT ![held[c]] = k]
          PROVE  conn' \in [Real -> Connection]
      <4>1. k \in Connection
        BY <3>1, <1>1, ConnectionValues
      <4>. QED
        BY <3>1, <4>1 DEF Types
    <3>. QED
      BY <1>2, <3>1 DEF CloseBad, Types
  <2>. QED
    BY <1>1, <1>2, <2>1, DropStep DEF CloseBad, Types
<1>3. CASE CloseReal(c)
  <2>1. conn' \in [Real -> Connection]
    BY <1>3, ConnectionValues DEF CloseReal, Types
  <2>. QED
    BY <1>1, <1>3, <2>1, DropStep DEF CloseReal, Types
<1>4. CASE CloseToIdle(c)
  <2>1. conn' \in [Real -> Connection]
    <3>1. RolledBack(conn[held[c]]) \in Connection
      BY <1>1, ConnectionValues DEF Types
    <3>. QED
      BY <1>4, <3>1 DEF CloseToIdle, Types
  <2>2. /\ pc' \in [Client -> {"idle", "pop", "wait", "check", "using", "acting"}]
        /\ pc'[c] = "idle"
        /\ \A d \in Client \ {c} : pc'[d] = pc[d] \/ (pc[d] = "wait" /\ pc'[d] = "pop")
    BY <1>4 DEF CloseToIdle, NotifyAll, Types
  <2>3. /\ DropWrapper(c) /\ valid[c]
        /\ active' = RemoveFirst(active, c)
        /\ idle' = Append(idle, held[c])
        /\ UNCHANGED <<lock, cand, user, bad, configVars>>
    BY <1>4 DEF CloseToIdle
  <2>. QED
    BY <1>1, <2>1, <2>2, <2>3, DropStep
<1>5. CASE CloseFails(c)
  <2>1. /\ active' \in Seq(Client) /\ Injective(active')
        /\ Range(active') \subseteq Range(active)
    BY <1>5, ListsOK, RemoveFirstProperties DEF CloseFails
  <2>2. conn' \in [Real -> Connection]
    <3>1. PICK k \in Usable(held[c]) \cup Unusable(held[c]) :
             conn' = [conn EXCEPT ![held[c]] = k] \/ conn' = [conn EXCEPT ![held[c]] = RolledBack(k)]
      BY <1>5 DEF CloseFails
    <3>2. k \in Connection /\ RolledBack(k) \in Connection
      BY <1>1, ConnectionValues
    <3>. QED
      BY <3>1, <3>2 DEF Types
  <2>3. Types'
    BY <1>5, <2>1, <2>2 DEF CloseFails, Types, clientVars, configVars
  <2>4. ControlState'
    BY <1>5 DEF CloseFails, clientVars, ControlState, Holding
  <2>5. ActiveIsHeld'
    BY <1>5, <2>1 DEF CloseFails, clientVars, ActiveIsHeld, Holding
  <2>6. Exclusive'
    BY <1>5, <2>1 DEF CloseFails, clientVars, Exclusive, Injective
  <2>. QED
    BY <2>3, <2>4, <2>5, <2>6
<1>. QED
  BY <1>2, <1>3, <1>4, <1>5 DEF Close

LEMMA ForceCloseAllStep ==
    ASSUME IInv, ForceCloseAll
    PROVE  IInv'
<1>. USE DEF IInv
<1>1. lock = NoClient /\ cand = NoReal
  BY DEF ForceCloseAll, ControlState
<1>2. conn' \in [Real -> Connection]
  BY ConnectionValues DEF ForceCloseAll, Types
<1>3. active' = <<>> /\ idle' = <<>> /\ Range(active') = {} /\ Range(idle') = {}
  BY DEF ForceCloseAll, Range
<1>4. \A c \in Client : valid'[c] => valid[c]
  BY DEF ForceCloseAll
<1>5. Types'
  <2>1. /\ valid' \in [Client -> BOOLEAN]
        /\ reconfiguring' \in BOOLEAN
    BY DEF ForceCloseAll, Types
  <2>2. active' \in Seq(Client) /\ idle' \in Seq(Real)
    BY <1>3
  <2>. QED
    BY <1>2, <2>1, <2>2 DEF ForceCloseAll, Types
<1>6. ControlState'
  BY <1>4 DEF ForceCloseAll, ControlState, Holding
<1>7. ActiveIsHeld'
  BY <1>3 DEF ActiveIsHeld
<1>8. Exclusive'
  BY <1>1, <1>3, <1>4 DEF ForceCloseAll, Exclusive
<1>. QED
  BY <1>5, <1>6, <1>7, <1>8

LEMMA NextIInv == IInv /\ [Next]_vars => IInv'
<1>. SUFFICES ASSUME IInv, [Next]_vars
              PROVE  IInv'
  OBVIOUS
<1>1. CASE UNCHANGED vars
  BY <1>1 DEF vars, clientVars, configVars, IInv, Types, ControlState, Exclusive,
              ActiveIsHeld, Holding
<1>2. ASSUME NEW c \in Client, ClientStep(c)
      PROVE  IInv'
  <2>1. CASE Pop(c)
    BY <2>1, TakeIdleStep, CreateStep, ClaimStep, ClaimFailsStep, QuietSteps DEF Pop
  <2>2. CASE Judge(c)
    BY <2>2, InstallStep, GiveUpStep DEF Judge
  <2>. QED
    BY <1>2, <2>1, <2>2, CloseStep, QuietSteps DEF ClientStep
<1>. QED
  BY <1>1, <1>2, ForceCloseAllStep, EnvironmentSteps DEF Next

-------------------------------------------------------------------------------
(* The theorems. *)

\* The inductive invariant holds of every reachable state.
THEOREM Invariance == Spec => []IInv
<1>1. Init => IInv
  BY InitIInv
<1>2. IInv /\ [Next]_vars => IInv'
  BY NextIInv
<1>. QED
  BY <1>1, <1>2, PTL DEF Spec

\* The lists hold clients and connections, the retry counter of popConnection
\* stays within the bound the code of checkHasConnectionToTry gives it, and the
\* lock, the candidate and the wrappers belong to the threads that are at them.
THEOREM TypeCorrect == Spec => []TypeOK
<1>1. IInv => TypeOK
  BY DEF IInv, TypeOK
<1>. QED
  BY <1>1, Invariance, PTL

\* Whatever JDBC calls fail and however calls interleave, popConnection,
\* claimedOverdueConnect, pushConnection and forceCloseAll never leave one
\* real connection under two valid wrappers, or in use and idle at once.
THEOREM ExclusiveControl == Spec => []Exclusive
<1>1. IInv => Exclusive
  BY DEF IInv
<1>. QED
  BY <1>1, Invariance, PTL

\* An entry of the active list is a valid wrapper that a client still has.
THEOREM ActiveEntriesAreHeld == Spec => []ActiveIsHeld
<1>1. IInv => ActiveIsHeld
  BY DEF IInv
<1>. QED
  BY <1>1, Invariance, PTL

\* Nobody sleeps in waitConnectFinishWork beside an idle connection: a thread
\* starts to wait only under the lock with an empty idle list, and the one
\* place that adds to the list wakes everybody.
THEOREM NoLostWakeup == Spec => []NoWaiterWhileIdle
<1>1. Init => NoWaiterWhileIdle
  BY DEF Init, NoWaiterWhileIdle
<1>2. IInv /\ NoWaiterWhileIdle /\ [Next]_vars => NoWaiterWhileIdle'
  <2>. SUFFICES ASSUME IInv, NoWaiterWhileIdle, [Next]_vars
                PROVE  NoWaiterWhileIdle'
    OBVIOUS
  <2>. USE DEF NoWaiterWhileIdle
  <2>1. ASSUME NEW c \in Client, TakeIdle(c)
        PROVE  NoWaiterWhileIdle'
    BY <2>1 DEF TakeIdle, Entering, Candidate, IInv, Types
  <2>2. ASSUME NEW c \in Client, CreateFails(c) \/ Create(c) \/ Claim(c) \/ ClaimFails(c) \/ Wait(c)
        PROVE  idle' = <<>>
    BY <2>2 DEF CreateFails, Create, Claim, ClaimFails, Wait, MayCreate, Saturated
  <2>3. ASSUME NEW c \in Client, Request(c) \/ Timeout(c) \/ Interrupt(c) \/ Judge(c)
        PROVE  NoWaiterWhileIdle'
    BY <2>3 DEF Request, Timeout, Interrupt, Judge, Install, InstallFails, Discard, GivesUp, Throw,
                IInv, Types
  <2>4. ASSUME NEW c \in Client, CloseToIdle(c)
        PROVE  NoWaiterWhileIdle'
    BY <2>4 DEF CloseToIdle, NotifyAll
  <2>5. ASSUME NEW c \in Client, CloseBad(c) \/ CloseReal(c) \/ CloseFails(c)
        PROVE  NoWaiterWhileIdle'
    BY <2>5 DEF CloseBad, CloseReal, CloseFails, clientVars, IInv, Types
  <2>6. ASSUME NEW c \in Client, CheckConnection(c) \/ Act(c)
        PROVE  NoWaiterWhileIdle'
    BY <2>6 DEF CheckConnection, Act, IInv, Types
  <2>7. CASE SetField \/ CheckoutExpires \/ ServerDrops
    BY <2>7 DEF SetField, CheckoutExpires, ServerDrops, clientVars
  <2>8. CASE ForceCloseAll
    BY <2>8 DEF ForceCloseAll
  <2>9. CASE UNCHANGED vars
    BY <2>9 DEF vars, clientVars
  <2>. QED
    BY <2>1, <2>2, <2>3, <2>4, <2>5, <2>6, <2>7, <2>8, <2>9
       DEF Next, ClientStep, Pop, Close
<1>. QED
  BY <1>1, <1>2, Invariance, PTL DEF Spec

\* The step from "candidate judged" to "wrapper in use" is Install alone, and
\* it rolls back: no uncommitted work of an earlier holder is handed over.
THEOREM CleanHandovers == Spec => CleanHandover
<1>1. IInv /\ [Next]_vars =>
        [\A c \in Client : pc[c] = "check" /\ pc'[c] = "using" => conn'[held'[c]].pending = {}]_vars
  <2>. SUFFICES ASSUME IInv, Next, NEW c \in Client, pc[c] = "check", pc'[c] = "using"
                PROVE  conn'[held'[c]].pending = {}
    OBVIOUS
  <2>1. PICK d \in Client : ClientStep(d)
    BY DEF Next, SetField, ForceCloseAll, CheckoutExpires, ServerDrops, clientVars
  <2>2. Install(d) /\ c = d
    <3>1. ASSUME Close(d)
          PROVE  FALSE
      BY <3>1 DEF Close, CloseBad, CloseReal, CloseToIdle, CloseFails, NotifyAll, Closing,
                  clientVars, IInv, Types
    <3>2. ASSUME Pop(d)
          PROVE  FALSE
      BY <3>2 DEF Pop, TakeIdle, Create, CreateFails, Claim, ClaimFails, Wait, Candidate,
                  Throw, IInv, Types
    <3>3. ASSUME Request(d) \/ Timeout(d) \/ Interrupt(d)
          PROVE  FALSE
      BY <3>3 DEF Request, Timeout, Interrupt, Throw, IInv, Types
    <3>4. ASSUME CheckConnection(d) \/ Act(d)
          PROVE  FALSE
      BY <3>4 DEF CheckConnection, Act, IInv, Types
    <3>5. ASSUME InstallFails(d) \/ Discard(d)
          PROVE  FALSE
      BY <3>5 DEF InstallFails, Discard, GivesUp, Throw, IInv, Types
    <3>6. ASSUME Install(d)
          PROVE  c = d
      BY <3>6 DEF Install, IInv, Types
    <3>. QED
      BY <2>1, <3>1, <3>2, <3>3, <3>4, <3>5, <3>6 DEF ClientStep, Judge
  <2>3. cand \in Real /\ held'[c] = cand /\ conn'[cand] = RolledBack(conn[cand])
    <3>1. cand \in Real
      BY <2>2, PoolAssumption DEF Install, IInv, Types, ControlState
    <3>. QED
      BY <2>2, <3>1 DEF Install, IInv, Types
  <2>4. conn[cand] \in Connection
    BY <2>3 DEF IInv, Types
  <2>. QED
    BY <2>3, <2>4 DEF RolledBack, Connection
<1>. QED
  BY <1>1, Invariance, PTL DEF Spec, CleanHandover

\* pushConnection keeps the limit of the idle list, also when it is called again
\* after a close that failed: it counts the list under the same lock.
THEOREM IdleConnectionsLimited == Spec => []IdleLimited
<1>1. Init => IInv /\ IdleLimited
  <2>1. Init => IdleLimited
    BY PoolAssumption DEF Init, IdleLimited
  <2>. QED
    BY <2>1, InitIInv
<1>2. IInv /\ IdleLimited /\ [Next]_vars => IdleLimited'
  <2>. SUFFICES ASSUME IInv, IdleLimited, [Next]_vars
                PROVE  Len(idle') <= MaxIdle
    BY DEF IdleLimited
  <2>1. idle \in Seq(Real) /\ Len(idle) \in Nat /\ Len(idle) <= MaxIdle /\ MaxIdle \in Nat
    BY PoolAssumption DEF IInv, Types, IdleLimited
  <2>2. ASSUME NEW c \in Client, CloseToIdle(c)
        PROVE  Len(idle') <= MaxIdle
    <3>1. held[c] \in Real /\ Len(idle) < MaxIdle
      BY <2>1, <2>2, PoolAssumption
         DEF CloseToIdle, Closing, MustCloseReal, IInv, Types, ControlState, Holding
    <3>. QED
      BY <2>1, <2>2, <3>1 DEF CloseToIdle
  <2>3. ASSUME NEW c \in Client, TakeIdle(c)
        PROVE  Len(idle') <= MaxIdle
    BY <2>1, <2>3 DEF TakeIdle
  <2>4. CASE ForceCloseAll
    BY <2>1, <2>4 DEF ForceCloseAll
  <2>5. ASSUME NEW c \in Client, Close(c)
        PROVE  CloseToIdle(c) \/ UNCHANGED idle
    BY <2>5 DEF Close, CloseBad, CloseReal, CloseFails
  <2>6. ASSUME NEW c \in Client, Pop(c)
        PROVE  TakeIdle(c) \/ UNCHANGED idle
    BY <2>6 DEF Pop, Create, CreateFails, Claim, ClaimFails, Wait
  <2>7. ASSUME NEW c \in Client, Judge(c)
        PROVE  UNCHANGED idle
    BY <2>7 DEF Judge, Install, InstallFails, Discard
  <2>8. ASSUME NEW c \in Client,
               Request(c) \/ Timeout(c) \/ Interrupt(c) \/ CheckConnection(c) \/ Act(c)
        PROVE  UNCHANGED idle
    BY <2>8 DEF Request, Timeout, Interrupt, CheckConnection, Act
  <2>9. CASE SetField \/ CheckoutExpires \/ ServerDrops \/ UNCHANGED vars
    BY <2>1, <2>9 DEF SetField, CheckoutExpires, ServerDrops, vars
  <2>. QED
    BY <2>1, <2>2, <2>3, <2>4, <2>5, <2>6, <2>7, <2>8, <2>9 DEF Next, ClientStep
<1>. QED
  BY <1>1, <1>2, Invariance, PTL DEF Spec

\* Only its own close, an overdue checkout or a reconfiguration takes a valid
\* wrapper away from a client.
THEOREM RevocationHasACause == Spec => RevokedForCause
<1>1. IInv /\ [Next]_vars =>
        [\A c \in Client : valid[c] /\ ~valid'[c] =>
            pc'[c] = "idle" \/ c \in overdue \/ reconfiguring]_vars
  <2>. SUFFICES ASSUME IInv, Next, NEW c \in Client, valid[c], ~valid'[c], ~reconfiguring
                PROVE  pc'[c] = "idle" \/ c \in overdue
    OBVIOUS
  <2>1. PICK d \in Client : ClientStep(d)
    BY DEF Next, SetField, ForceCloseAll, CheckoutExpires, ServerDrops, clientVars
  <2>2. CASE Close(d)
    BY <2>2 DEF Close, CloseBad, CloseReal, CloseToIdle, CloseFails, NotifyAll, DropWrapper,
                Invalidate, clientVars, IInv, Types
  <2>3. CASE Pop(d)
    BY <2>3 DEF Pop, TakeIdle, Create, CreateFails, Claim, Invalidate, OldestOverdue,
                ClaimFails, Wait, IInv, Types
  <2>4. CASE Judge(d)
    BY <2>4 DEF Judge, Install, InstallFails, Discard, GivesUp, IInv, Types
  <2>5. CASE Request(d) \/ Timeout(d) \/ Interrupt(d) \/ CheckConnection(d) \/ Act(d)
    BY <2>5 DEF Request, Timeout, Interrupt, CheckConnection, Act
  <2>. QED
    BY <2>1, <2>2, <2>3, <2>4, <2>5 DEF ClientStep
<1>. QED
  BY <1>1, Invariance, PTL DEF Spec, RevokedForCause
===============================================================================
