---------------------- MODULE ConnectionPoolHealthyProofs ----------------------
(* What the connection pool promises while JDBC calls succeed, for every value *)
(* of the other constants. (A ping may still find a connection dead.)          *)
EXTENDS ConnectionPoolProofs

Healthy == Faults = {}

\* The connections the pool knows of.
Mine == (Listed \cup {cand}) \ {NoReal}

\* They are the ones that are open, no more and no less.
Owned == \A r \in Real : conn[r].open <=> r \in Mine

\* A wrapper leaves the active list only to be invalidated or, when pushConnection
\* finds it unusable, with its connection closed: no close stops half way.
ValidIsActive ==
    \A c \in Client : valid[c] => c \in Range(active) \/ ~conn[held[c]].open

\* A connection taken from the idle list, or created, or claimed, has its place
\* among the active ones before it is installed there.
Room ==
    /\ Len(active) + Len(idle) + (IF lock = NoClient THEN 0 ELSE 1) <= MaxActive
    /\ Len(idle) <= MaxIdle

HInv == IInv /\ Owned /\ ValidIsActive /\ Room /\ PoolFollowsConfig

LEMMA MineInReal ==
    ASSUME IInv
    PROVE  /\ Mine \subseteq Real
           /\ \A c \in Range(active) : held[c] \in Mine /\ valid[c]
           /\ Range(idle) \subseteq Mine
           /\ Mine = ({held[c] : c \in Range(active)} \cup Range(idle) \cup {cand}) \ {NoReal}
<1>1. \A c \in Range(active) : held[c] \in Real /\ valid[c]
  BY ListsOK DEF IInv, ActiveIsHeld, ControlState, Types
<1>2. Range(idle) \subseteq Real
  BY ListsOK
<1>. QED
  BY <1>1, <1>2, PoolAssumption DEF Mine, Listed, IInv, Types

\* A call through an open connection changes neither where it goes nor that it
\* is open.
LEMMA RolledBackKeeps ==
    ASSUME IInv, NEW r \in Real
    PROVE  RolledBack(conn[r]).open = conn[r].open /\ RolledBack(conn[r]).url = conn[r].url
<1>1. conn[r] \in Connection
  BY DEF IInv, Types
<1>. QED
  BY <1>1 DEF RolledBack, Connection

\* What a connection of ours is when a test of it has failed: closed.
LEMMA UnusableIsClosed ==
    ASSUME Healthy, IInv, NEW r \in Real, NEW k \in Unusable(r)
    PROVE  ~k.open
BY DEF Healthy, Unusable

LEMMA Combine ==
    ASSUME HInv, IInv', Owned', ValidIsActive', Room',
           UNCHANGED <<config, reconfiguring>>,
           \A r \in Mine' : \/ r \in Mine /\ conn'[r].url = conn[r].url
                            \/ conn'[r].url = config.url
    PROVE  HInv'
BY DEF HInv, PoolFollowsConfig, Mine

\* Enough for ValidIsActive: what is valid and not active was so before, and its
\* connection has not come back.
LEMMA ValidStays ==
    ASSUME HInv,
           \A d \in Client : valid'[d] /\ d \notin Range(active') =>
              /\ valid[d] /\ d \notin Range(active) /\ held'[d] = held[d]
              /\ ~conn[held[d]].open => ~conn'[held[d]].open
    PROVE  ValidIsActive'
BY DEF HInv, ValidIsActive

\* A wrapper that is valid has a connection.
LEMMA ValidHeld ==
    ASSUME IInv, NEW d \in Client, valid[d]
    PROVE  held[d] \in Real
BY DEF IInv, ControlState, Types

\* Steps that move nothing.
LEMMA HealthyStill ==
    ASSUME HInv, IInv', UNCHANGED <<active, idle, lock, cand, held, valid, config, reconfiguring>>,
           \A r \in Real : conn'[r].open = conn[r].open /\ conn'[r].url = conn[r].url
    PROVE  HInv'
<1>1. Mine' = Mine /\ Mine \subseteq Real
  BY MineInReal DEF Mine, Listed, HInv
<1>2. Owned'
  BY <1>1 DEF HInv, Owned
<1>3. ValidIsActive'
  BY ValidStays, ValidHeld DEF HInv
<1>4. Room'
  BY DEF HInv, Room
<1>. QED
  BY <1>1, <1>2, <1>3, <1>4, Combine

LEMMA HealthyInit ==
    ASSUME Init
    PROVE  HInv
<1>1. IInv /\ Owned /\ ValidIsActive /\ PoolFollowsConfig
  BY InitIInv DEF Init, Owned, Mine, Listed, ValidIsActive, PoolFollowsConfig, Closed, Range
<1>2. Room
  BY PoolAssumption DEF Init, Room
<1>. QED
  BY <1>1, <1>2 DEF HInv

\* With every connection of the pool open, only a refused or useless candidate
\* makes a call of popConnection fail, and only a useless connection one of close.
LEMMA NoFailures ==
    ASSUME Healthy, HInv, NEW c \in Client
    PROVE  /\ ~ClaimFails(c) /\ ~InstallFails(c) /\ ~ServerDrops
           /\ CreateFails(c) => UNCHANGED conn
           /\ CloseFails(c) => \E k \in Unusable(held[c]) : conn' = [conn EXCEPT ![held[c]] = k]
<1>1. ASSUME ClaimFails(c)
      PROVE  FALSE
  <2>1. active # <<>>
    BY <1>1, ListsOK, PoolAssumption DEF HInv, ClaimFails, Saturated
  <2>2. Head(active) \in Range(active)
    BY <2>1, ListsOK, TailRange DEF HInv
  <2>3. held[Head(active)] \in Mine
    BY <2>2, MineInReal DEF HInv
  <2>4. conn[held[Head(active)]].open
    BY <2>3, MineInReal DEF HInv, Owned
  <2>. QED
    BY <1>1, <2>4 DEF ClaimFails, Healthy
<1>2. ASSUME InstallFails(c)
      PROVE  FALSE
  <2>1. cand \in Real /\ cand \in Mine
    BY <1>2, PoolAssumption DEF InstallFails, HInv, IInv, ControlState, Types, Mine
  <2>2. conn[cand].open
    BY <2>1 DEF HInv, Owned
  <2>. QED
    BY <1>2, <2>2 DEF InstallFails, RollbackMayThrow, Healthy
<1>3. ASSUME CloseFails(c)
      PROVE  \E k \in Unusable(held[c]) : conn' = [conn EXCEPT ![held[c]] = k]
  BY <1>3 DEF CloseFails, RollbackMayThrow, Usable, Healthy
<1>4. ~ServerDrops
  BY DEF ServerDrops, Healthy
<1>5. CreateFails(c) => UNCHANGED conn
  BY DEF CreateFails, Healthy
<1>. QED
  BY <1>1, <1>2, <1>3, <1>4, <1>5

LEMMA HealthyPop ==
    ASSUME Healthy, HInv, NEW c \in Client, Pop(c), IInv'
    PROVE  HInv'
<1>. USE DEF HInv
<1>1. lock = NoClient /\ cand = NoReal
  BY DEF Pop, TakeIdle, Create, CreateFails, Claim, ClaimFails, Wait, MayCreate, Saturated,
         Entering, IInv, ControlState
<1>2. CASE CreateFails(c) \/ Wait(c)
  <2>1. UNCHANGED <<active, idle, lock, cand, held, valid, config, reconfiguring, conn>>
    BY <1>2, NoFailures DEF CreateFails, Wait, configVars
  <2>. QED
    BY <2>1, HealthyStill
<1>3. CASE TakeIdle(c)
  <2>1. /\ cand' = Head(idle) /\ cand' \in Range(idle) /\ cand' \in Real
        /\ idle' \in Seq(Real) /\ Len(idle') = Len(idle) - 1
        /\ Range(idle') = Range(idle) \ {cand'}
        /\ lock' = c /\ c # NoClient
        /\ UNCHANGED <<active, held, valid, config, reconfiguring, conn>>
    BY <1>3, ListsOK, TailRange, PoolAssumption DEF TakeIdle, Candidate, configVars
  <2>2. Mine' = Mine
    BY <1>1, <2>1, PoolAssumption DEF Mine, Listed
  <2>3. Owned' /\ ValidIsActive'
    BY <2>1, <2>2 DEF Owned, ValidIsActive
  <2>4. Room'
    <3>1. Len(active) \in Nat /\ Len(idle) \in Nat
      BY ListsOK
    <3>. QED
      BY <1>1, <2>1, <3>1, PoolAssumption DEF Room
  <2>. QED
    BY <2>1, <2>2, <2>3, <2>4, Combine
<1>4. CASE Create(c)
  <2>1. PICK r \in Real : Unreferenced(r) /\ Open(r) /\ Candidate(c, r)
    BY <1>4 DEF Create
  <2>2. /\ UNCHANGED <<active, idle, held, valid, config, reconfiguring>>
        /\ cand' = r /\ lock' = c /\ c # NoClient
        /\ idle = <<>> /\ Len(active) < MaxActive
    BY <1>4, <2>1, PoolAssumption DEF Create, MayCreate, Candidate, configVars
  <2>3. Mine' = Mine \cup {r}
    BY <1>1, <2>2, PoolAssumption DEF Mine, Listed
  <2>4. conn' = [conn EXCEPT ![r] = Opened] /\ Opened.open /\ Opened.url = config.url
    BY <2>1 DEF Open, Opened
  <2>5. \A s \in Real : conn'[s] = IF s = r THEN Opened ELSE conn[s]
    BY <2>4 DEF IInv, Types
  <2>6. Owned' /\ ValidIsActive'
    BY <2>1, <2>2, <2>3, <2>4, <2>5, ValidHeld, ValidStays DEF Owned, Unreferenced
  <2>7. Room'
    <3>1. Len(active) \in Nat /\ Len(idle) = 0
      BY <2>2, ListsOK
    <3>. QED
      BY <1>1, <2>2, <3>1, PoolAssumption DEF Room
  <2>. QED
    BY <2>2, <2>3, <2>4, <2>5, <2>6, <2>7, MineInReal, Combine
<1>5. CASE Claim(c)
  <2>1. active # <<>>
    BY <1>5, ListsOK, PoolAssumption DEF Claim, Saturated
  <2>2. PICK o \in Client : o = Head(active) /\ o \in Range(active)
    BY <2>1, ListsOK, TailRange
  <2>3. PICK r \in Real : r = held[o] /\ r \in Mine
    BY <2>2, MineInReal
  <2>4. /\ Len(active') = Len(active) - 1
        /\ Range(active') = Range(active) \ {o}
        /\ cand' = r /\ lock' = c /\ c # NoClient
        /\ UNCHANGED <<idle, held, config, reconfiguring>>
        /\ valid' = [valid EXCEPT ![o] = FALSE]
    BY <1>5, <2>2, <2>3, ListsOK, RemoveFirstProperties, PoolAssumption
       DEF Claim, Candidate, Invalidate, configVars
  <2>5. Mine' = Mine
    BY <1>1, <2>2, <2>3, <2>4, PoolAssumption DEF Mine, Listed
  <2>6. \A s \in Real : conn'[s].open = conn[s].open /\ conn'[s].url = conn[s].url
    <3>1. conn' = [conn EXCEPT ![r] = RolledBack(conn[r])] \/ conn' = conn
      BY <1>5, <2>2, <2>3 DEF Claim
    <3>. QED
      BY <3>1, RolledBackKeeps DEF IInv, Types
  <2>7. Owned'
    BY <2>5, <2>6 DEF Owned
  <2>8. ValidIsActive'
    BY <2>4, <2>6, ValidHeld, ValidStays DEF IInv, Types
  <2>9. Room'
    <3>1. Len(active) \in Nat /\ Len(idle) \in Nat
      BY ListsOK
    <3>. QED
      BY <1>1, <2>4, <3>1, PoolAssumption DEF Room
  <2>. QED
    BY <2>4, <2>5, <2>6, <2>7, <2>8, <2>9, MineInReal, Combine
<1>. QED
  BY <1>2, <1>3, <1>4, <1>5, NoFailures DEF Pop

LEMMA HealthyJudge ==
    ASSUME Healthy, HInv, NEW c \in Client, Judge(c), IInv'
    PROVE  HInv'
<1>. USE DEF HInv
<1>1. /\ lock = c /\ c # NoClient /\ cand \in Real /\ cand # NoReal
      /\ lock' = NoClient /\ cand' = NoReal
      /\ c \notin Range(active)
  <2>1. lock = c /\ c # NoClient /\ cand \in Real /\ cand # NoReal /\ pc[c] = "check"
    BY PoolAssumption DEF Judge, Install, InstallFails, Discard, IInv, ControlState, Types
  <2>2. c \notin Range(active)
    BY <2>1 DEF IInv, ActiveIsHeld, Holding
  <2>. QED
    BY <2>1, <2>2 DEF Judge, Install, InstallFails, Discard, Release
<1>2. Len(active) \in Nat /\ Len(idle) \in Nat
  BY ListsOK
<1>3. CASE Install(c)
  <2>1. /\ Len(active') = Len(active) + 1
        /\ Range(active') = Range(active) \cup {c}
        /\ held' = [held EXCEPT ![c] = cand]
        /\ valid' = [valid EXCEPT ![c] = TRUE]
        /\ UNCHANGED <<idle, config, reconfiguring>>
    BY <1>1, <1>3, ListsOK, AppendRange DEF Install, configVars
  <2>2. {held'[d] : d \in Range(active')} = {held[d] : d \in Range(active)} \cup {cand}
    <3>1. \A d \in Range(active) : held'[d] = held[d]
      BY <1>1, <2>1, ListsOK DEF IInv, Types
    <3>2. held'[c] = cand
      BY <2>1 DEF IInv, Types
    <3>. QED
      BY <2>1, <3>1, <3>2
  <2>3. Mine' = Mine
    BY <1>1, <2>1, <2>2 DEF Mine, Listed
  <2>4. \A s \in Real : conn'[s].open = conn[s].open /\ conn'[s].url = conn[s].url
    <3>1. conn' = [conn EXCEPT ![cand] = RolledBack(conn[cand])]
      BY <1>3 DEF Install
    <3>. QED
      BY <3>1, <1>1, RolledBackKeeps DEF IInv, Types
  <2>5. Owned'
    BY <2>3, <2>4 DEF Owned
  <2>6. ValidIsActive'
    BY <2>1, <2>4, ValidHeld, ValidStays DEF IInv, Types
  <2>7. Room'
    BY <1>1, <1>2, <2>1, PoolAssumption DEF Room
  <2>. QED
    BY <2>1, <2>3, <2>4, <2>5, <2>6, <2>7, MineInReal, Combine
<1>4. CASE Discard(c)
  <2>1. PICK k \in Unusable(cand) : conn' = [conn EXCEPT ![cand] = k]
    BY <1>4 DEF Discard
  <2>2. UNCHANGED <<active, idle, held, valid, config, reconfiguring>>
    BY <1>4 DEF Discard, configVars
  <2>3. Mine' = Mine \ {cand}
    <3>1. cand \notin Range(idle) /\ \A d \in Range(active) : held[d] # cand
      BY MineInReal, ListsOK DEF IInv, Exclusive
    <3>. QED
      BY <1>1, <2>2, <3>1 DEF Mine, Listed
  <2>4. ~k.open
    BY <1>1, <2>1, UnusableIsClosed
  <2>5. \A s \in Real : conn'[s] = IF s = cand THEN k ELSE conn[s]
    BY <2>1 DEF IInv, Types
  <2>6. Owned' /\ ValidIsActive'
    BY <2>2, <2>3, <2>4, <2>5, ValidHeld, ValidStays DEF Owned
  <2>7. Room'
    BY <1>1, <1>2, <2>2, PoolAssumption DEF Room
  <2>. QED
    BY <2>2, <2>3, <2>5, <2>6, <2>7, MineInReal, Combine
<1>. QED
  BY <1>3, <1>4, NoFailures DEF Judge

\* A wrapper that is closed gives up its connection, and nothing else changes
\* hands.
LEMMA HealthyClose ==
    ASSUME Healthy, HInv, NEW c \in Client, Close(c), IInv'
    PROVE  HInv'
<1>. USE DEF HInv
<1>1. /\ lock = NoClient /\ cand = NoReal
      /\ Len(active) \in Nat /\ Len(idle) \in Nat
  BY ListsOK DEF Close, CloseBad, CloseReal, CloseToIdle, CloseFails, Closing, IInv, ControlState
<1>2. PICK r \in Real : r = held[c] /\ r # NoReal
  BY PoolAssumption DEF Close, CloseBad, CloseReal, CloseToIdle, CloseFails, Closing,
         IInv, ControlState, Types, Holding
<1>3. /\ UNCHANGED <<lock, cand, config, reconfiguring>>
      /\ \A d \in Client \ {c} : held'[d] = held[d] /\ valid'[d] = valid[d]
      /\ Range(active') = Range(active) \ {c}
      /\ Len(active') = IF c \in Range(active) THEN Len(active) - 1 ELSE Len(active)
  <2>1. /\ UNCHANGED <<lock, cand, config, reconfiguring>>
        /\ DropWrapper(c) \/ UNCHANGED <<held, valid>>
        /\ active' = RemoveFirst(active, c)
    BY DEF Close, CloseBad, CloseReal, CloseToIdle, CloseFails, clientVars, configVars
  <2>2. \A d \in Client \ {c} : held'[d] = held[d] /\ valid'[d] = valid[d]
    BY <2>1 DEF DropWrapper, Invalidate, IInv, Types
  <2>. QED
    BY <2>1, <2>2, ListsOK, RemoveFirstProperties
<1>4. CloseFails(c) \/ valid'[c] = FALSE
  BY DEF Close, CloseBad, CloseReal, CloseToIdle, DropWrapper, Invalidate, IInv, Types
<1>5. ASSUME c \in Range(active)
      PROVE  {held'[d] : d \in Range(active')} = {held[d] : d \in Range(active)} \ {r}
  <2>1. \A d \in Range(active) \ {c} : held'[d] = held[d]
    BY <1>3, ListsOK
  <2>2. \A d \in Range(active) \ {c} : held[d] # r
    BY <1>2, <1>5, MineInReal, ListsOK DEF IInv, Exclusive
  <2>. QED
    BY <1>2, <1>3, <1>5, <2>1, <2>2
<1>6. c \in Range(active) => valid[c] /\ r \in Mine /\ r \notin Range(idle)
  BY <1>2, MineInReal DEF IInv, Exclusive
<1>7. CASE c \notin Range(active)
  <2>1. UNCHANGED <<idle, conn>>
    <3>1. CASE ~valid[c]
      BY <3>1 DEF Close, CloseBad, CloseReal, CloseToIdle, CloseFails
    <3>2. CASE valid[c]
      <4>1. ~conn[r].open
        BY <1>2, <1>7, <3>2 DEF ValidIsActive
      <4>2. Usable(r) = {} /\ Unusable(r) = {conn[r]}
        BY <4>1 DEF Usable, Unusable
      <4>3. [conn EXCEPT ![r] = conn[r]] = conn
        BY DEF IInv, Types
      <4>4. CloseBad(c) \/ CloseFails(c)
        BY <1>2, <4>2 DEF Close, CloseReal, CloseToIdle
      <4>5. CloseBad(c) => \E k \in Unusable(r) : conn' = [conn EXCEPT ![r] = k]
        BY <1>2, <3>2 DEF CloseBad
      <4>6. CloseFails(c) => \E k \in Unusable(r) : conn' = [conn EXCEPT ![r] = k]
        BY <1>2, NoFailures
      <4>7. UNCHANGED conn
        BY <4>2, <4>3, <4>4, <4>5, <4>6
      <4>. QED
        BY <4>4, <4>7 DEF CloseBad, CloseFails
    <3>. QED
      BY <3>1, <3>2
  <2>2. {held'[d] : d \in Range(active')} = {held[d] : d \in Range(active)}
    BY <1>3, <1>7, ListsOK
  <2>3. Mine' = Mine
    BY <1>3, <2>1, <2>2 DEF Mine, Listed
  <2>4. Owned' /\ Room'
    BY <1>1, <1>3, <1>7, <2>1, <2>3 DEF Owned, Room
  <2>5. ValidIsActive'
    <3>1. CloseFails(c) => held'[c] = held[c] /\ valid'[c] = valid[c]
      BY DEF CloseFails, clientVars
    <3>. QED
      BY <1>3, <1>4, <1>7, <2>1, <3>1, ValidStays
  <2>. QED
    BY <1>3, <2>1, <2>3, <2>4, <2>5, Combine
<1>8. ASSUME c \in Range(active), UNCHANGED idle, NEW k, ~k.open, conn' = [conn EXCEPT ![r] = k]
      PROVE  HInv'
  <2>1. Mine' = Mine \ {r}
    <3>1. Listed' = ({held[d] : d \in Range(active)} \ {r}) \cup Range(idle)
      BY <1>5, <1>8 DEF Listed
    <3>2. r \notin Range(idle)
      BY <1>6, <1>8
    <3>3. Listed' = Listed \ {r}
      BY <3>1, <3>2 DEF Listed
    <3>4. cand' = NoReal /\ cand = NoReal
      BY <1>1, <1>3
    <3>. QED
      BY <3>3, <3>4 DEF Mine
  <2>2. \A s \in Real : conn'[s] = IF s = r THEN k ELSE conn[s]
    BY <1>8 DEF IInv, Types
  <2>3. Owned'
    BY <1>8, <2>1, <2>2 DEF Owned
  <2>4. Room'
    BY <1>1, <1>3, <1>8, PoolAssumption DEF Room
  <2>5. ValidIsActive'
    <3>1. ASSUME NEW d \in Client \ {c}, valid'[d], d \notin Range(active')
          PROVE  /\ valid[d] /\ d \notin Range(active) /\ held'[d] = held[d]
                 /\ ~conn[held[d]].open => ~conn'[held[d]].open
      BY <1>3, <1>8, <2>2, <3>1, ValidHeld
    <3>2. valid'[c] => held'[c] = r /\ ~conn'[r].open
      BY <1>2, <1>4, <1>8, <2>2 DEF CloseFails, clientVars
    <3>. QED
      BY <3>1, <3>2 DEF ValidIsActive
  <2>. QED
    BY <1>3, <2>1, <2>2, <2>3, <2>4, <2>5, MineInReal, Combine
<1>9. CASE c \in Range(active) /\ (CloseBad(c) \/ CloseFails(c))
  <2>1. PICK k \in Unusable(r) : conn' = [conn EXCEPT ![r] = k]
    BY <1>2, <1>6, <1>9, NoFailures DEF CloseBad
  <2>2. UNCHANGED idle
    BY <1>9 DEF CloseBad, CloseFails
  <2>. QED
    BY <1>8, <1>9, <2>1, <2>2, UnusableIsClosed
<1>10. CASE c \in Range(active) /\ CloseReal(c)
  <2>1. conn' = [conn EXCEPT ![r] = Closed] /\ UNCHANGED idle /\ ~Closed.open
    BY <1>2, <1>10 DEF CloseReal, Closed
  <2>. QED
    BY <1>8, <1>10, <2>1
<1>11. CASE c \in Range(active) /\ CloseToIdle(c)
  <2>1. /\ idle' = Append(idle, r) /\ Len(idle) < MaxIdle
        /\ conn' = [conn EXCEPT ![r] = RolledBack(conn[r])]
    BY <1>1, <1>2, <1>11, PoolAssumption DEF CloseToIdle, MustCloseReal
  <2>2. Range(idle') = Range(idle) \cup {r} /\ Len(idle') = Len(idle) + 1
    BY <2>1, ListsOK, AppendRange
  <2>3. Mine' = Mine
    BY <1>2, <1>3, <1>5, <1>6, <1>11, <2>1, <2>2 DEF Mine, Listed
  <2>4. \A s \in Real : conn'[s].open = conn[s].open /\ conn'[s].url = conn[s].url
    BY <2>1, RolledBackKeeps DEF IInv, Types
  <2>5. Owned'
    BY <2>3, <2>4 DEF Owned
  <2>6. Room'
    BY <1>1, <1>3, <1>11, <2>1, <2>2, PoolAssumption DEF Room
  <2>7. ValidIsActive'
    <3>1. valid'[c] = FALSE
      BY <1>11 DEF CloseToIdle, DropWrapper, Invalidate, IInv, Types
    <3>. QED
      BY <1>3, <2>4, <3>1, ValidHeld, ValidStays
  <2>. QED
    BY <1>3, <2>3, <2>4, <2>5, <2>6, <2>7, MineInReal, Combine
<1>. QED
  BY <1>7, <1>9, <1>10, <1>11 DEF Close

LEMMA HealthyRest ==
    ASSUME Healthy, HInv, NEW c \in Client, IInv',
           Request(c) \/ Timeout(c) \/ Interrupt(c) \/ CheckConnection(c) \/ Act(c)
    PROVE  HInv'
<1>. USE DEF HInv
<1>1. UNCHANGED <<active, idle, lock, cand, held, valid, config, reconfiguring>>
  BY DEF Request, Timeout, Interrupt, Throw, CheckConnection, Act, configVars
<1>2. \A r \in Real : conn'[r].open = conn[r].open /\ conn'[r].url = conn[r].url
  <2>1. CASE Act(c)
    <3>1. PICK r \in Real : r = held[c]
      BY <2>1 DEF Act, IInv, ControlState, Types, Holding
    <3>2. PICK n \in Results(c, conn[r]) : conn' = [conn EXCEPT ![r] = n]
      BY <2>1, <3>1 DEF Act
    <3>3. n.open = conn[r].open /\ n.url = conn[r].url
      <4>1. conn[r] \in Connection
        BY DEF IInv, Types
      <4>. QED
        BY <4>1 DEF Results, RolledBack, Connection
    <3>. QED
      BY <3>2, <3>3 DEF IInv, Types
  <2>2. CASE UNCHANGED conn
    BY <2>2
  <2>. QED
    BY <2>1, <2>2 DEF Request, Timeout, Interrupt, CheckConnection
<1>. QED
  BY <1>1, <1>2, HealthyStill

LEMMA HealthyEnvironment ==
    ASSUME Healthy, HInv, IInv', SetField \/ ForceCloseAll \/ CheckoutExpires
    PROVE  HInv'
<1>. USE DEF HInv
<1>1. CASE SetField
  <2>1. UNCHANGED <<active, idle, lock, cand, held, valid, conn>> /\ reconfiguring'
    BY <1>1 DEF SetField, clientVars
  <2>2. Mine' = Mine
    BY <2>1 DEF Mine, Listed
  <2>. QED
    BY <2>1, <2>2 DEF Owned, ValidIsActive, Room, PoolFollowsConfig
<1>2. CASE ForceCloseAll
  <2>1. /\ active' = <<>> /\ idle' = <<>> /\ Range(active') = {} /\ Range(idle') = {}
        /\ lock = NoClient /\ cand = NoReal /\ UNCHANGED <<lock, cand>>
    BY <1>2 DEF ForceCloseAll, Range, IInv, ControlState
  <2>2. Mine' = {}
    BY <2>1 DEF Mine, Listed
  <2>3. \A r \in Real : ~conn'[r].open
    <3>1. ASSUME NEW r \in Real
          PROVE  ~conn'[r].open
      <4>1. CASE r \in Listed
        <5>1. r \in Mine /\ conn[r].open
          BY <4>1, PoolAssumption DEF Mine, Owned
        <5>2. ~RollbackMayThrow(r)
          BY <5>1 DEF RollbackMayThrow, Healthy
        <5>3. conn'[r] = Closed
          BY <1>2, <4>1, <5>2 DEF ForceCloseAll, Healthy
        <5>. QED
          BY <5>3 DEF Closed
      <4>2. CASE r \notin Listed
        <5>1. ~conn[r].open
          BY <2>1, <4>2 DEF Owned, Mine
        <5>2. conn'[r] = conn[r]
          BY <1>2, <4>2 DEF ForceCloseAll
        <5>. QED
          BY <5>1, <5>2
      <4>. QED
        BY <4>1, <4>2
    <3>. QED
      BY <3>1
  <2>4. Owned'
    BY <2>2, <2>3 DEF Owned
  <2>5. ValidIsActive'
    BY <1>2, <2>1, <2>3, ValidHeld, ValidStays DEF ForceCloseAll
  <2>6. Room' /\ PoolFollowsConfig'
    <3>1. Room'
      BY <2>1, PoolAssumption DEF Room
    <3>2. PoolFollowsConfig'
      BY <2>2 DEF PoolFollowsConfig, Mine
    <3>. QED
      BY <3>1, <3>2
  <2>. QED
    BY <2>4, <2>5, <2>6
<1>3. CASE CheckoutExpires
  <2>1. UNCHANGED <<active, idle, lock, cand, held, valid, config, reconfiguring, conn>>
    BY <1>3 DEF CheckoutExpires, configVars
  <2>. QED
    BY <2>1, HealthyStill
<1>. QED
  BY <1>1, <1>2, <1>3

\* While JDBC calls succeed, the pool knows exactly the connections that are
\* open, keeps a place for each, and has none of an old url.
THEOREM HealthyInvariance ==
    ASSUME Healthy
    PROVE  Spec => []HInv
<1>1. Init => HInv
  BY HealthyInit
<1>2. HInv /\ [Next]_vars => HInv'
  <2>. SUFFICES ASSUME HInv, [Next]_vars
                PROVE  HInv'
    OBVIOUS
  <2>1. IInv'
    BY NextIInv DEF HInv
  <2>2. CASE UNCHANGED vars
    BY <2>1, <2>2, HealthyStill DEF vars, clientVars, configVars
  <2>3. ASSUME NEW c \in Client, ClientStep(c)
        PROVE  HInv'
    BY <2>1, <2>3, HealthyPop, HealthyJudge, HealthyClose, HealthyRest DEF ClientStep
  <2>4. CASE ServerDrops
    BY <2>4, Healthy DEF ServerDrops, Healthy
  <2>. QED
    BY <2>1, <2>2, <2>3, <2>4, HealthyEnvironment DEF Next
<1>. QED
  BY <1>1, <1>2, PTL DEF Spec

\* However closes, claims, discards and reconfigurations interleave, a
\* connection that is open at the server is in one of the pool's lists or
\* about to be installed.
THEOREM NothingLeaks ==
    ASSUME Healthy
    PROVE  Spec => []NoLeak
<1>1. HInv => NoLeak
  BY DEF HInv, Owned, Mine, NoLeak
<1>. QED
  BY <1>1, HealthyInvariance, PTL

\* The pool does not exceed poolMaximumActiveConnections: what popConnection takes
\* out of the idle list without counting was counted when it was created.
THEOREM LimitsKept ==
    ASSUME Healthy
    PROVE  Spec => []ActiveLimited
<1>1. HInv => ActiveLimited
  <2>1. HInv => Len(active) \in Nat /\ Len(idle) \in Nat
    BY ListsOK DEF HInv
  <2>. QED
    BY <2>1, PoolAssumption DEF HInv, Room, ActiveLimited
<1>. QED
  BY <1>1, HealthyInvariance, PTL

\* After forceCloseAll no connection of the old url is left to be handed out.
THEOREM ConfigurationFollowed ==
    ASSUME Healthy
    PROVE  Spec => []PoolFollowsConfig
<1>1. HInv => PoolFollowsConfig
  BY DEF HInv
<1>. QED
  BY <1>1, HealthyInvariance, PTL
===============================================================================
