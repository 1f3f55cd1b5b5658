------------------------ MODULE ConnectionLeaseProofs ------------------------
(* The connection pool implements ConnectionLease, for every value of the    *)
(* constants and whatever JDBC calls fail.                                   *)
EXTENDS ConnectionPoolProofs

Work == [r \in Real |-> conn[r].pending]

\* What a change of one connection is to its work.
LEMMA WorkOfOne ==
    ASSUME IInv, NEW r \in Real, NEW k, conn' = [conn EXCEPT ![r] = k]
    PROVE  Work' = [Work EXCEPT ![r] = k.pending]
BY DEF IInv, Types, Work

LEMMA WorkUnchanged ==
    ASSUME UNCHANGED conn
    PROVE  UNCHANGED Work
BY DEF Work

\* The connections a JDBC call may leave behind have no more work on them.
LEMMA PendingAfter ==
    ASSUME IInv, NEW r \in Real
    PROVE  /\ Closed.pending = {} /\ Opened.pending = {}
           /\ \A k \in Connection : RolledBack(k).pending = {}
           /\ \A k \in Usable(r) \cup Unusable(r) : k.pending \in {conn[r].pending, {}}
<1>1. Closed.pending = {} /\ Opened.pending = {}
  BY DEF Closed, Opened
<1>2. \A k \in Connection : RolledBack(k).pending = {}
  BY DEF RolledBack, Connection
<1>3. conn[r] \in Connection
  BY DEF IInv, Types
<1>. QED
  BY <1>1, <1>2, <1>3 DEF Usable, Unusable

LEMMA LeaseInit == Init => Lease!Init
BY DEF Init, Lease!Init, Closed

\* Steps that neither grant nor end a lease: obtaining or giving up a
\* candidate, waiting, and all that a failing call leaves behind.
LEMMA LeaseQuiet ==
    ASSUME IInv, NEW c \in Client, UNCHANGED <<held, valid, overdue, reconfiguring>>,
           \/ UNCHANGED conn
           \/ \E r \in Real : Open(r)
           \/ \E k \in Usable(cand) \cup Unusable(cand) :
                 cand \in Real /\ conn' = [conn EXCEPT ![cand] = k]
    PROVE  [Lease!Next]_(Lease!vars)
<1>1. CASE UNCHANGED conn
  BY <1>1, WorkUnchanged DEF Lease!vars, Work
<1>2. ASSUME NEW r \in Real, NEW k, conn' = [conn EXCEPT ![r] = k],
             k.pending \in {conn[r].pending, {}}
      PROVE  [Lease!Next]_(Lease!vars)
  <2>1. Work' = [Work EXCEPT ![r] = k.pending]
    BY <1>2, WorkOfOne
  <2>2. CASE k.pending = {}
    BY <2>1, <2>2 DEF Lease!Next, Lease!Lose, Work
  <2>3. CASE k.pending = conn[r].pending
    BY <2>1, <2>3 DEF Lease!vars, Work
  <2>. QED
    BY <1>2, <2>2, <2>3
<1>3. CASE \E r \in Real : Open(r)
  BY <1>3, <1>2, PendingAfter DEF Open
<1>4. CASE \E k \in Usable(cand) \cup Unusable(cand) :
              cand \in Real /\ conn' = [conn EXCEPT ![cand] = k]
  BY <1>4, <1>2, PendingAfter
<1>. QED
  BY <1>1, <1>3, <1>4

LEMMA LeasePop ==
    ASSUME IInv, NEW c \in Client, Pop(c)
    PROVE  [Lease!Next]_(Lease!vars)
<1>1. CASE TakeIdle(c) \/ Create(c) \/ CreateFails(c) \/ ClaimFails(c) \/ Wait(c)
  BY <1>1, LeaseQuiet DEF TakeIdle, Create, CreateFails, ClaimFails, Wait, Throw, configVars
<1>2. CASE Claim(c)
  <2>1. active # <<>>
    BY <1>2, ListsOK, PoolAssumption DEF Claim, Saturated
  <2>0. PICK o \in Client : o = Head(active) /\ o \in Range(active)
    BY <2>1, ListsOK, TailRange
  <2>2. PICK r \in Real : valid[o] /\ r = held[o]
    BY <2>0 DEF IInv, ActiveIsHeld, ControlState, Types
  <2>3. /\ o \in overdue
        /\ valid' = [valid EXCEPT ![o] = FALSE]
        /\ UNCHANGED <<held, overdue, reconfiguring>>
    BY <1>2, <2>0 DEF Claim, Invalidate, OldestOverdue, configVars
  <2>4. Lease!Ended(r)
    <3>1. CASE UNCHANGED conn
      BY <3>1, WorkUnchanged DEF Lease!Ended, Work
    <3>2. CASE conn' = [conn EXCEPT ![r] = RolledBack(conn[r])]
      <4>1. PICK k : k = RolledBack(conn[r])
        OBVIOUS
      <4>2. k.pending = {}
        BY <4>1, PendingAfter DEF IInv, Types
      <4>3. Work' = [Work EXCEPT ![r] = {}]
        BY <3>2, <4>1, <4>2, WorkOfOne
      <4>. QED
        BY <4>3 DEF Lease!Ended, Work
    <3>3. UNCHANGED conn \/ conn' = [conn EXCEPT ![r] = RolledBack(conn[r])]
      BY <1>2, <2>0, <2>2 DEF Claim
    <3>. QED
      BY <3>1, <3>2, <3>3
  <2>5. Lease!Revoke(o)
    BY <2>2, <2>3, <2>4 DEF Lease!Revoke, Lease!Ended
  <2>. QED
    BY <2>5 DEF Lease!Next
<1>. QED
  BY <1>1, <1>2 DEF Pop

\* Being installed is being granted: nobody else's lease is for the candidate.
LEMMA LeaseJudge ==
    ASSUME IInv, NEW c \in Client, Judge(c)
    PROVE  [Lease!Next]_(Lease!vars)
<1>1. cand \in Real /\ held[c] = NoReal
  BY PoolAssumption
     DEF Judge, Install, InstallFails, Discard, IInv, ControlState, Types, Holding
<1>2. CASE InstallFails(c)
  BY <1>1, <1>2, LeaseQuiet DEF InstallFails, configVars
<1>3. CASE Discard(c)
  BY <1>1, <1>3, LeaseQuiet DEF Discard, configVars
<1>4. CASE Install(c)
  <2>1. RolledBack(conn[cand]).pending = {}
    BY <1>1, PendingAfter DEF IInv, Types
  <2>2. Work' = [Work EXCEPT ![cand] = {}]
    <3>1. conn' = [conn EXCEPT ![cand] = RolledBack(conn[cand])]
      BY <1>4 DEF Install
    <3>. QED
      BY <1>1, <2>1, <3>1, WorkOfOne
  <2>3. \A d \in Client : valid[d] => held[d] # cand
    BY DEF IInv, Exclusive
  <2>4. Lease!Grant(c)
    BY <1>1, <1>4, <2>2, <2>3 DEF Lease!Grant, Install, Work, configVars
  <2>. QED
    BY <2>4 DEF Lease!Next
<1>. QED
  BY <1>2, <1>3, <1>4 DEF Judge

LEMMA LeaseClose ==
    ASSUME IInv, NEW c \in Client, Close(c)
    PROVE  [Lease!Next]_(Lease!vars)
<1>. DEFINE r == held[c]
<1>1. held[c] \in Real /\ r # NoReal
  BY PoolAssumption DEF Close, CloseBad, CloseReal, CloseToIdle, CloseFails,
         Closing, IInv, ControlState, Types, Holding
<1>2. ASSUME NEW k, conn' = [conn EXCEPT ![r] = k], k.pending \in {conn[r].pending, {}}
      PROVE  Lease!Ended(r)
  <2>1. Work' = [Work EXCEPT ![r] = k.pending]
    BY <1>1, <1>2, WorkOfOne
  <2>. QED
    BY <1>2, <2>1 DEF Lease!Ended, Work
<1>3. Closed.pending = {} /\ RolledBack(conn[r]).pending = {}
  BY <1>1, PendingAfter DEF IInv, Types
<1>4. CASE CloseFails(c)
  <2>1. PICK k \in Usable(r) \cup Unusable(r) :
          conn' = [conn EXCEPT ![r] = k] \/ conn' = [conn EXCEPT ![r] = RolledBack(k)]
    BY <1>4 DEF CloseFails
  <2>2. k.pending \in {conn[r].pending, {}} /\ RolledBack(k).pending = {}
    BY <1>1, PendingAfter, ConnectionValues DEF IInv
  <2>3. Lease!Ended(r)
    BY <1>2, <2>1, <2>2
  <2>4. Lease!Use(c)
    BY <1>1, <1>4, <2>3 DEF Lease!Use, CloseFails, clientVars, configVars
  <2>. QED
    BY <2>4 DEF Lease!Next
<1>5. CASE ~CloseFails(c)
  <2>1. DropWrapper(c) /\ UNCHANGED reconfiguring
    BY <1>5 DEF Close, CloseBad, CloseReal, CloseToIdle, configVars
  <2>2. UNCHANGED Work \/ (valid[c] /\ Lease!Ended(r))
    <3>1. CASE CloseBad(c)
      BY <1>1, <1>2, <3>1, WorkUnchanged, PendingAfter DEF CloseBad
    <3>2. CASE CloseReal(c)
      BY <1>2, <1>3, <3>2 DEF CloseReal
    <3>3. CASE CloseToIdle(c)
      <4>1. conn' = [conn EXCEPT ![r] = RolledBack(conn[r])] /\ valid[c]
        BY <3>3 DEF CloseToIdle
      <4>. QED
        BY <1>2, <1>3, <4>1
    <3>. QED
      BY <1>5, <3>1, <3>2, <3>3 DEF Close
  <2>3. Lease!Return(c)
    BY <1>1, <2>1, <2>2 DEF Lease!Return, DropWrapper, Invalidate, Work
  <2>. QED
    BY <2>3 DEF Lease!Next
<1>. QED
  BY <1>4, <1>5

\* A call through the wrapper, in force or not.
LEMMA LeaseAct ==
    ASSUME IInv, NEW c \in Client, Act(c)
    PROVE  [Lease!Next]_(Lease!vars)
<1>. DEFINE r == held[c]
<1>1. r \in Real /\ r # NoReal
  BY PoolAssumption DEF Act, IInv, ControlState, Types, Holding
<1>2. PICK n \in Results(c, conn[r]) : conn' = [conn EXCEPT ![r] = n]
  BY DEF Act
<1>3. n.pending \in {conn[r].pending, conn[r].pending \cup {c}, {}}
  <2>1. conn[r] \in Connection
    BY <1>1 DEF IInv, Types
  <2>. QED
    BY <2>1 DEF Results, RolledBack, Connection
<1>4. Work' = [Work EXCEPT ![r] = n.pending]
  BY <1>1, <1>2, WorkOfOne
<1>5. Lease!Use(c)
  BY <1>1, <1>3, <1>4 DEF Lease!Use, Lease!Ended, Act, Work, configVars
<1>. QED
  BY <1>5 DEF Lease!Next

LEMMA LeaseEnvironment ==
    ASSUME IInv, SetField \/ ForceCloseAll \/ CheckoutExpires \/ ServerDrops
    PROVE  [Lease!Next]_(Lease!vars)
<1>1. CASE SetField
  BY <1>1 DEF SetField, clientVars, Lease!Next, Lease!BeginChange
<1>2. CASE ForceCloseAll
  <2>1. /\ reconfiguring /\ reconfiguring' = FALSE
        /\ UNCHANGED <<held, overdue>>
    BY <1>2 DEF ForceCloseAll
  <2>2. \E revoked \in SUBSET Client : valid' = [c \in Client |-> valid[c] /\ c \notin revoked]
    BY <1>2, ListsOK DEF ForceCloseAll
  <2>3. \A r \in Real : conn'[r].pending \in {conn[r].pending, {}}
    <3>1. ASSUME NEW r \in Real
          PROVE  conn'[r] \in {conn[r], RolledBack(conn[r]), Closed}
      BY <1>2 DEF ForceCloseAll
    <3>2. \A r \in Real : RolledBack(conn[r]).pending = {} /\ Closed.pending = {}
      BY PendingAfter DEF IInv, Types
    <3>. QED
      BY <3>1, <3>2
  <2>4. \E ended \in SUBSET Real : Work' = [r \in Real |-> IF r \in ended THEN {} ELSE Work[r]]
    <3>. DEFINE ended == {r \in Real : conn'[r].pending = {}}
    <3>1. Work' = [r \in Real |-> IF r \in ended THEN {} ELSE Work[r]]
      BY <2>3 DEF Work
    <3>. QED
      BY <3>1
  <2>5. Lease!EndChange
    BY <2>1, <2>2, <2>4 DEF Lease!EndChange, Work
  <2>. QED
    BY <2>5 DEF Lease!Next
<1>3. CASE CheckoutExpires
  <2>1. PICK i \in DOMAIN active : overdue' = overdue \cup {active[i]}
    BY <1>3 DEF CheckoutExpires
  <2>2. active[i] \in Client /\ valid[active[i]]
    BY <2>1, ListsOK DEF IInv, ActiveIsHeld, Range
  <2>3. \E c \in Client : Lease!Expire(c)
    BY <1>3, <2>1, <2>2, WorkUnchanged DEF CheckoutExpires, Lease!Expire, Work, configVars
  <2>. QED
    BY <2>3 DEF Lease!Next
<1>4. CASE ServerDrops
  <2>1. PICK r \in Real : conn' = [conn EXCEPT ![r] = Closed]
    BY <1>4 DEF ServerDrops
  <2>2. Work' = [Work EXCEPT ![r] = {}]
    BY <2>1, WorkOfOne, PendingAfter
  <2>3. Lease!Lose
    BY <1>4, <2>2 DEF ServerDrops, Lease!Lose, Work, clientVars, configVars
  <2>. QED
    BY <2>3 DEF Lease!Next
<1>. QED
  BY <1>1, <1>2, <1>3, <1>4

\* The pool leases connections: whatever popConnection, pushConnection,
\* claimedOverdueConnect, forceCloseAll and calls through proxies do, a client
\* sees grants of connections that are nobody else's and hold no work, and
\* loses one only as ConnectionLease allows.
THEOREM LeaseImplemented == Spec => ImplementsLease
<1>1. Init => Lease!Init
  BY LeaseInit
<1>2. IInv /\ [Next]_vars => [Lease!Next]_(Lease!vars)
  <2>. SUFFICES ASSUME IInv, [Next]_vars
                PROVE  [Lease!Next]_(Lease!vars)
    OBVIOUS
  <2>1. CASE UNCHANGED vars
    BY <2>1, WorkUnchanged DEF vars, clientVars, configVars, Lease!vars, Work
  <2>2. ASSUME NEW c \in Client, ClientStep(c)
        PROVE  [Lease!Next]_(Lease!vars)
    <3>1. CASE Request(c) \/ Timeout(c) \/ Interrupt(c) \/ CheckConnection(c)
      BY <3>1, LeaseQuiet DEF Request, Timeout, Interrupt, CheckConnection, configVars
    <3>. QED
      BY <2>2, <3>1, LeasePop, LeaseJudge, LeaseClose, LeaseAct DEF ClientStep
  <2>. QED
    BY <2>1, <2>2, LeaseEnvironment DEF Next
<1>. QED
  BY <1>1, <1>2, Invariance, PTL DEF Spec, ImplementsLease, Lease!Spec
===============================================================================
