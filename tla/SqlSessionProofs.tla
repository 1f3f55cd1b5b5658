--------------------------- MODULE SqlSessionProofs ---------------------------
(***************************************************************************)
(* SqlSession implements UnitOfWork, for any sessions, keys and writes, if *)
(* configuring a new connection and rolling back do not fail. (Both do     *)
(* break the promise when they fail: Close then commits what it could not  *)
(* roll back, and a connection left half configured is in auto-commit.)    *)
(*                                                                         *)
(* The argument rests on three relations no single call maintains: work in *)
(* a transaction has marked its session dirty, a connection is in the mode *)
(* its session asked for, and every cached result holds all of the work    *)
(* still pending and nothing that was rolled back.                         *)
(***************************************************************************)
EXTENDS SqlSession, TLAPS

Reliable == "configure" \notin Faults /\ "rollback" \notin Faults

\* A session has a connection only while it is open, and in its own mode; work
\* is pending only on such a connection, and never in auto-commit.
ModeKept ==
    \A s \in Session :
        /\ connection[s] # "none" => state[s] = "open" /\ realAuto[s] = autoCommit[s]
        /\ pending[s] # {} => connection[s] # "none" /\ ~autoCommit[s]
        /\ state[s] # "open" => localCache[s] = EmptyCache

IInv == TypeOK /\ PendingIsDirty /\ CacheHonest /\ ModeKept

LEMMA InitIInv == Init => IInv
<1>. SUFFICES ASSUME Init
              PROVE  IInv
  OBVIOUS
<1>1. TypeOK
  BY DEF Init, TypeOK, EmptyCache, Reply, Op
<1>2. PendingIsDirty /\ CacheHonest /\ ModeKept
  BY DEF Init, PendingIsDirty, CacheHonest, ModeKept, EmptyCache
<1>. QED
  BY <1>1, <1>2 DEF IInv

\* What GetConnection can return, when configuring does not fail.
LEMMA Connections ==
    ASSUME Reliable, IInv, NEW s \in Session, state[s] = "open", NEW c \in GetConnection(s)
    PROVE  /\ c.link \in {"none", "live", "lost"} /\ c.auto \in BOOLEAN
           /\ c.ok => c.link # "none"
           /\ c.link # "none" => c.auto = autoCommit[s]
           /\ connection[s] # "none" => c.link = connection[s]
           /\ connection[s] = "none" => c.link # "lost"
<1>. USE DEF IInv, TypeOK, ModeKept
<1>1. CASE connection[s] # "none"
  <2>1. c = [link |-> connection[s], auto |-> realAuto[s], ok |-> TRUE]
    BY <1>1 DEF GetConnection
  <2>. QED
    BY <1>1, <2>1
<1>2. CASE connection[s] = "none"
  <2>1. \/ c = [link |-> "live", auto |-> autoCommit[s], ok |-> TRUE]
        \/ c \in [link : {"none"}, auto : {FALSE}, ok : {FALSE}]
    BY <1>2 DEF GetConnection, Reliable
  <2>2. \/ c.link = "live" /\ c.auto = autoCommit[s] /\ c.ok = TRUE
        \/ c.link = "none" /\ c.auto = FALSE /\ c.ok = FALSE
    <3>1. CASE c = [link |-> "live", auto |-> autoCommit[s], ok |-> TRUE]
      BY <3>1
    <3>2. CASE c \in [link : {"none"}, auto : {FALSE}, ok : {FALSE}]
      BY <3>2
    <3>. QED
      BY <2>1, <3>1, <3>2
  <2>. QED
    BY <1>2, <2>2
<1>. QED
  BY <1>1, <1>2

LEMMA AnswerOK ==
    ASSUME NEW s \in Session, NEW op \in Op, NEW ok \in BOOLEAN, Answer(s, op, ok)
    PROVE  reply' \in Reply
  BY DEF Answer, Reply

LEMMA OpenStep ==
    ASSUME IInv, NEW s \in Session, Open(s)
    PROVE  IInv'
<1>. USE DEF IInv, Open, ClearLocalCache
<1>1. TypeOK'
  BY DEF TypeOK, Answer, Reply, Op, EmptyCache
<1>2. PendingIsDirty'
  BY DEF TypeOK, PendingIsDirty, ModeKept
<1>3. CacheHonest'
  BY DEF TypeOK, CacheHonest, Visible, EmptyCache
<1>4. ModeKept'
  BY DEF TypeOK, ModeKept, EmptyCache
<1>. QED
  BY <1>1, <1>2, <1>3, <1>4

LEMMA SelectStep ==
    ASSUME Reliable, IInv, NEW s \in Session, NEW k \in Key, Select(s, k)
    PROVE  IInv'
<1>. USE DEF IInv
<1>1. CASE SelectCached(s, k)
  <2>1. TypeOK'
    BY <1>1 DEF SelectCached, TypeOK, Reply, Op
  <2>. QED
    BY <1>1, <2>1 DEF SelectCached, PendingIsDirty, CacheHonest, Visible, ModeKept
<1>2. CASE SelectFromDatabase(s, k)
  <2>1. PICK c \in GetConnection(s) : c.ok /\ c.link = "live" /\ Connect(s, c)
    BY <1>2 DEF SelectFromDatabase
  <2>2. state[s] = "open" /\ c.auto = autoCommit[s] /\ c.auto \in BOOLEAN
    BY <1>2, <2>1, Connections DEF SelectFromDatabase
  <2>3. Visible(s) \in SUBSET Write
    BY DEF TypeOK, Visible
  <2>4. TypeOK'
    BY <1>2, <2>1, <2>2, <2>3 DEF SelectFromDatabase, Connect, TypeOK, Reply, Op
  <2>5. CacheHonest'
    BY <1>2, <2>3 DEF SelectFromDatabase, CacheHonest, Visible, TypeOK
  <2>6. ModeKept'
    BY <1>2, <2>1, <2>2 DEF SelectFromDatabase, Connect, ModeKept, TypeOK
  <2>. QED
    BY <1>2, <2>4, <2>5, <2>6 DEF SelectFromDatabase, PendingIsDirty
<1>3. CASE SelectFails(s, k)
  <2>1. TypeOK' /\ ModeKept'
    <3>1. CASE UNCHANGED <<connection, realAuto>>
      BY <1>3, <3>1 DEF SelectFails, Answer, TypeOK, Reply, Op, ModeKept
    <3>2. CASE state[s] = "open" /\ \E c \in GetConnection(s) : StatementFails(c) /\ Connect(s, c)
      <4>1. PICK c \in GetConnection(s) : Connect(s, c)
        BY <3>2
      <4>2. TypeOK'
        BY <1>3, <3>2, <4>1, Connections DEF SelectFails, Answer, TypeOK, Reply, Op, Connect
      <4>3. ModeKept'
        BY <1>3, <3>2, <4>1, Connections DEF SelectFails, TypeOK, ModeKept, Connect
      <4>. QED
        BY <4>2, <4>3
    <3>. QED
      BY <1>3, <3>1, <3>2 DEF SelectFails
  <2>. QED
    BY <1>3, <2>1 DEF SelectFails, PendingIsDirty, CacheHonest, Visible
<1>. QED
  BY <1>1, <1>2, <1>3 DEF Select

\* A write reaches the transaction or the database, the cache is empty, the
\* session dirty: what Update and the late failure of UpdateFails share.
LEMMA ExecuteStep ==
    ASSUME Reliable, IInv, NEW s \in Session, NEW c \in GetConnection(s), NEW w \in Unwritten,
           state[s] = "open", c.link = "live", Connect(s, c), Execute(s, c, w),
           dirty' = [dirty EXCEPT ![s] = TRUE], ClearLocalCache(s),
           reply' \in Reply, UNCHANGED <<state, autoCommit>>
    PROVE  IInv'
<1>. USE DEF IInv, ClearLocalCache
<1>1. c.auto = autoCommit[s] /\ c.auto \in BOOLEAN /\ w \in Write
  BY Connections DEF Unwritten
<1>2. TypeOK'
  BY <1>1 DEF TypeOK, Connect, Execute, EmptyCache
<1>3. PendingIsDirty'
  BY <1>1 DEF TypeOK, Execute, PendingIsDirty
<1>4. CacheHonest'
  BY <1>1 DEF TypeOK, Execute, CacheHonest, Visible, EmptyCache
<1>5. ModeKept'
  BY <1>1 DEF TypeOK, Connect, Execute, ModeKept, EmptyCache
<1>. QED
  BY <1>2, <1>3, <1>4, <1>5

LEMMA UpdateStep ==
    ASSUME Reliable, IInv, NEW s \in Session, Update(s) \/ UpdateFails(s)
    PROVE  IInv'
<1>1. reply' \in Reply
  BY AnswerOK DEF Update, UpdateFails, Op
<1>2. CASE Update(s)
  BY <1>1, <1>2, ExecuteStep DEF Update
<1>3. CASE UpdateFails(s)
  <2>1. CASE UNCHANGED <<localCache, connection, realAuto, pending, db>>
    BY <1>1, <1>3, <2>1 DEF UpdateFails, IInv, TypeOK, PendingIsDirty, CacheHonest, Visible, ModeKept
  <2>2. ASSUME state[s] = "open", ClearLocalCache(s),
               NEW c \in GetConnection(s), Connect(s, c), UNCHANGED <<pending, db>>
        PROVE  IInv'
    <3>. USE DEF IInv, UpdateFails, ClearLocalCache
    <3>1. TypeOK'
      BY <1>1, <1>3, <2>2, Connections DEF TypeOK, Connect, EmptyCache
    <3>2. PendingIsDirty' /\ CacheHonest'
      BY <1>3, <2>2 DEF TypeOK, PendingIsDirty, CacheHonest, Visible, EmptyCache
    <3>3. ModeKept'
      <4>1. /\ c.link # "none" => c.auto = autoCommit[s]
            /\ connection[s] # "none" => c.link # "none"
        BY <2>2, Connections
      <4>. QED
        BY <1>3, <2>2, <4>1 DEF TypeOK, Connect, ModeKept, EmptyCache
    <3>. QED
      BY <3>1, <3>2, <3>3
  <2>. QED
    BY <1>1, <1>3, <2>1, <2>2, ExecuteStep DEF UpdateFails
<1>. QED
  BY <1>2, <1>3

LEMMA CommitStep ==
    ASSUME IInv, NEW s \in Session, Commit(s) \/ CommitFails(s)
    PROVE  IInv'
<1>. USE DEF IInv, ClearLocalCache
<1>1. reply' \in Reply
  BY AnswerOK DEF Commit, CommitFails, Op
<1>2. CASE Commit(s)
  <2>1. TypeOK'
    BY <1>1, <1>2 DEF Commit, TypeOK, EmptyCache
  <2>2. PendingIsDirty'
    BY <1>2 DEF Commit, TypeOK, PendingIsDirty, ModeKept, Required, InTransaction
  <2>3. CacheHonest'
    BY <1>2 DEF Commit, TypeOK, CacheHonest, Visible, EmptyCache
  <2>4. ModeKept'
    BY <1>2 DEF Commit, TypeOK, ModeKept, EmptyCache
  <2>. QED
    BY <2>1, <2>2, <2>3, <2>4
<1>3. CASE CommitFails(s)
  <2>1. TypeOK'
    <3>1. /\ UNCHANGED <<state, autoCommit, dirty, realAuto, pending>>
          /\ UNCHANGED localCache \/ ClearLocalCache(s)
          /\ UNCHANGED connection \/ connection' = [connection EXCEPT ![s] = "lost"]
          /\ connection' # connection => connection[s] = "live"
      BY <1>3 DEF CommitFails
    <3>2. db' \in SUBSET Write
      BY <1>3 DEF CommitFails, TypeOK
    <3>3. /\ UNCHANGED <<state, autoCommit, dirty, realAuto, pending>>
          /\ reply' \in Reply /\ db' \in SUBSET Write /\ TypeOK
      BY <1>1, <3>1, <3>2
    <3>4. localCache' \in [Session -> [Key -> SUBSET (SUBSET Write)]]
      BY <3>1 DEF TypeOK, EmptyCache
    <3>5. connection' \in [Session -> {"none", "live", "lost"}]
      BY <3>1 DEF TypeOK
    <3>6. \A t \in Session : connection'[t] = "none" <=> connection[t] = "none"
      <4>1. CASE connection' = connection
        BY <4>1
      <4>2. CASE connection' = [connection EXCEPT ![s] = "lost"]
        BY <3>1, <4>2 DEF TypeOK
      <4>. QED
        BY <3>1, <4>1, <4>2
    <3>. QED
      <4>1. \A t \in Session : /\ state'[t] # "open" => connection'[t] = "none"
                               /\ connection'[t] = "none" => pending'[t] = {}
        BY <3>3, <3>6 DEF TypeOK
      <4>. QED
        BY <3>3, <3>4, <3>5, <4>1 DEF TypeOK
  <2>2. PendingIsDirty'
    BY <1>3 DEF CommitFails, PendingIsDirty
  <2>3. CacheHonest'
    <3>1. UNCHANGED pending /\ db \subseteq db' /\ (UNCHANGED localCache \/ ClearLocalCache(s))
      BY <1>3 DEF CommitFails
    <3>2. CASE UNCHANGED localCache
      BY <3>1, <3>2 DEF CacheHonest, Visible
    <3>3. CASE ClearLocalCache(s)
      BY <3>1, <3>3 DEF TypeOK, CacheHonest, Visible, EmptyCache
    <3>. QED
      BY <3>1, <3>2, <3>3
  <2>4. ModeKept'
    BY <1>3 DEF CommitFails, TypeOK, ModeKept, EmptyCache
  <2>. QED
    BY <2>1, <2>2, <2>3, <2>4
<1>. QED
  BY <1>2, <1>3

LEMMA RollbackStep ==
    ASSUME IInv, NEW s \in Session, Rollback(s) \/ RollbackFails(s)
    PROVE  IInv'
<1>. USE DEF IInv, ClearLocalCache
<1>1. reply' \in Reply
  BY AnswerOK DEF Rollback, RollbackFails, Op
<1>2. CASE Rollback(s)
  <2>1. TypeOK'
    <3>1. /\ UNCHANGED <<state, autoCommit, connection, realAuto, db>>
          /\ dirty' = [dirty EXCEPT ![s] = FALSE]
          /\ UNCHANGED localCache \/ ClearLocalCache(s)
          /\ UNCHANGED pending \/ pending' = [pending EXCEPT ![s] = {}]
      BY <1>2 DEF Rollback
    <3>2. dirty' \in [Session -> BOOLEAN]
      BY <3>1 DEF TypeOK
    <3>3. localCache' \in [Session -> [Key -> SUBSET (SUBSET Write)]]
      BY <3>1 DEF TypeOK, EmptyCache
    <3>4. /\ pending' \in [Session -> SUBSET Write]
          /\ \A t \in Session : pending'[t] = pending[t] \/ pending'[t] = {}
      <4>1. CASE UNCHANGED pending
        BY <4>1 DEF TypeOK
      <4>2. CASE pending' = [pending EXCEPT ![s] = {}]
        BY <4>2 DEF TypeOK
      <4>. QED
        BY <3>1, <4>1, <4>2
    <3>5. \A t \in Session : /\ state'[t] # "open" => connection'[t] = "none"
                             /\ connection'[t] = "none" => pending'[t] = {}
      BY <3>1, <3>4 DEF TypeOK
    <3>. QED
      BY <1>1, <3>1, <3>2, <3>3, <3>4, <3>5 DEF TypeOK
  <2>2. PendingIsDirty'
    BY <1>2 DEF Rollback, TypeOK, PendingIsDirty, ModeKept, Required, InTransaction
  <2>3. CacheHonest'
    <3>1. CASE state[s] = "closed" /\ UNCHANGED <<localCache, pending>>
      BY <1>2, <3>1 DEF Rollback, CacheHonest, Visible
    <3>2. CASE ClearLocalCache(s)
      <4>1. UNCHANGED db /\ \A t \in Session \ {s} : pending'[t] = pending[t]
        BY <1>2 DEF Rollback, TypeOK
      <4>. QED
        BY <3>2, <4>1 DEF TypeOK, CacheHonest, Visible, EmptyCache
    <3>. QED
      BY <1>2, <3>1, <3>2 DEF Rollback
  <2>4. ModeKept'
    BY <1>2 DEF Rollback, TypeOK, ModeKept, EmptyCache
  <2>. QED
    BY <2>1, <2>2, <2>3, <2>4
<1>3. CASE RollbackFails(s)
  <2>1. TypeOK'
    BY <1>1, <1>3 DEF RollbackFails, TypeOK, EmptyCache
  <2>2. PendingIsDirty'
    BY <1>3 DEF RollbackFails, PendingIsDirty
  <2>3. CacheHonest'
    BY <1>3 DEF RollbackFails, TypeOK, CacheHonest, Visible, EmptyCache
  <2>4. ModeKept'
    BY <1>3 DEF RollbackFails, TypeOK, ModeKept, EmptyCache
  <2>. QED
    BY <2>1, <2>2, <2>3, <2>4
<1>. QED
  BY <1>2, <1>3

\* Nothing is left to commit when close resets auto-commit.
LEMMA CloseLeavesDatabase ==
    ASSUME Reliable, IInv, NEW s \in Session, Close(s)
    PROVE  UNCHANGED db
<1>1. ASSUME NEW left \in LeftAtClose(s)
      PROVE  left = {}
  <2>1. CASE Required(s, FALSE)
    BY <1>1, <2>1 DEF LeftAtClose, Reliable
  <2>2. CASE ~Required(s, FALSE)
    <3>1. pending[s] = {}
      BY <2>2 DEF Required, IInv, TypeOK, PendingIsDirty, ModeKept
    <3>. QED
      BY <1>1, <2>2, <3>1 DEF LeftAtClose
  <2>. QED
    BY <2>1, <2>2
<1>. QED
  BY <1>1 DEF Close

LEMMA CloseStep ==
    ASSUME Reliable, IInv, NEW s \in Session, Close(s)
    PROVE  IInv'
<1>. USE DEF IInv, Close, ClearLocalCache
<1>1. UNCHANGED db
  BY CloseLeavesDatabase
<1>2. reply' \in Reply
  BY AnswerOK DEF Op
<1>3. TypeOK'
  BY <1>1, <1>2 DEF TypeOK, EmptyCache
<1>4. PendingIsDirty'
  BY DEF TypeOK, PendingIsDirty
<1>5. CacheHonest'
  BY <1>1 DEF TypeOK, CacheHonest, Visible, EmptyCache
<1>6. ModeKept'
  BY DEF TypeOK, ModeKept, EmptyCache
<1>. QED
  BY <1>3, <1>4, <1>5, <1>6

LEMMA DropStep ==
    ASSUME IInv, NEW s \in Session, Drop(s)
    PROVE  IInv'
<1>. USE DEF IInv, Drop
<1>1. TypeOK'
  BY DEF TypeOK
<1>2. PendingIsDirty' /\ CacheHonest'
  BY DEF PendingIsDirty, CacheHonest, Visible
<1>3. ModeKept'
  BY DEF TypeOK, ModeKept
<1>. QED
  BY <1>1, <1>2, <1>3

LEMMA NextIInv ==
    ASSUME Reliable, IInv, [Next]_vars
    PROVE  IInv'
<1>1. CASE UNCHANGED vars
  BY <1>1 DEF vars, IInv, TypeOK, PendingIsDirty, CacheHonest, Visible, ModeKept
<1>2. CASE Next
  BY <1>2, OpenStep, SelectStep, UpdateStep, CommitStep, RollbackStep, CloseStep, DropStep
     DEF Next, Call
<1>. QED
  BY <1>1, <1>2

-------------------------------------------------------------------------------
(* The theorems. *)

\* The inductive invariant holds of every reachable state.
THEOREM Invariance ==
    ASSUME Reliable
    PROVE  Spec => []IInv
<1>1. Init => IInv
  BY InitIInv
<1>2. IInv /\ [Next]_vars => IInv'
  BY NextIInv
<1>. QED
  BY <1>1, <1>2, PTL DEF Spec

\* The session's variables keep their types, a session that is not open holds
\* no connection, and there is no work without a connection.
THEOREM SessionTypes ==
    ASSUME Reliable
    PROVE  Spec => []TypeOK
<1>1. IInv => TypeOK
  BY DEF IInv
<1>. QED
  BY <1>1, Invariance, PTL

\* Work in a transaction has always marked its session dirty.
THEOREM DirtyMarks ==
    ASSUME Reliable
    PROVE  Spec => []PendingIsDirty
<1>1. IInv => PendingIsDirty
  BY DEF IInv
<1>. QED
  BY <1>1, Invariance, PTL

\* The local cache never serves a result older than the session's own last
\* write, nor one with work that was rolled back.
THEOREM CacheIsHonest ==
    ASSUME Reliable
    PROVE  Spec => []CacheHonest
<1>1. IInv => CacheHonest
  BY DEF IInv
<1>. QED
  BY <1>1, Invariance, PTL

-------------------------------------------------------------------------------
(* Implementation of UnitOfWork. Every call maps to the action of its name, *)
(* a failed one to Fail or CommitBreaks.                                     *)

Lost == {s \in Session : connection[s] = "lost"}
Mode == [s \in Session |->
            IF state[s] # "open" THEN "none" ELSE IF autoCommit[s] THEN "auto" ELSE "manual"]

LEMMA InitRefines == Init => Contract!Init
  BY DEF Init, Contract!Init

LEMMA OpenRefines ==
    ASSUME IInv, NEW s \in Session, Open(s)
    PROVE  Contract!Open(s)
<1>1. PICK a \in BOOLEAN : autoCommit' = [autoCommit EXCEPT ![s] = a]
  BY DEF Open
<1>2. Mode' = [Mode EXCEPT ![s] = IF a THEN "auto" ELSE "manual"]
  BY <1>1 DEF Open, Mode, IInv, TypeOK
<1>3. Mode[s] = "none" /\ Lost' = Lost
  BY DEF Open, Mode, Lost
<1>. QED
  BY <1>2, <1>3 DEF Open, Answer, Contract!Open, Contract!Answer, Mode, Lost

\* A write that reaches a live connection is executed for the unit of work.
LEMMA ExecuteRefines ==
    ASSUME Reliable, IInv, NEW s \in Session, state[s] = "open", NEW c \in GetConnection(s),
           c.link = "live", NEW w \in Write, Execute(s, c, w)
    PROVE  Contract!Executed(s, w) /\ s \notin Lost
<1>1. c.auto = autoCommit[s] /\ connection[s] # "lost"
  BY Connections
<1>. QED
  BY <1>1 DEF Execute, Contract!Executed, Lost, IInv, TypeOK

\* Obtaining a connection is invisible to the unit of work.
LEMMA ConnectRefines ==
    ASSUME Reliable, IInv, NEW s \in Session, state[s] = "open",
           NEW c \in GetConnection(s), Connect(s, c)
    PROVE  UNCHANGED Lost
<1>1. c.link = "lost" <=> connection[s] = "lost"
  BY Connections
<1>. QED
  BY <1>1 DEF Connect, Lost, IInv, TypeOK

LEMMA UpdateRefines ==
    ASSUME Reliable, IInv, NEW s \in Session, Update(s)
    PROVE  Contract!Update(s)
<1>1. PICK c \in GetConnection(s), w \in Unwritten :
          c.link = "live" /\ Connect(s, c) /\ Execute(s, c, w)
  BY DEF Update
<1>2. w \in Write
  BY DEF Unwritten
<1>3. Contract!Executed(s, w) /\ s \notin Lost /\ UNCHANGED <<Lost, Mode>>
  BY <1>1, <1>2, ExecuteRefines, ConnectRefines DEF Update, Mode
<1>. QED
  BY <1>2, <1>3 DEF Update, Answer, Contract!Update, Contract!Answer, Lost, Mode

LEMMA UpdateFailsRefines ==
    ASSUME Reliable, IInv, NEW s \in Session, UpdateFails(s)
    PROVE  Contract!Fail(s)
<1>. DEFINE Effect == /\ UNCHANGED Lost
                       /\ \/ UNCHANGED <<db, pending>>
                          \/ s \notin Lost /\ \E w \in Write : Contract!Executed(s, w)
<1>1. Effect
  <2>1. CASE UNCHANGED <<localCache, connection, realAuto, pending, db>>
    BY <2>1 DEF Lost
  <2>2. CASE ~UNCHANGED <<localCache, connection, realAuto, pending, db>>
    <3>1. state[s] = "open"
      BY <2>2 DEF UpdateFails
    <3>2. PICK c \in GetConnection(s) :
              /\ Connect(s, c)
              /\ \/ UNCHANGED <<pending, db>>
                 \/ c.link = "live" /\ \E w \in Unwritten : Execute(s, c, w)
      BY <2>2 DEF UpdateFails
    <3>3. UNCHANGED Lost
      BY <3>1, <3>2, ConnectRefines
    <3>4. CASE UNCHANGED <<pending, db>>
      BY <3>3, <3>4
    <3>5. CASE c.link = "live" /\ \E w \in Unwritten : Execute(s, c, w)
      BY <3>1, <3>3, <3>5, ExecuteRefines DEF Unwritten
    <3>. QED
      BY <3>2, <3>4, <3>5
  <2>. QED
    BY <2>1, <2>2
<1>2. UNCHANGED Mode
  BY DEF UpdateFails, Mode
<1>. QED
  BY <1>1, <1>2 DEF UpdateFails, Answer, Contract!Fail, Contract!Answer, Contract!Op, Lost, Mode

LEMMA SelectRefines ==
    ASSUME Reliable, IInv, NEW s \in Session, NEW k \in Key, Select(s, k)
    PROVE  Contract!Select(s) \/ Contract!Fail(s)
<1>1. CASE SelectCached(s, k)
  <2>1. PICK seen \in localCache[s][k] :
          reply' = [session |-> s, op |-> "select", ok |-> TRUE, seen |-> seen]
    BY <1>1 DEF SelectCached
  <2>2. pending[s] \subseteq seen /\ seen \in SUBSET (db \cup pending[s])
    BY <2>1 DEF IInv, CacheHonest, Visible
  <2>3. Mode[s] # "none" /\ UNCHANGED <<Lost, Mode>>
    BY <1>1 DEF SelectCached, Mode, Lost
  <2>. QED
    BY <1>1, <2>1, <2>2, <2>3 DEF SelectCached, Contract!Select, Mode, Lost
<1>2. CASE SelectFromDatabase(s, k)
  <2>1. PICK c \in GetConnection(s) : Connect(s, c)
    BY <1>2 DEF SelectFromDatabase
  <2>2. UNCHANGED Lost
    BY <1>2, <2>1, ConnectRefines DEF SelectFromDatabase
  <2>3. Mode[s] # "none" /\ UNCHANGED Mode
    BY <1>2 DEF SelectFromDatabase, Mode
  <2>. QED
    BY <1>2, <2>2, <2>3 DEF SelectFromDatabase, Visible, Contract!Select, Mode, Lost
<1>3. CASE SelectFails(s, k)
  <2>1. UNCHANGED Lost
    BY <1>3, ConnectRefines DEF SelectFails, Lost
  <2>2. UNCHANGED Mode
    BY <1>3 DEF SelectFails, Mode
  <2>. QED
    BY <1>3, <2>1, <2>2 DEF SelectFails, Answer, Contract!Fail, Contract!Answer, Contract!Op, Lost, Mode
<1>. QED
  BY <1>1, <1>2, <1>3 DEF Select

LEMMA CommitRefines ==
    ASSUME IInv, NEW s \in Session, Commit(s)
    PROVE  Contract!Commit(s)
<1>1. UNCHANGED <<Lost, Mode>>
  BY DEF Commit, Lost, Mode
<1>2. CASE UNCHANGED <<pending, db>>
  <2>1. pending[s] = {}
    BY <1>2 DEF Commit, Required, InTransaction, IInv, TypeOK, PendingIsDirty, ModeKept
  <2>. QED
    BY <1>1, <1>2, <2>1 DEF Commit, Answer, Contract!Commit, Contract!Endable, Contract!Answer,
                            Lost, Mode, IInv, TypeOK
<1>3. CASE /\ connection[s] = "live"
           /\ db' = db \cup pending[s]
           /\ pending' = [pending EXCEPT ![s] = {}]
  BY <1>1, <1>3 DEF Commit, Answer, Contract!Commit, Contract!Endable, Contract!Answer, Lost, Mode
<1>. QED
  BY <1>2, <1>3 DEF Commit

LEMMA CommitFailsRefines ==
    ASSUME IInv, NEW s \in Session, CommitFails(s)
    PROVE  Contract!Fail(s) \/ Contract!CommitBreaks(s)
<1>1. UNCHANGED <<Mode, pending>>
  BY DEF CommitFails, Mode
<1>2. CASE UNCHANGED <<connection, db>>
  <2>1. UNCHANGED Lost
    BY <1>2 DEF Lost
  <2>. QED
    BY <1>1, <1>2, <2>1 DEF CommitFails, Answer, Contract!Fail, Contract!Answer, Contract!Op, Lost, Mode
<1>3. CASE /\ connection[s] = "live"
           /\ connection' = [connection EXCEPT ![s] = "lost"]
           /\ db' \in {db, db \cup pending[s]}
  <2>1. s \notin Lost /\ Lost' = Lost \cup {s}
    BY <1>3 DEF Lost, IInv, TypeOK
  <2>. QED
    BY <1>1, <1>3, <2>1 DEF CommitFails, Answer, Contract!CommitBreaks, Contract!Answer, Lost, Mode
<1>. QED
  BY <1>2, <1>3 DEF CommitFails

LEMMA RollbackRefines ==
    ASSUME IInv, NEW s \in Session, Rollback(s)
    PROVE  Contract!Rollback(s)
<1>1. UNCHANGED <<Lost, Mode, db>>
  BY DEF Rollback, Lost, Mode
<1>2. CASE UNCHANGED pending
  <2>1. pending[s] = {}
    BY <1>2 DEF Rollback, Required, InTransaction, IInv, TypeOK, PendingIsDirty, ModeKept
  <2>. QED
    BY <1>1, <1>2, <2>1 DEF Rollback, Answer, Contract!Rollback, Contract!Endable, Contract!Answer,
                            Lost, Mode, IInv, TypeOK
<1>3. CASE connection[s] = "live" /\ pending' = [pending EXCEPT ![s] = {}]
  BY <1>1, <1>3 DEF Rollback, Answer, Contract!Rollback, Contract!Endable, Contract!Answer, Lost, Mode
<1>. QED
  BY <1>2, <1>3 DEF Rollback

LEMMA RollbackFailsRefines ==
    ASSUME NEW s \in Session, RollbackFails(s)
    PROVE  Contract!Fail(s)
<1>1. UNCHANGED <<Lost, Mode>>
  BY DEF RollbackFails, Lost, Mode
<1>. QED
  BY <1>1 DEF RollbackFails, Answer, Contract!Fail, Contract!Answer, Contract!Op, Lost, Mode

LEMMA CloseRefines ==
    ASSUME Reliable, IInv, NEW s \in Session, Close(s)
    PROVE  Contract!Close(s)
<1>1. UNCHANGED db
  BY CloseLeavesDatabase
<1>2. Lost' = Lost \ {s}
  BY DEF Close, Lost, IInv, TypeOK
<1>3. Mode' = [Mode EXCEPT ![s] = "none"]
  BY DEF Close, Mode, IInv, TypeOK
<1>. QED
  BY <1>1, <1>2, <1>3 DEF Close, Answer, Contract!Close, Contract!Answer, Lost, Mode

LEMMA DropRefines ==
    ASSUME IInv, NEW s \in Session, Drop(s)
    PROVE  Contract!Lose(s)
<1>1. Lost' = Lost \cup {s}
  BY DEF Drop, Lost, IInv, TypeOK
<1>2. UNCHANGED Mode
  BY DEF Drop, Mode
<1>. QED
  BY <1>1, <1>2 DEF Drop, Contract!Lose, Lost, Mode

\* A SqlSession keeps what UnitOfWork promises: a commit or rollback that
\* returns has done what it says to every write of the session, nothing else
\* makes a write durable, and every answer to a query is a consistent one.
THEOREM Implementation ==
    ASSUME Reliable
    PROVE  Spec => ImplementsUnitOfWork
<1>1. Init => Contract!Init
  BY InitRefines
<1>2. IInv /\ [Next]_vars => [Contract!Next]_Contract!vars
  <2>1. CASE UNCHANGED vars
    BY <2>1 DEF vars, Contract!vars
  <2>2. ASSUME IInv, NEW s \in Session, Call(s) \/ Drop(s)
        PROVE  Contract!Next
    BY <2>2, OpenRefines, SelectRefines, UpdateRefines, UpdateFailsRefines, CommitRefines,
       CommitFailsRefines, RollbackRefines, RollbackFailsRefines, CloseRefines, DropRefines
       DEF Call, Contract!Next
  <2>. QED
    BY <2>1, <2>2 DEF Next
<1>. QED
  BY <1>1, <1>2, Invariance, PTL DEF Spec, Contract!Spec, ImplementsUnitOfWork
===============================================================================
