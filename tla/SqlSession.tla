------------------------------ MODULE SqlSession ------------------------------
(***************************************************************************)
(* DefaultSqlSession with its SimpleExecutor (a BaseExecutor) and the      *)
(* JdbcTransaction underneath: the dirty flag, the local cache, the        *)
(* connection opened on first use, and every JDBC call that can fail.      *)
(*                                                                         *)
(* A session belongs to one thread; sessions share the database only, so a *)
(* call is one action. What the database holds is the set of the writes    *)
(* that are durable; a query reads all of it, and what the session itself  *)
(* has pending.                                                            *)
(***************************************************************************)
CONSTANTS
    Session,
    Key,        \* cache keys: the queries with their parameters and bounds
    Write,      \* the writes that can be executed, each told from the others
    Faults      \* the JDBC calls that may fail

\* connect: the data source gives no connection; configure: setting isolation
\* level or auto-commit of a new one throws; statement: preparing, executing
\* or reading the result of a statement throws; commit, rollback: so does that
\* call; reset: setting auto-commit back throws; drop: the connection is lost
\* (dropped by the server, or claimed by the pool as overdue).
FaultKinds == {"connect", "configure", "statement", "commit", "rollback", "reset", "drop"}

ASSUME FaultsAssumption == Faults \subseteq FaultKinds

VARIABLES
    state,      \* per session: "none", "open", or "closed" (Executor.closed)
    autoCommit, \* DefaultSqlSession.autoCommit and JdbcTransaction.autoCommit
    dirty,      \* DefaultSqlSession.dirty
    localCache, \* BaseExecutor.localCache: per key, no result or one
    connection, \* JdbcTransaction.connection: "none", "live", or "lost"
    realAuto,   \* auto-commit mode of that connection
    pending,    \* writes of the transaction open on it, or lost with it
    db,         \* the durable writes
    reply       \* the last call and its outcome

vars == <<state, autoCommit, dirty, localCache, connection, realAuto, pending, db, reply>>

Op == {"open", "select", "update", "commit", "rollback", "close"}
Reply == [session : Session, op : Op, ok : BOOLEAN, seen : SUBSET Write]

\* The types of the variables; besides, a session that is not open holds no
\* connection, and there is no work without a connection.
TypeOK ==
    /\ state \in [Session -> {"none", "open", "closed"}]
    /\ autoCommit \in [Session -> BOOLEAN]
    /\ dirty \in [Session -> BOOLEAN]
    /\ localCache \in [Session -> [Key -> SUBSET (SUBSET Write)]]
    /\ connection \in [Session -> {"none", "live", "lost"}]
    /\ realAuto \in [Session -> BOOLEAN]
    /\ pending \in [Session -> SUBSET Write]
    /\ db \in SUBSET Write
    /\ reply \in Reply
    /\ \A s \in Session :
        /\ state[s] # "open" => connection[s] = "none"
        /\ connection[s] = "none" => pending[s] = {}

Answer(s, op, ok) == reply' = [session |-> s, op |-> op, ok |-> ok, seen |-> {}]

EmptyCache == [k \in Key |-> {}]

Init ==
    /\ state = [s \in Session |-> "none"]
    /\ autoCommit = [s \in Session |-> FALSE]
    /\ dirty = [s \in Session |-> FALSE]
    /\ localCache = [s \in Session |-> EmptyCache]
    /\ connection = [s \in Session |-> "none"]
    /\ realAuto = [s \in Session |-> FALSE]
    /\ pending = [s \in Session |-> {}]
    /\ db = {}
    /\ reply \in [session : Session, op : {"close"}, ok : {TRUE}, seen : {{}}]

-------------------------------------------------------------------------------
(* The pieces calls are made of. *)

\* Mutant: the dirty flag is forgotten.
RequiredByForce(s, force) == force

\* isCommitOrRollbackRequired
Required(s, force) == (~autoCommit[s] /\ dirty[s]) \/ force

\* Mutant: the cache outlives the work it was read in.
ClearNothing(s) == UNCHANGED localCache

ClearLocalCache(s) == localCache' = [localCache EXCEPT ![s] = EmptyCache]

Visible(s) == db \cup pending[s]

\* JdbcTransaction.getConnection. The field is assigned before the isolation
\* level and the auto-commit mode are set, so a failure there leaves a
\* connection behind in whatever mode it came.
GetConnection(s) ==
    IF connection[s] # "none"
    THEN {[link |-> connection[s], auto |-> realAuto[s], ok |-> TRUE]}
    ELSE {[link |-> "live", auto |-> autoCommit[s], ok |-> TRUE]}
         \cup {k \in [link : {"none"}, auto : {FALSE}, ok : {FALSE}] : "connect" \in Faults}
         \cup {k \in [link : {"live"}, auto : BOOLEAN, ok : {FALSE}] : "configure" \in Faults}

Connect(s, k) ==
    /\ connection' = [connection EXCEPT ![s] = k.link]
    /\ realAuto' = [realAuto EXCEPT ![s] = k.auto]

StatementFails(k) == ~k.ok \/ k.link = "lost" \/ "statement" \in Faults

\* What the database does with an executed write.
Execute(s, k, w) ==
    \/ k.auto /\ db' = db \cup {w} /\ UNCHANGED pending
    \/ ~k.auto /\ pending' = [pending EXCEPT ![s] = @ \cup {w}] /\ UNCHANGED db

-------------------------------------------------------------------------------
(* The calls. *)

\* openSession of the factory
Open(s) ==
    /\ state[s] # "open"
    /\ \E a \in BOOLEAN : autoCommit' = [autoCommit EXCEPT ![s] = a]
    /\ state' = [state EXCEPT ![s] = "open"]
    /\ dirty' = [dirty EXCEPT ![s] = FALSE]
    /\ ClearLocalCache(s)
    /\ Answer(s, "open", TRUE)
    /\ UNCHANGED <<connection, realAuto, pending, db>>

\* query answers from the local cache, without a look at the connection ...
SelectCached(s, k) ==
    /\ state[s] = "open"
    /\ \E seen \in localCache[s][k] :
         reply' = [session |-> s, op |-> "select", ok |-> TRUE, seen |-> seen]
    /\ UNCHANGED <<state, autoCommit, dirty, localCache, connection, realAuto, pending, db>>

\* ... or from the database, and keeps the answer.
SelectFromDatabase(s, k) ==
    /\ state[s] = "open"
    /\ localCache[s][k] = {}
    /\ \E c \in GetConnection(s) :
        /\ c.ok /\ c.link = "live"
        /\ Connect(s, c)
    /\ localCache' = [localCache EXCEPT ![s][k] = {Visible(s)}]
    /\ reply' = [session |-> s, op |-> "select", ok |-> TRUE, seen |-> Visible(s)]
    /\ UNCHANGED <<state, autoCommit, dirty, pending, db>>

\* query throws: the executor is closed, the statement unknown or its
\* parameters bad; or the statement could not be executed.
SelectFails(s, k) ==
    /\ \/ state[s] # "none" /\ UNCHANGED <<connection, realAuto>>
       \/ /\ state[s] = "open"
          /\ localCache[s][k] = {}
          /\ \E c \in GetConnection(s) : StatementFails(c) /\ Connect(s, c)
    /\ Answer(s, "select", FALSE)
    /\ UNCHANGED <<state, autoCommit, dirty, localCache, pending, db>>

\* Each write is executed once, as long as it counts.
Unwritten == {w \in Write : w \notin db /\ \A s \in Session : w \notin pending[s]}

Update(s) ==
    /\ state[s] = "open"
    /\ dirty' = [dirty EXCEPT ![s] = TRUE]
    /\ ClearLocalCache(s)
    /\ \E c \in GetConnection(s), w \in Unwritten :
        /\ c.ok /\ c.link = "live"
        /\ Connect(s, c)
        /\ Execute(s, c, w)
    /\ Answer(s, "update", TRUE)
    /\ UNCHANGED <<state, autoCommit>>

\* Mutant: dirty is set when the executor has returned.
UpdateFailsClean(s) ==
    /\ state[s] = "open"
    /\ ClearLocalCache(s)
    /\ \E c \in GetConnection(s) :
        /\ StatementFails(c)
        /\ Connect(s, c)
        /\ \/ UNCHANGED <<pending, db>>
           \/ /\ c.ok /\ c.link = "live"
              /\ \E w \in Unwritten : Execute(s, c, w)
    /\ Answer(s, "update", FALSE)
    /\ UNCHANGED <<state, autoCommit, dirty>>

\* update throws: the statement is unknown (or the executor closed, or the
\* parameters bad) and nothing but the dirty flag has changed; or no statement
\* could be executed; or reading back generated keys failed after it was.
UpdateFails(s) ==
    /\ state[s] # "none"
    /\ dirty' = [dirty EXCEPT ![s] = TRUE]
    /\ \/ UNCHANGED <<localCache, connection, realAuto, pending, db>>
       \/ /\ state[s] = "open"
          /\ ClearLocalCache(s)
          /\ \E c \in GetConnection(s) :
              /\ StatementFails(c)
              /\ Connect(s, c)
              /\ \/ UNCHANGED <<pending, db>>
                 \/ /\ c.ok /\ c.link = "live"
                    /\ \E w \in Unwritten : Execute(s, c, w)
    /\ Answer(s, "update", FALSE)
    /\ UNCHANGED <<state, autoCommit>>

\* The JdbcTransaction has something to commit or roll back. (A driver may know
\* the auto-commit mode of a lost connection, or throw: commit and rollback may
\* then fail even in auto-commit.)
InTransaction(s) == connection[s] # "none" /\ ~realAuto[s]

Commit(s) ==
    /\ state[s] = "open"
    /\ ClearLocalCache(s)
    /\ \/ /\ \E force \in BOOLEAN : ~Required(s, force) \/ ~InTransaction(s)
          /\ UNCHANGED <<pending, db>>
       \/ /\ \E force \in BOOLEAN : Required(s, force)
          /\ InTransaction(s) /\ connection[s] = "live"
          /\ db' = db \cup pending[s]
          /\ pending' = [pending EXCEPT ![s] = {}]
    /\ dirty' = [dirty EXCEPT ![s] = FALSE]
    /\ Answer(s, "commit", TRUE)
    /\ UNCHANGED <<state, autoCommit, connection, realAuto>>

\* commit throws: the executor is closed, or JDBC throws. When the connection
\* breaks during the call, the server may or may not have committed.
CommitFails(s) ==
    /\ \/ state[s] = "closed" /\ UNCHANGED <<localCache, connection, db>>
       \/ /\ state[s] = "open"
          /\ \E force \in BOOLEAN : Required(s, force)
          /\ ClearLocalCache(s)
          /\ \/ /\ connection[s] = "lost" \/ (InTransaction(s) /\ "commit" \in Faults)
                /\ UNCHANGED <<connection, db>>
             \/ /\ connection[s] = "live" /\ InTransaction(s) /\ "commit" \in Faults
                /\ connection' = [connection EXCEPT ![s] = "lost"]
                /\ db' \in {db, db \cup pending[s]}
    /\ Answer(s, "commit", FALSE)
    /\ UNCHANGED <<state, autoCommit, dirty, realAuto, pending>>

\* On a closed executor rollback returns at once.
Rollback(s) ==
    /\ \/ state[s] = "closed" /\ UNCHANGED <<localCache, pending>>
       \/ /\ state[s] = "open"
          /\ ClearLocalCache(s)
          /\ \/ /\ \E force \in BOOLEAN : ~Required(s, force) \/ ~InTransaction(s)
                /\ UNCHANGED pending
             \/ /\ \E force \in BOOLEAN : Required(s, force)
                /\ InTransaction(s) /\ connection[s] = "live"
                /\ pending' = [pending EXCEPT ![s] = {}]
    /\ dirty' = [dirty EXCEPT ![s] = FALSE]
    /\ Answer(s, "rollback", TRUE)
    /\ UNCHANGED <<state, autoCommit, connection, realAuto, db>>

RollbackFails(s) ==
    /\ state[s] = "open"
    /\ \E force \in BOOLEAN : Required(s, force)
    /\ connection[s] = "lost" \/ (InTransaction(s) /\ "rollback" \in Faults)
    /\ ClearLocalCache(s)
    /\ Answer(s, "rollback", FALSE)
    /\ UNCHANGED <<state, autoCommit, dirty, connection, realAuto, pending, db>>

\* What the transaction still has when Executor.close has tried to roll it
\* back: the rollback is skipped when it is not required, and may fail.
LeftAtClose(s) ==
    (IF Required(s, FALSE) THEN {{}} ELSE {pending[s]})
    \cup {p \in {pending[s]} : "rollback" \in Faults}

\* Mutant: a failing reset of auto-commit keeps the connection from being closed.
CloseUnlessResetFails(s) ==
    /\ state[s] # "none"
    /\ \/ /\ connection[s] = "live" /\ ~realAuto[s]
          /\ \E left \in LeftAtClose(s) : db' = db \cup left
          /\ connection' = [connection EXCEPT ![s] = "none"]
       \/ /\ connection[s] = "live" /\ ~realAuto[s] => "reset" \in Faults
          /\ UNCHANGED <<db, connection>>
    /\ state' = [state EXCEPT ![s] = "closed"]
    /\ dirty' = [dirty EXCEPT ![s] = FALSE]
    /\ ClearLocalCache(s)
    /\ realAuto' = [realAuto EXCEPT ![s] = FALSE]
    /\ pending' = [pending EXCEPT ![s] = {}]
    /\ Answer(s, "close", TRUE)
    /\ UNCHANGED autoCommit

\* close never throws. resetAutoCommit switches a live connection back to
\* auto-commit, which commits what is left; if that fails, returning the
\* connection rolls it back.
Close(s) ==
    /\ state[s] # "none"
    /\ \/ /\ connection[s] = "live" /\ ~realAuto[s]
          /\ \E left \in LeftAtClose(s) : db' = db \cup left
       \/ /\ connection[s] = "live" /\ ~realAuto[s] => "reset" \in Faults
          /\ UNCHANGED db
    /\ state' = [state EXCEPT ![s] = "closed"]
    /\ dirty' = [dirty EXCEPT ![s] = FALSE]
    /\ ClearLocalCache(s)
    /\ connection' = [connection EXCEPT ![s] = "none"]
    /\ realAuto' = [realAuto EXCEPT ![s] = FALSE]
    /\ pending' = [pending EXCEPT ![s] = {}]
    /\ Answer(s, "close", TRUE)
    /\ UNCHANGED autoCommit

\* The connection is lost between two calls. The server rolls back; pending
\* remembers what was lost until the session is closed.
Drop(s) ==
    /\ "drop" \in Faults
    /\ connection[s] = "live"
    /\ connection' = [connection EXCEPT ![s] = "lost"]
    /\ UNCHANGED <<state, autoCommit, dirty, localCache, realAuto, pending, db, reply>>

Select(s, k) == SelectCached(s, k) \/ SelectFromDatabase(s, k) \/ SelectFails(s, k)

Call(s) ==
    \/ Open(s) \/ \E k \in Key : Select(s, k)
    \/ Update(s) \/ UpdateFails(s)
    \/ Commit(s) \/ CommitFails(s)
    \/ Rollback(s) \/ RollbackFails(s)
    \/ Close(s)

Next == \E s \in Session : Call(s) \/ Drop(s)

Spec == Init /\ [][Next]_vars

-------------------------------------------------------------------------------
(* What a session promises, unless configuring a connection or a rollback     *)
(* fails.                                                                     *)

\* The session and its layers implement the unit of work: a commit that
\* returns has made everything durable, nothing becomes durable in any other
\* way, and a lost connection is never mistaken for finished work.
Contract == INSTANCE UnitOfWork WITH
    work <- pending,
    lost <- {s \in Session : connection[s] = "lost"},
    mode <- [s \in Session |->
                IF state[s] # "open" THEN "none"
                ELSE IF autoCommit[s] THEN "auto" ELSE "manual"]

ImplementsUnitOfWork == Contract!Spec

\* Work in a transaction always marks its session dirty, even when the update
\* that did it threw: it is what close and commit look at.
PendingIsDirty == \A s \in Session : pending[s] # {} => dirty[s]

\* The local cache never serves a result from before the session's own last
\* write, or one with work that has been rolled back since.
CacheHonest ==
    \A s \in Session, k \in Key : \A seen \in localCache[s][k] :
        pending[s] \subseteq seen /\ seen \subseteq Visible(s)

-------------------------------------------------------------------------------
(* What the comments promise and the code does not do. *)

\* JdbcTransaction.java:148-150: auto-commit is switched on at the end because
\* of sessions that only executed selects. So closing makes no write durable.
CloseCommitsNothing == [][\A s \in Session : Close(s) => UNCHANGED db]_vars
===============================================================================
