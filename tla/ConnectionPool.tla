---------------------------- MODULE ConnectionPool ----------------------------
(***************************************************************************)
(* The JDBC connection pool of YourBatis: PooledDataSource, its monitor    *)
(* PoolState, and the PooledConnection proxies it hands out.               *)
(*                                                                         *)
(* A Client is one user of one connection at a time (a JdbcTransaction).   *)
(* The wrapper object a client obtained is named by the client itself:     *)
(* held, valid, code and overdue are the fields of that PooledConnection.  *)
(* A wrapper in idleConnections has been given to nobody, is always valid  *)
(* and carries only its real connection, so idle is a sequence of Reals.   *)
(*                                                                         *)
(* Everything under synchronized (poolState) is atomic with respect to     *)
(* the other locked sections, but calls through a proxy take no lock: they *)
(* interleave with the two halves of popConnection (obtaining a candidate, *)
(* then testing and installing it) and with everything else.               *)
(***************************************************************************)
EXTENDS Naturals, FiniteSets, SequencesExt

CONSTANTS
    Client,       \* users of connections
    Real,         \* the connections the database server can keep open
    Url, User,    \* values of the configured url and user name
    MaxActive,    \* poolMaximumActiveConnections
    MaxIdle,      \* poolMaximumIdleConnections
    Tolerance,    \* poolMaximumLocalBadConnectionTolerance
    PingEnabled,  \* poolPingEnabled, with a ping interval that has elapsed
    AutoCommit,   \* the auto-commit mode new connections get: the driver's, which is
                  \* TRUE, or the one that is configured
    Faults,       \* the JDBC calls that may fail
    NoReal, NoClient

\* connect: DriverManager or configureConnection throws; drop: the server or
\* the driver closes a connection; the others: that Connection method throws.
FaultKinds == {"connect", "getAutoCommit", "rollback", "close", "isClosed", "drop"}

ASSUME PoolAssumption ==
    /\ IsFiniteSet(Client) /\ NoClient \notin Client
    /\ IsFiniteSet(Real) /\ NoReal \notin Real
    /\ MaxActive \in Nat \ {0} /\ MaxIdle \in Nat /\ Tolerance \in Nat
    /\ PingEnabled \in BOOLEAN /\ AutoCommit \in BOOLEAN
    /\ Faults \subseteq FaultKinds

ConnectionType == [url : Url, user : User]
Connection == [open : BOOLEAN, auto : BOOLEAN, url : Url, pending : SUBSET Client]

VARIABLES
    active,         \* PoolState.activeConnections, oldest checkout first
    idle,           \* PoolState.idleConnections
    lock, cand,     \* the thread inside popConnection's second half, its resultConn
    pc, user, bad,  \* per client: where it is, its user name, localBadConnectionCount
    held, valid, code,  \* per client: the fields of the wrapper it holds
    overdue,        \* clients whose checkout time exceeds poolMaximumCheckoutTime
    config,         \* url and user name of the UnpooledDataSource
    expected,       \* expectedConnectionTypeCode
    reconfiguring,  \* a setter has changed a field and not yet called forceCloseAll
    conn            \* the real connections

clientVars == <<pc, user, bad, held, valid, code, overdue>>
configVars == <<config, expected, reconfiguring>>
vars == <<active, idle, lock, cand, clientVars, configVars, conn>>

Requesting(c) == pc[c] \in {"pop", "wait", "check"}
Holding(c) == pc[c] \in {"using", "acting"}
Listed == {held[c] : c \in Range(active)} \cup Range(idle)

Types ==
    /\ active \in Seq(Client)
    /\ idle \in Seq(Real)
    /\ lock \in Client \cup {NoClient}
    /\ cand \in Real \cup {NoReal}
    /\ pc \in [Client -> {"idle", "pop", "wait", "check", "using", "acting"}]
    /\ user \in [Client -> User]
    /\ bad \in [Client -> 0 .. MaxIdle + Tolerance]
    /\ held \in [Client -> Real \cup {NoReal}]
    /\ valid \in [Client -> BOOLEAN]
    /\ code \in [Client -> ConnectionType]
    /\ overdue \in SUBSET Client
    /\ config \in ConnectionType
    /\ expected \in ConnectionType
    /\ reconfiguring \in BOOLEAN
    /\ conn \in [Real -> Connection]

\* What the control state of a client says about the lock and its wrapper.
ControlState ==
    /\ cand = NoReal <=> lock = NoClient
    /\ \A c \in Client : pc[c] = "check" <=> lock = c
    /\ \A c \in Client : Holding(c) <=> held[c] # NoReal
    /\ \A c \in Client : valid[c] => Holding(c)

\* Types, and how the parts of the state belong together: the lock is held by the
\* one thread that judges a candidate, whichever way popConnection is left, and
\* exactly the clients with a wrapper are at it. (The bound on bad is the one of
\* checkHasConnectionToTry; its Javadoc names another, see AllConnectionsTried.)
TypeOK == Types /\ ControlState

\* The values of fields and local variables that no longer exist.
NoUser == CHOOSE u \in User : TRUE
NoCode == CHOOSE t \in ConnectionType : TRUE

\* A closed connection keeps no other state.
Closed == [open |-> FALSE, auto |-> TRUE, url |-> CHOOSE u \in Url : TRUE, pending |-> {}]

Init ==
    /\ active = <<>> /\ idle = <<>>
    /\ lock = NoClient /\ cand = NoReal
    /\ pc = [c \in Client |-> "idle"]
    /\ config \in ConnectionType /\ expected = config /\ reconfiguring = FALSE
    /\ user = [c \in Client |-> NoUser]
    /\ bad = [c \in Client |-> 0]
    /\ held = [c \in Client |-> NoReal]
    /\ valid = [c \in Client |-> FALSE]
    /\ code = [c \in Client |-> NoCode]
    /\ overdue = {}
    /\ conn = [r \in Real |-> Closed]

-------------------------------------------------------------------------------
(* What JDBC calls do to a real connection. *)

\* Mutant: the test of notAutoCommitThenRollback inverted.
RolledBackInverted(k) == IF k.auto THEN [k EXCEPT !.pending = {}] ELSE k

RolledBack(k) == [k EXCEPT !.pending = {}]

\* notAutoCommitThenRollback
RollbackMayThrow(r) ==
    \/ ~conn[r].open
    \/ "getAutoCommit" \in Faults
    \/ ~conn[r].auto /\ "rollback" \in Faults

\* The states in which pingConnection may leave r when it answers TRUE ...
Usable(r) ==
    IF conn[r].open
    THEN {conn[r]} \cup (IF PingEnabled THEN {RolledBack(conn[r])} ELSE {})
    ELSE {}

\* ... and when it answers FALSE: a closed connection, an isClosed() that
\* throws, or a failed ping query, after which the connection is closed.
Unusable(r) ==
    IF ~conn[r].open THEN {conn[r]}
    ELSE {k \in {conn[r], Closed} :
            \/ ~k.open /\ PingEnabled
            \/ k.open /\ ("isClosed" \in Faults \/ (PingEnabled /\ "close" \in Faults))}

-------------------------------------------------------------------------------
(* popConnection, first half: obtain a candidate. *)

\* getConnection() reads the configured user name, getConnection(user, password)
\* brings any; both do so before they take the lock.
Request(c) ==
    /\ pc[c] = "idle"
    /\ \E u \in User : user' = [user EXCEPT ![c] = u]
    /\ pc' = [pc EXCEPT ![c] = "pop"]
    /\ UNCHANGED <<active, idle, lock, cand, bad, held, valid, code, overdue, configVars, conn>>

Entering(c) == pc[c] = "pop" /\ lock = NoClient

Candidate(c, r) ==
    /\ lock' = c
    /\ cand' = r
    /\ pc' = [pc EXCEPT ![c] = "check"]

\* popConnection ends, and its local variables with it ...
Return(c) == user' = [user EXCEPT ![c] = NoUser] /\ bad' = [bad EXCEPT ![c] = 0]

\* ... by an SQLException.
Throw(c) == Return(c) /\ pc' = [pc EXCEPT ![c] = "idle"]


TakeIdle(c) ==
    /\ Entering(c)
    /\ idle # <<>>
    /\ Candidate(c, Head(idle))
    /\ idle' = Tail(idle)
    /\ UNCHANGED <<active, user, bad, held, valid, code, overdue, configVars, conn>>

\* Mutant: a connection is created without a look at the idle ones.
MayCreateBesideIdle(c) == Entering(c) /\ Len(active) < MaxActive

MayCreate(c) == Entering(c) /\ idle = <<>> /\ Len(active) < MaxActive

\* A slot of the server that no object of the program refers to.
Unreferenced(r) == ~conn[r].open /\ r \notin Range(idle) /\ \A c \in Client : held[c] # r

Opened == [open |-> TRUE, auto |-> AutoCommit, url |-> config.url, pending |-> {}]
Open(r) == conn' = [conn EXCEPT ![r] = Opened]

Create(c) ==
    /\ MayCreate(c)
    /\ \E r \in Real :
        /\ Unreferenced(r)
        /\ Open(r)
        /\ Candidate(c, r)
    /\ UNCHANGED <<active, idle, user, bad, held, valid, code, overdue, configVars>>

\* The server refuses, or configureConnection throws on a connection that is
\* open already and that nobody will ever close.
CreateFails(c) ==
    /\ MayCreate(c)
    /\ Throw(c)
    /\ \/ /\ "connect" \in Faults \/ \A r \in Real : ~Unreferenced(r)
          /\ UNCHANGED conn
       \/ /\ "connect" \in Faults
          /\ \E r \in Real : Unreferenced(r) /\ Open(r)
    /\ UNCHANGED <<active, idle, lock, cand, held, valid, code, overdue, configVars>>

Saturated(c) == Entering(c) /\ idle = <<>> /\ Len(active) >= MaxActive

\* Mutant: the comparison of the checkout time turned round.
OldestOverdueInverted == Head(active) \notin overdue

\* longestCheckoutTime > poolMaximumCheckoutTime, of the oldest checkout only
OldestOverdue == Head(active) \in overdue

\* Mutant: the old wrapper is left alone.
InvalidateNothing(c) == UNCHANGED valid

Invalidate(c) == valid' = [valid EXCEPT ![c] = FALSE]

\* claimedOverdueConnect: the oldest checkout has lasted too long. Its wrapper
\* is invalidated and the same real connection becomes the candidate.
Claim(c) ==
    /\ Saturated(c)
    /\ LET oldest == Head(active)
           r == held[oldest]
       IN /\ OldestOverdue
          /\ conn[r].open
          /\ \/ conn' = [conn EXCEPT ![r] = RolledBack(@)]
             \/ "rollback" \in Faults /\ ~conn[r].auto /\ UNCHANGED conn
          /\ active' = RemoveFirst(active, oldest)
          /\ Invalidate(oldest)
          /\ Candidate(c, r)
    /\ UNCHANGED <<idle, user, bad, held, code, overdue, configVars>>

\* getAutoCommit() throws after the overdue wrapper has left the active list.
ClaimFails(c) ==
    /\ Saturated(c)
    /\ LET oldest == Head(active)
       IN /\ OldestOverdue
          /\ ~conn[held[oldest]].open \/ "getAutoCommit" \in Faults
          /\ active' = RemoveFirst(active, oldest)
    /\ Throw(c)
    /\ UNCHANGED <<idle, lock, cand, held, valid, code, overdue, configVars, conn>>

\* waitConnectFinishWork: poolState.wait(poolTimeToWait)
Wait(c) ==
    /\ Saturated(c)
    /\ ~OldestOverdue
    /\ pc' = [pc EXCEPT ![c] = "wait"]
    /\ UNCHANGED <<active, idle, lock, cand, user, bad, held, valid, code, overdue, configVars, conn>>

Pop(c) ==
    \/ TakeIdle(c) \/ Create(c) \/ CreateFails(c)
    \/ Claim(c) \/ ClaimFails(c) \/ Wait(c)

\* Mutant: wait() without a time limit.
TimeoutNever(c) == FALSE

\* The wait times out, and the thread competes for the lock again.
Timeout(c) ==
    /\ pc[c] = "wait"
    /\ pc' = [pc EXCEPT ![c] = "pop"]
    /\ UNCHANGED <<active, idle, lock, cand, user, bad, held, valid, code, overdue, configVars, conn>>

Interrupt(c) ==
    /\ pc[c] = "wait"
    /\ Throw(c)
    /\ UNCHANGED <<active, idle, lock, cand, held, valid, code, overdue, configVars, conn>>

-------------------------------------------------------------------------------
(* popConnection, second half: test the candidate and hand it out. *)

Release == lock' = NoClient /\ cand' = NoReal

\* Mutant: the candidate is handed out as it is.
InstallAsIs(c) ==
    /\ lock = c
    /\ \E k \in Usable(cand) : conn' = [conn EXCEPT ![cand] = k]
    /\ held' = [held EXCEPT ![c] = cand]
    /\ valid' = [valid EXCEPT ![c] = TRUE]
    /\ code' = [code EXCEPT ![c] = [url |-> config.url, user |-> user[c]]]
    /\ overdue' = overdue \ {c}
    /\ active' = Append(active, c)
    /\ pc' = [pc EXCEPT ![c] = "using"]
    /\ Return(c)
    /\ Release
    /\ UNCHANGED <<idle, configVars>>

\* isValid() holds; addConnection2PoolStateActiveList
Install(c) ==
    /\ lock = c
    /\ Usable(cand) # {}
    /\ conn' = [conn EXCEPT ![cand] = RolledBack(@)]
    /\ held' = [held EXCEPT ![c] = cand]
    /\ valid' = [valid EXCEPT ![c] = TRUE]
    /\ code' = [code EXCEPT ![c] = [url |-> config.url, user |-> user[c]]]
    /\ overdue' = overdue \ {c}
    /\ active' = Append(active, c)
    /\ pc' = [pc EXCEPT ![c] = "using"]
    /\ Return(c)
    /\ Release
    /\ UNCHANGED <<idle, configVars>>

\* notAutoCommitThenRollback throws: the candidate is in no list any more.
InstallFails(c) ==
    /\ lock = c
    /\ RollbackMayThrow(cand)
    /\ \E k \in Usable(cand) : conn' = [conn EXCEPT ![cand] = k]
    /\ Throw(c)
    /\ Release
    /\ UNCHANGED <<active, idle, held, valid, code, overdue, configVars>>

\* checkHasConnectionToTry throws, with localBadConnectionCount incremented.
GivesUp(c) == bad[c] + 1 > MaxIdle + Tolerance

\* A bad connection is dropped, and the loop goes on.
Discard(c) ==
    /\ lock = c
    /\ \E k \in Unusable(cand) : conn' = [conn EXCEPT ![cand] = k]
    /\ IF GivesUp(c)
       THEN Throw(c)
       ELSE /\ bad' = [bad EXCEPT ![c] = @ + 1]
            /\ pc' = [pc EXCEPT ![c] = "pop"]
            /\ UNCHANGED user
    /\ Release
    /\ UNCHANGED <<active, idle, held, valid, code, overdue, configVars>>

Judge(c) == Install(c) \/ InstallFails(c) \/ Discard(c)

-------------------------------------------------------------------------------
(* pushConnection: close() on the proxy. *)

Closing(c) == pc[c] = "using" /\ lock = NoClient

\* Mutant: the wrapper is not invalidated.
DropWrapperAlive(c) ==
    /\ held' = [held EXCEPT ![c] = NoReal]
    /\ UNCHANGED valid
    /\ code' = [code EXCEPT ![c] = NoCode]
    /\ overdue' = overdue \ {c}

\* The client has no use for its wrapper any more.
DropWrapper(c) ==
    /\ held' = [held EXCEPT ![c] = NoReal]
    /\ Invalidate(c)
    /\ code' = [code EXCEPT ![c] = NoCode]
    /\ overdue' = overdue \ {c}

\* Mutant: only a healthy connection leaves the active list.
CloseBadKeepsEntry(c) ==
    /\ Closing(c)
    /\ \/ ~valid[c] /\ UNCHANGED conn
       \/ valid[c] /\ \E k \in Unusable(held[c]) : conn' = [conn EXCEPT ![held[c]] = k]
    /\ DropWrapper(c)
    /\ pc' = [pc EXCEPT ![c] = "idle"]
    /\ UNCHANGED <<active, idle, lock, cand, user, bad, configVars>>

\* The wrapper has been invalidated, or its connection does not pass isValid(); and
\* the client lets go of it (if not, CloseFails).
CloseBad(c) ==
    /\ Closing(c)
    /\ active' = RemoveFirst(active, c)
    /\ \/ ~valid[c] /\ UNCHANGED conn
       \/ valid[c] /\ \E k \in Unusable(held[c]) : conn' = [conn EXCEPT ![held[c]] = k]
    /\ DropWrapper(c)
    /\ pc' = [pc EXCEPT ![c] = "idle"]
    /\ UNCHANGED <<idle, lock, cand, user, bad, configVars>>

\* Mutant: room for one idle connection more than poolMaximumIdleConnections.
MustCloseRealLate(c) == Len(idle) > MaxIdle \/ expected = code[c]

\* The test of lines 847-848, whose second half is true of a connection that
\* still matches the configuration.
MustCloseReal(c) == Len(idle) >= MaxIdle \/ expected = code[c]

\* Mutant: realConnection.close() is forgotten.
CloseRealLeaves(c) ==
    /\ Closing(c)
    /\ valid[c] /\ Usable(held[c]) # {}
    /\ MustCloseReal(c)
    /\ active' = RemoveFirst(active, c)
    /\ DropWrapper(c)
    /\ pc' = [pc EXCEPT ![c] = "idle"]
    /\ UNCHANGED <<idle, lock, cand, user, bad, configVars, conn>>

CloseReal(c) ==
    /\ Closing(c)
    /\ valid[c] /\ Usable(held[c]) # {}
    /\ MustCloseReal(c)
    /\ active' = RemoveFirst(active, c)
    /\ conn' = [conn EXCEPT ![held[c]] = Closed]
    /\ DropWrapper(c)
    /\ pc' = [pc EXCEPT ![c] = "idle"]
    /\ UNCHANGED <<idle, lock, cand, user, bad, configVars>>

\* Mutant: notify() instead of notifyAll().
NotifyOne ==
    LET waiting == {d \in Client : pc[d] = "wait"}
    IN IF waiting = {} THEN pc ELSE [pc EXCEPT ![CHOOSE d \in waiting : TRUE] = "pop"]

\* poolState.notifyAll(): every waiting thread competes for the lock again.
NotifyAll == [d \in Client |-> IF pc[d] = "wait" THEN "pop" ELSE pc[d]]

\* The connection gets a new wrapper in the idle list.
CloseToIdle(c) ==
    /\ Closing(c)
    /\ valid[c] /\ Usable(held[c]) # {}
    /\ ~MustCloseReal(c)
    /\ active' = RemoveFirst(active, c)
    /\ idle' = Append(idle, held[c])
    /\ conn' = [conn EXCEPT ![held[c]] = RolledBack(@)]
    /\ DropWrapper(c)
    /\ pc' = [NotifyAll EXCEPT ![c] = "idle"]
    /\ UNCHANGED <<lock, cand, user, bad, configVars>>

\* The rollback or the close throws, or the connection does not pass isValid()
\* and pushConnection returns. In each case the wrapper has left the active list
\* but is still valid, and close() may be called on it again.
CloseFails(c) ==
    /\ Closing(c)
    /\ valid[c]
    /\ \/ \E k \in Usable(held[c]) :
           \/ RollbackMayThrow(held[c]) /\ conn' = [conn EXCEPT ![held[c]] = k]
           \/ MustCloseReal(c) /\ "close" \in Faults
              /\ conn' = [conn EXCEPT ![held[c]] = RolledBack(k)]
       \/ \E k \in Unusable(held[c]) : conn' = [conn EXCEPT ![held[c]] = k]
    /\ active' = RemoveFirst(active, c)
    /\ UNCHANGED <<idle, lock, cand, clientVars, configVars>>

Close(c) == CloseBad(c) \/ CloseReal(c) \/ CloseToIdle(c) \/ CloseFails(c)

-------------------------------------------------------------------------------
(* PooledConnection.invoke for any other method: first checkConnection, then  *)
(* the call on the real connection, with no lock around either.               *)

\* valid is a plain field and the read is not synchronised: once another
\* thread has invalidated the wrapper, this one may still see the old value.
CheckConnection(c) ==
    /\ pc[c] = "using"
    /\ \E seen \in {valid[c], TRUE} : seen
    /\ pc' = [pc EXCEPT ![c] = "acting"]
    /\ UNCHANGED <<active, idle, lock, cand, user, bad, held, valid, code, overdue, configVars, conn>>

\* The JDBC methods that matter: run a statement, end the transaction, switch
\* auto-commit (switching it on commits what is pending). A closed connection
\* throws.
Results(c, k) ==
    IF ~k.open THEN {k}
    ELSE {IF k.auto THEN k ELSE [k EXCEPT !.pending = @ \cup {c}], RolledBack(k)}
         \cup {[k EXCEPT !.auto = b, !.pending = IF b THEN {} ELSE @] : b \in BOOLEAN}

Act(c) ==
    /\ pc[c] = "acting"
    /\ \E n \in Results(c, conn[held[c]]) : conn' = [conn EXCEPT ![held[c]] = n]
    /\ pc' = [pc EXCEPT ![c] = "using"]
    /\ UNCHANGED <<active, idle, lock, cand, user, bad, held, valid, code, overdue, configVars>>

-------------------------------------------------------------------------------
(* Reconfiguration, time and the server. *)

\* Mutant: a setter that does not call forceCloseAll.
SetFieldOnly ==
    /\ \E u \in Url \ {config.url} : config' = [config EXCEPT !.url = u]
    /\ UNCHANGED <<active, idle, lock, cand, clientVars, expected, reconfiguring, conn>>

\* A setter writes a field of the UnpooledDataSource without the lock ...
SetField ==
    /\ ~reconfiguring
    /\ \/ \E u \in Url \ {config.url} : config' = [config EXCEPT !.url = u]
       \/ \E u \in User \ {config.user} : config' = [config EXCEPT !.user = u]
    /\ reconfiguring' = TRUE
    /\ UNCHANGED <<active, idle, lock, cand, clientVars, expected, conn>>

\* ... and then calls forceCloseAll. What throws is swallowed: a connection
\* whose rollback throws is left as it is, one whose close throws stays open.
ForceCloseAll ==
    /\ reconfiguring
    /\ lock = NoClient
    /\ expected' = config
    /\ \E untouched \in SUBSET {r \in Listed : RollbackMayThrow(r)},
          unclosed \in SUBSET {r \in Listed : conn[r].open /\ "close" \in Faults} :
         conn' = [r \in Real |->
                    CASE r \notin Listed \/ r \in untouched -> conn[r]
                      [] r \in unclosed \ untouched -> RolledBack(conn[r])
                      [] OTHER -> Closed]
    /\ valid' = [c \in Client |-> valid[c] /\ c \notin Range(active)]
    /\ active' = <<>>
    /\ idle' = <<>>
    /\ reconfiguring' = FALSE
    /\ UNCHANGED <<lock, cand, pc, user, bad, held, code, overdue, config>>

\* Time passes: checkout times expire in the order of the checkouts.
CheckoutExpires ==
    /\ \E i \in DOMAIN active :
        /\ active[i] \notin overdue
        /\ \A j \in 1 .. i - 1 : active[j] \in overdue
        /\ overdue' = overdue \cup {active[i]}
    /\ UNCHANGED <<active, idle, lock, cand, pc, user, bad, held, valid, code, configVars, conn>>

ServerDrops ==
    /\ "drop" \in Faults
    /\ \E r \in Real : conn[r].open /\ conn' = [conn EXCEPT ![r] = Closed]
    /\ UNCHANGED <<active, idle, lock, cand, clientVars, configVars>>

-------------------------------------------------------------------------------
ClientStep(c) ==
    \/ Request(c) \/ Pop(c) \/ Timeout(c) \/ Interrupt(c) \/ Judge(c)
    \/ Close(c) \/ CheckConnection(c) \/ Act(c)

Next ==
    \/ \E c \in Client : ClientStep(c)
    \/ SetField \/ ForceCloseAll \/ CheckoutExpires \/ ServerDrops

Spec == Init /\ [][Next]_vars

\* A thread inside popConnection keeps running, a timed wait ends, and time
\* passes. Nothing obliges a client to close what it holds.
Fairness ==
    /\ \A c \in Client : WF_vars(Pop(c)) /\ WF_vars(Judge(c)) /\ WF_vars(Timeout(c))
    /\ WF_vars(CheckoutExpires)

FairSpec == Spec /\ Fairness

-------------------------------------------------------------------------------
(* What the pool promises, whatever fails. *)

\* A real connection is never under the control of two: no two valid wrappers
\* share one, none that is valid shares one with the idle list or with the
\* candidate a thread is about to be given, and neither list repeats itself.
\* (claimedOverdueConnect and pushConnection put a second wrapper around a
\* connection; the first has to be dead by then.)
Exclusive ==
    /\ \A c, d \in Client : valid[c] /\ valid[d] /\ held[c] = held[d] => c = d
    /\ \A c \in Client : valid[c] => held[c] \notin Range(idle) \cup {cand}
    /\ cand \notin Range(idle)
    /\ \A i, j \in DOMAIN idle : idle[i] = idle[j] => i = j
    /\ \A i, j \in DOMAIN active : active[i] = active[j] => i = j

\* Every wrapper in the active list is valid and some client still has it: no
\* path of popConnection, pushConnection or forceCloseAll leaves behind an
\* entry that nobody will ever return.
ActiveIsHeld == \A c \in Range(active) : valid[c] /\ Holding(c)

\* No lost wakeup: nobody waits while an idle connection is there to be taken
\* (pushConnection notifies everyone it could serve).
NoWaiterWhileIdle == idle # <<>> => \A c \in Client : pc[c] # "wait"

\* poolMaximumIdleConnections is respected, although a wrapper whose close failed
\* is returned once more, when others have taken its place.
IdleLimited == Len(idle) <= MaxIdle

\* A connection is handed out with no uncommitted work of an earlier holder,
\* even when the rollback of an overdue claim failed and was swallowed.
CleanHandover ==
    [][\A c \in Client : pc[c] = "check" /\ pc'[c] = "using" => conn'[held'[c]].pending = {}]_vars

\* A client loses a valid wrapper only by closing it itself, by exceeding the
\* checkout time, or by a reconfiguration of the pool.
RevokedForCause ==
    [][\A c \in Client : valid[c] /\ ~valid'[c] =>
          pc'[c] = "idle" \/ c \in overdue \/ reconfiguring]_vars

\* All of this, and what it means for a client, in one abstract machine: the
\* pool leases connections.
Lease == INSTANCE ConnectionLease WITH
    wrapper <- held,
    live <- valid,
    late <- overdue,
    work <- [r \in Real |-> conn[r].pending],
    changing <- reconfiguring

ImplementsLease == Lease!Spec

\* The pool never wedges: a request goes unanswered for ever only while other
\* requests keep being answered, even if no holder ever returns anything
\* (waits are timed and overdue checkouts are reclaimed).
Answered(c) == Requesting(c) /\ ~Requesting(c)'
OtherAnswered(c) == \E d \in Client \ {c} : Answered(d)
NoWedge == \A c \in Client : []<>(~Requesting(c)) \/ []<><<OtherAnswered(c)>>_vars

-------------------------------------------------------------------------------
(* What it promises while JDBC calls succeed (Faults = {}). *)

\* Every connection the server has open for us is in one of the lists or about
\* to be installed: closing, claiming and reconfiguring lose none.
NoLeak == \A r \in Real : conn[r].open => r \in Listed \cup {cand}

\* poolMaximumActiveConnections is respected, although an idle connection is
\* taken without looking at the active count: it must have been counted when it
\* was created, and its place given to nobody since.
ActiveLimited == Len(active) <= MaxActive

\* Between reconfigurations the pool only has connections to the configured
\* url: forceCloseAll leaves none of the old ones to be handed out.
PoolFollowsConfig == ~reconfiguring => \A r \in (Listed \cup {cand}) \ {NoReal} : conn[r].url = config.url

-------------------------------------------------------------------------------
(* What the comments promise and the code does not do. *)

\* PooledDataSource.java:848 closes the returned connection if its target does
\* not match the pool's: one that is healthy, matches and finds room is kept.
MatchingConnectionPooled ==
    [][\A c \in Client :
          Closing(c) /\ valid[c] /\ conn[held[c]].open /\ Len(idle) < MaxIdle
          /\ pc'[c] = "idle" /\ expected = code[c]
          => held[c] \in Range(idle')]_vars

\* PooledDataSource.java:533-534: a request is given up only when more connections
\* have failed than can be created, poolMaximumActiveConnections and
\* poolMaximumIdleConnections together.
AllConnectionsTried ==
    [][\A c \in Client : Discard(c) /\ pc'[c] = "idle" => bad[c] + 1 > MaxActive + MaxIdle]_vars

\* PooledDataSource.java:576 and PooledConnection.java:197: whatever an overdue
\* wrapper was doing is given up, and an invalid wrapper throws. So no call
\* through an invalidated wrapper reaches a connection that now serves another.
NoForeignUse ==
    [][\A c, d \in Client :
          pc[c] = "acting" /\ pc'[c] = "using" /\ conn' # conn /\ ~valid[c]
          => ~(valid[d] /\ held[d] = held[c])]_vars
===============================================================================
