# YourBatis: a verification project

YourBatis (`src/YourBatis-core`) is a Java persistence framework in the style of
MyBatis: mapper interfaces and XML files are read into a `Configuration`, a
`SqlSession` runs their statements on a JDBC connection, and results are mapped
back to objects. This directory holds TLA+ models of the parts of it that keep
state and can fail, configurations that check them with TLC, and proofs checked
by TLAPS.

Paths below are relative to `src/YourBatis-core/src/main/java/org/harvey/batis/`.

## 1. Inventory

### Parts with shared or long-lived state

**Connection pool** (`datasource/PooledDataSource`, `PooledConnection`,
`PoolState`). State: the list of active wrappers, oldest checkout first; the list
of idle ones; per wrapper a `valid` flag, the real connection, a type code and
the checkout time; the configured URL and user, and the code of the type the pool
expects. Operations: `getConnection` (`popConnection`), `close` of a proxy
(`pushConnection`), any other call of a proxy (`checkConnection`, then the call),
the configuration setters (`forceCloseAll`). It is the only part many threads
share at run time. `synchronized (poolState)` protects the lists, and
`wait(poolTimeToWait)`/`notifyAll` couple the two sides, but the calls through
a proxy take no lock, and an overdue connection changes hands while its old holder
still has a proxy to it. It should be true that no connection has two masters,
that none is handed out with work of an earlier holder, that none is lost or
exceeds the limits, that nobody sleeps beside an idle connection or waits
for ever, and that a reconfiguration leaves no connection of the old kind.

**Unpooled data source** (`UnpooledDataSource`, the factories, `DriverProxy`).
Opens and configures a connection; registers drivers in a static map. The pool
calls it while it holds its own lock.

**Session** (`session/DefaultSqlSession`, its factory) over **executor**
(`executor/BaseExecutor`, `SimpleExecutor`) over **JDBC transaction**
(`transaction/jdbc`). State: `autoCommit` and `dirty` in the session; `closed` and
the local cache in the executor; the connection, opened on first use, in the
transaction; the open transaction in the database. Operations: select, update
(insert and delete are updates), commit, rollback, close. One thread owns a
session; what makes it hard is that every layer keeps a flag of its own about the
same work, and that any JDBC call may throw between two assignments. It should be
true that the layers together are a unit of work: commit that returns made
everything durable, nothing else made anything durable, rollback and close leave
nothing, and the cache shows no work that is not there.

**Mapper loading** (`config/Configuration`, `builder/`, `binding/MapperRegistry`,
`util/StrictMap`). State: known mappers, loaded resources, statements and result
maps (by full and by simple name, the simple one marked ambiguous on its second
use), and the statements that could not be completed yet. Operations: `addMapper`
(which reads the XML file beside the interface), alone or for all interfaces of a
package, and `getMappedStatement` and `hasStatement`, which first retry what is
incomplete. Hard: a failure half way through a file, of which only the entry in
`knownMappers` is taken back; results that depend on the order of files; retries
of one file's statements at the end of another's. It should be true that a
known mapper has been read to its end, that a name stands for what its file says
whatever was loaded before, and that nothing is replaced.

**Mapper proxies** (`binding/MapperProxy`, `MapperMethod`). A method cache shared
by all sessions; for each method the choice of session call and of the conversion
of its result.

**Plugins** (`plugin/`). A chain of interceptors that wrap executors and
handlers; matching of method signatures.

**Statement execution** (`executor/SimpleExecutor`, `executor/statement`,
`executor/param`, `executor/result`, `util/ErrorContext`). State: the JDBC statement of a
call, the position among the driver's result sets and rows, and one `ErrorContext` per
thread, with a stack of stored contexts around key generation. Operations: preparing,
setting parameters, executing, reading, closing. Hard: any of them may throw, the
driver may answer with any mixture of result sets and update counts, and the context is
filled in along the way and emptied at the end. It should be true that what is executed is
what the mapper file means, that pages are cut right, that every statement is closed,
that a report is about the call that failed, and that every call ends.

**Documentation search** (`src/doc/search.js`, `script.js`, the index files): the
search field of the generated pages. State: the indexes that have arrived, the text, the
watermark and focus of the field, the widget's timer and menu. Operations: keys, clicks,
selecting an entry; files arrive meanwhile. It should be true that the menu lists what
matches, that an entry leads to its page, and that the page never searches its own watermark.

**Type handlers** (`util/type/`). A registry keyed by Java and JDBC type, filled
at start-up, read concurrently.

### Algorithms without state of their own

Dynamic SQL (`scripting/`), token and expression parsing (`parsing/`), cache keys
(`cache/CacheKey`), property paths (`reflection/property`). These are recursive functions
over sequences; what can be wrong are boundaries (nothing written, first and last
elements, names that are bound twice).

### Everything else

Value objects (`mapping/`), annotations, exceptions, cursors (declared, not
implemented), resource and log access (`io/`), reflection wrappers, the Spring
Boot glue, and the demo. Not modelled; PROJECT.json gives
the reason for each.

### How the parts interact

    mapper proxy -> session -> executor -> statement handler -> result set handler
                                  |               |
                                  v               v
                            JDBC transaction    local cache
                                  |
                                  v
                     pool -> unpooled data source -> driver

A session obtains its connection from the pool with the first statement and
returns it at `close`. The models meet there. `SqlSession` assumes that a
connection it obtains has no work of anybody else on it; `ConnectionPool`
guarantees it (`CleanHandover`). The pool may take an overdue connection away at any
time, and `SqlSession` allows for it: `Drop` is both a connection the server has
closed and one that the pool has claimed or closed, for in either case its work is
rolled back and every later call on it throws.

## 2. Plan

| # | Modules | Subject | State |
|---|---------|---------|-------|
| 1 | `ConnectionPool`, `ConnectionPoolMC`, `ConnectionPoolProofs` | the pool, its proxies, failing JDBC calls | done; seven theorems |
| 2 | `UnitOfWork` (abstract), `SqlSession`, `SqlSessionMC`, `SqlSessionProofs` | session, executor, transaction and local cache implement the unit of work | done; four theorems |
| 3 | `MapperLoading`, `MapperLoadingMC`, `MapperLoadingProofs` | `StrictMap`, `addMapper` and XML loading, failures, incomplete statements, order of files | done; eight theorems |
| 4 | `ConnectionLease` (abstract), `ConnectionLeaseProofs`, `ConnectionPoolHealthyProofs` | what the pool promises a session: exclusive leases, revocable when overdue; its limits while JDBC works | done; the refinement and three invariants proved |
| 5 | `SqlText`, `DynamicSql`, `StatementExecution`, `StatementExecutionProofs`, `DynamicStatement`, `DynamicStatementMC` | rendering of dynamic SQL against its meaning; preparing, binding, executing, reading and reporting, composed with it | done; six theorems |
| 6 | `DocSearch`, `DocSearchMC`, `DocSearchProofs` | the search of the documentation pages | done; six theorems |
| 7 | `Filtering`, `SequenceLemmas` | what filtering and flattening compute, for sequences of any length; used by the models and proofs of 5 and 6, and the well-founded order used by those of 3 and 5 | done |

Not begun: type handlers and what a row becomes; `MapperMethod`; loading beside lookups
by other threads.

## 3. The connection pool

`ConnectionPool` has three kinds of actors: clients (a client is the user of one
connection at a time, so the model names a `PooledConnection` by the client that
obtained it), an administrator who reconfigures, and the environment (time and
the database server).

| Code | Model |
|------|-------|
| `PoolState.activeConnections`, `idleConnections` | `active` (clients in checkout order), `idle` (connections) |
| `synchronized (poolState)` | one action per locked section; `lock` and `cand` while a thread is between the two halves of one iteration of `popConnection`, where proxies of other threads may still be used |
| fields of `PooledConnection` | `held`, `valid`, `code`, and membership in `overdue` |
| `popConnection`, obtaining a candidate | `TakeIdle`, `Create`, `CreateFails`, `Claim`, `ClaimFails`, `Wait` |
| the wait's ends | `NotifyAll` in `CloseToIdle`, `Timeout`, `Interrupt` |
| `popConnection`, testing and installing it | `Install`, `InstallFails`, `Discard` with `GivesUp` |
| `pushConnection` | `CloseBad`, `CloseReal`, `CloseToIdle`, `CloseFails` |
| any other call of a proxy | `CheckConnection`, then `Act`: the first reads `valid` with no lock |
| setters, `forceCloseAll` | `SetField`, `ForceCloseAll`: two actions, as a setter assigns before it takes the lock |
| `getCheckoutTime() > poolMaximumCheckoutTime` | `CheckoutExpires` |
| driver and server | `conn`, `ServerDrops`, and `Faults`, the calls that may throw |

A connection is described by whether it is open, its auto-commit mode, the URL it
goes to and the clients who have uncommitted work on it.

### Runs

`pool_faulty` (two clients, one slot, two connections; every JDBC call may fail, opening,
configuring, `isClosed` and the ping included, and the server drops connections): `Exclusive`,
`ActiveIsHeld`, `IdleLimited`, `CleanHandover`, `RevokedForCause`, the liveness
property `NoWedge`, and `ImplementsLease`, the refinement described below. One slot makes
every request compete: one client holds or is overdue, the other waits or claims. Two
connections are needed for a claimed one to be discarded and replaced, and for a wrapper
whose close failed to be closed again when another connection is idle by then. Two user names
make some returned connections match the expected type and others not, which decides the branch of
`pushConnection`. New connections are not in auto-commit here (`UnpooledDataSource` sets
what is configured), so that there is something to roll back from the start.

`pool_healthy` (three clients, one slot, two connections, two URLs, ping, no faults): `Exclusive`
once more, with a holder, one who claims and one who waits; `NoLeak`, `ActiveLimited`,
`PoolFollowsConfig`, `NoWaiterWhileIdle`. The server has more connections than the pool has
slots, and the idle list holds one: a pool that created a connection beside an idle one would
exceed its maximum when the idle one is taken, which happens without a look at the active count.
Three clients are needed for two to wait when one returns its connection.

Four runs show places where the code does not do what its comments say.
`pool_return`: `pushConnection` closes exactly the connections that match the
pool's configuration and keeps the others. `pool_foreign`: a call that has passed
`checkConnection` may reach a connection that serves another thread by then.
`pool_overflow`: a `close` whose rollback throws has removed the wrapper from the
active list and left it usable; when it is closed again, an idle connection
appears beside a full active list, and the next request exceeds the maximum.
`pool_retries`: a request is given up when more connections were bad than the maximum of idle
ones plus the tolerance; the Javadoc names the maximum of active and idle ones together, which with
the defaults is almost twice as many.

These flaws say why the other properties are stated as they are: `NoLeak` and
`ActiveLimited` only for JDBC calls that succeed, and `Exclusive` about valid wrappers,
not about calls already under way. `IdleLimited` holds beside the second close, too.

### Fairness

`FairSpec` asks for weak fairness of each client's own steps while it requests a
connection (entering the lock, judging a candidate, the end of a timed wait: the
code waits with `poolTimeToWait` milliseconds), and of time passing for a
checkout. A thread that can take a Java monitor repeatedly is assumed to get it
in the end, which the JVM does not promise but every implementation does; the
property allows for a client to starve while others are served, since
`notifyAll` gives no order. Nothing obliges a holder to return its connection: that
requests are still answered is due to the claim of overdue ones.

### Proofs

`ConnectionPoolProofs` proves seven properties for any finite sets of clients and
connections, any limits and any faults. The inductive invariant is

    IInv == TypeOK /\ ControlState /\ Exclusive /\ ActiveIsHeld

`Exclusive` alone is not inductive. That a candidate goes to nobody else depends on
who is inside the locked section (`ControlState`: exactly the thread that owns the
lock has a candidate, a client has a wrapper exactly while it uses one); that the
head of `active` can be claimed without a second master depends on its wrapper
being valid and held (`ActiveIsHeld`); that a removal from `active` removes the
whole entry depends on the list having no repetitions, which is part of
`Exclusive`. `NoWaiterWhileIdle` and `IdleLimited` are inductive beside it. The action properties
follow from the same invariant, step by step. The library has no facts about
removing an element from a sequence, so the module begins with its own
(`RemoveFirstProperties`: `ArrayList.remove(Object)` on a list without
repetitions). The only assumption is `PoolAssumption`, on the constants.

`ConnectionPoolHealthyProofs` adds `NoLeak`, `ActiveLimited` and `PoolFollowsConfig` for
`Faults = {}`. Its
invariant joins to `IInv` that the open connections are exactly those the pool knows of
(`Owned`), that every valid wrapper is in the active list unless its connection is closed
(`ValidIsActive`: `pushConnection` returns without invalidating a wrapper whose connection does
not pass `isValid`, and such a wrapper never becomes idle), and that whoever has the lock has a
place left in the active list (`Room`). `ActiveLimited` is not inductive without `Room`: an idle
connection is taken without a look at the active count.

### The lease

`ConnectionLease` is the pool as a session sees it: a client is granted a connection that is
nobody else's and has no work on it, keeps it until it returns it, and may lose the
lease when it is late or while the pool is being reconfigured. `ConnectionPool` implements
it (`ImplementsLease`) with the wrappers as `wrapper`, the `valid` flags as
`live`, the overdue clients as `late` and the uncommitted work of each
connection as `work`; lists, lock, waiting, candidates and failed calls are stutters, or
the loss of a connection. The specification states the weakness the run `pool_foreign` shows: a
call through a revoked wrapper may still reach the connection. `ConnectionLeaseProofs`
proves `Spec => ImplementsLease` with one lemma per kind of step, from the
invariant above.

## 4. The session

`SqlSession` describes `DefaultSqlSession`, `BaseExecutor` with `SimpleExecutor`,
and `JdbcTransaction` together: a call runs on one thread through all of them, so it
is one action, and each way it may end is a disjunct of its own.

| Code | Model |
|------|-------|
| `DefaultSqlSession.dirty`, `autoCommit` | `dirty`, `autoCommit` |
| `BaseExecutor.closed`, `localCache` | `state`, `localCache` (per key no result, or one) |
| `JdbcTransaction.connection` | `connection` (none, live, lost) and `realAuto`, its actual mode |
| the transaction in the database | `pending` per session, `db` for what is durable |
| `openSession` | `Open` |
| `selectList` to `BaseExecutor.query` and `queryFromDatabase` | `SelectCached`, `SelectFromDatabase`, `SelectFails` |
| `update`, `insert`, `delete` | `Update`, `UpdateFails` (before, instead of or after executing the write) |
| `commit(force)`, `rollback(force)` | `Commit`, `CommitFails`, `Rollback`, `RollbackFails`, with any `force` |
| `close` with `BaseExecutor.close` and `JdbcTransaction.close` | `Close` |

A write is a value of its own, told from all others, and a query reads all that is
visible: what is durable and what its own session has pending (read committed;
what a database hides or blocks between sessions is left out, as the code does
nothing about it). The placeholder that `queryFromDatabase` puts into the cache is
gone when the call ends and is not seen from outside it.

`UnitOfWork` is what a caller may rely on, with none of the layers: durable writes,
open work, lost connections and the answer of the last call. `SqlSession` implements it
with the instance `Contract`: `work` is `pending`, `mode` the session's auto-commit
setting while it is open, and a session is `lost` when its connection is.

### Runs

`session_contract` (two sessions, two cache keys, three writes; connecting,
statements, commit and the reset of auto-commit may fail, connections may be
lost): `PendingIsDirty`, `CacheHonest`, and the refinement `ImplementsUnitOfWork`. Two
sessions are needed for one to see what the other has committed; three writes
let one session have two of them, so that a commit of part of the work would
show; two keys so that the cache holds results of different age.

`session_close` shows that closing a session whose rollback fails commits the work: the
connection is switched back to auto-commit regardless.

Because of this, and of the connection left behind by an `openConnection`
that throws half way (it stays in auto-commit whatever the session asked for), the
contract holds only when `configure` and `rollback` are not among the faults; the
run leaves them out, and the proofs assume so by name (`Reliable`).

The comment of `localCache` (`BaseExecutor.java:54-59`) says that it is cleared between complete
queries. The code clears it at writes, commits and rollbacks only, and for statements that ask
for it: a second equal query gets the list the first one got (`SelectCached`). `CacheHonest` says
what of that can be relied on. PROJECT.json lists it among the hazards and not as a finding: the
comment describes what the cache is meant for (nested queries) more than it states a rule.

No run needs fairness: nothing in a session waits.

### Proofs

`SqlSessionProofs` proves, for any sets of sessions, keys and writes and any
other faults, the invariants and the theorem `Implementation`:
`Spec => ImplementsUnitOfWork`. The inductive invariant is

    IInv == TypeOK /\ PendingIsDirty /\ CacheHonest /\ ModeKept

`ModeKept` says that a connection is in the mode its session asked for, and that
work is pending only on a connection that is not in auto-commit. Each conjunct needs the
others: that `commit` may skip the transaction of a clean session is right
because pending work has marked it dirty; that a cached answer is allowed by the
contract is right because the cache is emptied by every call that changes `pending`;
and that `close` commits nothing is right because there is nothing left when
auto-commit is restored, which again is the dirty flag. The refinement has a
lemma for every call, which maps it to the abstract action of its name, or to
`Fail` or `CommitBreaks` when it throws.

## 5. Mapper loading

A load is one thread's call, but any element of a file may be bad, so
`MapperLoading` takes a step for every element: the result maps first, then the
statements, then the retry of everything incomplete. Between two elements no
other call intervenes; what a failure leaves behind is met by the calls that follow.

| Code | Model |
|------|-------|
| `MapperRegistry.knownMappers` | `known` |
| `Configuration.loadedResources` | `xmlLoaded` (names of XML files), `interfaceLoaded` (interfaces) |
| the `StrictMap`s `resultMaps`, `mappedStatements` | `resultMaps`, `statements`: a full name is a pair, a simple name has `NoMapper` for its mapper; each key stands for a full name, nothing or `Ambiguous` |
| `MappedStatement.resultMaps` | `bound`: each reference with the result map it was given |
| `incompleteStatements` | `pending` |
| the call stack of `addMapper` or of a lookup, with the loop it is in | `loading`, `phase`, `next` |
| `StrictMap.put`, `get` | `Fresh` and `Put`, `Gets` |
| `resultMapElement` | `ReadResultMap` |
| `parseStatementNode`, called by `sqlElement` | `ReadStatement`; `PostponeStatement` if a result map is not found |
| `XMLMapperBuilder.parse`, end of the file | `StatementsRead` |
| the exception through all of them, and the `finally` of `addMapper` | `ElementFails`, `RetryFails` with `Abort` |
| `parsePendingRemoveFinished`, `parsePendingCollection` | `RetryCompletes`, `RetryIncomplete`, `RetryFails` |
| `MapperBuilder.parse`, its end | `Loaded` |
| `getMappedStatement`, `hasStatement` | `Lookup`, the retries, `Built` |

`bindMapperForTarget`, which in MyBatis makes loading recursive, always finds its
mapper known here, because an XML file is only read on behalf of a mapper, and
does nothing. Result maps never become incomplete (their resolver throws no
`IncompleteElementException`), and incomplete methods and cache references are
never added.

### Runs

`loading_order` (two mappers, two names, every pair of 105 files or none): files
have up to two result maps and two statements, with duplicates, bad elements, and
references to nothing, to a result map by its simple name, by the full name of
the other mapper, or both. Two mappers are needed for an ambiguity and for
statements that wait for another file; two elements so that a failure may
come after something was added; two statements of one name so that a retry
meets a duplicate. A load that fails leaves its incomplete statements behind and
another attempt adds them once more, without limit: `MaxPending` stops new loads
at more than three. It checks `ShortNames`, `KnownIsLoaded`, `BindingsRight`,
`NothingReplaced`, `KnownForGood` and `RetryIsThorough`.

`loading_own_maps` shows a consequence of the lookup by the name as written: with
a result map `x` in two files, a statement of the second one that refers to its own
`x` stays incomplete, and every lookup of any statement throws from then on. Which
file is the second one is up to the iteration of a `HashSet`.

### Proofs

`MapperLoadingProofs` proves all six properties of the passing run, and its type
invariant, for any mappers, names and files. The inductive invariant is

    IInv == TypeOK /\ ShortNames /\ Progress /\ Marks /\ Origins /\ BindingsRight

`Progress` says what has been read of the file being loaded, `Marks` that a file or
interface among the loaded resources has been read whole, `Origins` that result maps come
from their mapper's file and that a mapper with statements has all of its result
maps. `KnownIsLoaded` follows from `Marks`. `BindingsRight` needs `Origins`: a
simple name bound to another mapper's result map would become wrong if its own
mapper put one of that name later, which cannot be, for all of them were there
before its first statement. `RetryIsThorough` needs the part of `Progress` that says that the
elements the walk has passed are still incomplete. The only assumption is
`LoadingAssumption`, on the constants.

`LoadsDescend` says that no load, and no lookup that first completes what is pending, goes
on for ever. The `Distance` of what is under way from its end is a pair of numbers: how
many phases are left, and how many elements of this phase. Each step ends it or makes the
pair smaller. The loop over the incomplete statements is the one that could fail: it
removes from the list it goes through, so a step either moves on or leaves a
shorter list, and never has the position beyond its end (`Within`).

## 6. Statements and their SQL

Four modules. `SqlText` says what SQL text and values are: a text is a sequence of lexemes
(a word or sign, white space, `#{x}`, `${x}`), so that `GenericTokenParser`'s scanning is
behind it, but blanks, commas and parentheses are not. `DynamicSql` is rendering, as operators.
`StatementExecution` is a thread's calls, with the SQL rendered as the constant `Rendering`:
it depends on nothing but the statement and its argument, and as a constant it
leaves the module free of recursive operators, so that it can be proved about.
`DynamicStatement` puts the two together (`Rendering = Rendered`, an assumption TLC
evaluates) and relates what the driver receives to what the template means.

| Code | Model |
|------|-------|
| `DynamicContext` and the contexts wrapped around it | a record of pieces of SQL, bindings, next number; what a wrapper adds to each piece is applied to all the pieces of its body (`Renamed`, `Prefixed`, `Trimmed`) |
| `SqlNode.apply` | `Apply`, by the kind of node; `ApplyForEach` and `Each`; `ApplyText` |
| an exception while rendering | `ok` of the context, which stays `FALSE` |
| the collection of a `foreach` (`ContextAccessor`) | `Property`: a binding, else an entry of the parameter map, else an exception |
| `LanguagePhaser.phase` of a name, in a condition or `${}` | `Phase`: the same, except that an entry of the parameter replaces a binding which the `HashMap` gives out before `_parameter` (`Overwriting`) |
| `DynamicSqlSource.getBoundSql` | `SqlFor`, and `Parsed` in `Render` |
| `SqlSourceBuilder`, its token handler | `Parsed`: the text with a `?` for each `#{}`, and the parameter mappings |
| `DefaultParameterHandler`, `ParamMap.get` | `Value` and `ParameterValues`, `Missing` for a name the map does not have |
| `selectList`, `update` | `Call`, `LookupFails`, `Found` |
| `BaseStatementHandler`'s constructor | `GenerateKeys`, `Render` (a query renders before, in `BaseExecutor.query`) |
| `createCacheKey`, which reads every value before the statement is noted | `CacheKey` |
| `prepare`, `parameterize`, `execute` | `Prepare`, `Parameterize`, `Execute` and their failures |
| `stmt` of `doQuery` and `doUpdate`, closed in `finally` | `stmt`, `End`; `opened` are the statements not closed |
| `getFirstResultSet`, `skipRows`, the loop over rows, `getNextResultSet` | `FirstResultSet`, `SkipRows`, `NextRow`, `RowsDone`, `NextResultSet` |
| an exception of `getResultSet`, `getMoreResults`, `next` or `absolute`, or in a row | `ReadingFails` |
| a closed result set, an ignored exception | `RowsTakenAway`, `NextResultSetFails`, both noted in `cut` |
| `ErrorContext` of the thread | `context`; `LoadMapper` is a mapper read between two calls, which leaves its resource there |

### Run

`dynamic_statement` composes them for nine statements, all with every
combination of a few arguments: four are those of the demo's `GoodMapper.xml`, cut
down (an update with `set`, a delete with a `foreach`, a select with `where` and a `foreach`
in it, a `choose` with `${}`); three are `foreach` nodes nested in each other, whose names
hide one another, and with elements that write nothing in each position; one tests and writes
(`${}`) an item and an index that are entries of the parameter, too; one has a
key generator. `Overwriting` has the one name among these, `item`, whose hash code puts it
before `_parameter`. Some arguments lack a name the template needs: in a condition, in a `${}`, and in a
`#{}` of a query and of an update. The driver answers with no result at all, update counts only, and mixtures
of up to three result sets of up to three rows; pages begin before, at and behind the
end, and one is empty. `MaxCalls` is three: one call to fail, one to find
what it left, and one to begin with it already there.

- `SentAsWritten`: the SQL executed, each `?` with its value, is what the template means:
  `Meaning` is a rendering with lexical scopes, which knows no bindings that change, no
  names that are replaced and no prefixes. It has one exception: a condition or `${}` sees an
  entry of the parameter through the loops around it when the name is in `Overwriting`. This is
  what the code does for such a name, and the property shows that it does it everywhere and for
  no other name; no document says what an author may expect. Words must also stay apart.
- `ValuesInPlace`: the driver numbers the `?` of the SQL from left to right, the handler numbers the
  parameter mappings; the value with a number is that of the `#{}` in whose place this `?` is,
  however often a name is used. It relates what is rendered to what is bound, and so holds of any
  rendering; `SentAsWritten` says which rendering.
- `RefusedAsWritten`: nothing that has a meaning is refused on account of its names, and nothing
  else is executed; a query that has none is not even prepared, as `createCacheKey` needs its
  values. An update with an unknown `#{}` is prepared, and its statement stays open (below).
- `PagesRight`: of each result set that has a result map the rows of the page, and a beginning
  of this if the driver took something away without an exception. The property is about
  the list of results before `handleResultSets` unwraps a list of one: a caller who loses all
  result sets but the first gets rows where lists of rows were due, which is not modelled.
- `OnlyUnsentStaysOpen`: the statement of a call that came to `execute()` is closed when it
  ends, also if `execute()` threw; one whose parameters could not be set is not.
  That one stays open until its connection is closed:
  `prepareStatement` throws before `stmt` is assigned. No comment promises otherwise, so it is
  the boundary of the property.
- `ReportOwn`: a report names no other call's statement or SQL. If loading left
  a resource and the failure comes before a statement is noted, the report shows that resource
  without an object; the property allows this.
- `EveryCallEnds`, under weak fairness of the calling thread, which is inside the call and
  goes on with it: the loops over the driver's answers end.

### Proofs

`StatementExecutionProofs` proves `TypeOK`, `OnlyUnsentStaysOpen`, `ReportOwn`,
`ValuesInPlace` and `PagesRight` for any statements, renderings, answers of the driver, pages and number of
calls. The invariant for `OnlyUnsentStaysOpen` and `ReportOwn` is

    IInv == Progress /\ Opened /\ Context

`Progress` says how far a call is when it has called `execute()`; `Opened`, that from then
on the local variable holds the statement; `Context`, what has been noted at each point,
in particular that the context is empty of statements between calls. `TypeOK` is inductive
with the range of the position in the driver's answer.

`ValuesInPlace` is kept by `ParametersKept`: from rendering on a call has the SQL of its statement
and argument, parsed, and from binding on the value of each mapping, also when it fails
after that. The rest is about the text (`ParsedPlaces`): as many `?` are among the first `i`
lexemes as mappings come from them (`KeepCounts`), and the mapping of the last one is lexeme `i`
(`KeepPosition`). It supposes that the author of the statement wrote no `?`, which the driver
would count and the token handler would not.

`PagesRight` speaks of a call that returns. Its invariant, `PagesKept`, says it of a call
at each position `at` among the driver's answers: the result sets read so far are
those among the first `at` answers (`Passed`), each read one is its page or, once
something was taken away, a beginning of it (`RightUpTo`), and of the current one as
many rows have been read as the cursor has passed beyond the offset
(`CurrentRight`). `Passed` grows by one element exactly when a step passes a result
set, and never changes at the front, which are two lemmas about `Keep` (below).

`CallsDescend` is the part of `EveryCallEnds` that needs no fairness. A call that is
under way has a `Distance` from its end, four numbers in lexicographic order: the steps before and
at the driver, the driver's answers not yet passed, the steps for one of them, and its rows. Every
step of a call ends it or makes this smaller, and the order is proved to be well-founded
(`LexBelowWellFounded`), so no call loops for ever, for any answers of the driver. That a call does
not stop half-way is what the fairness adds, and TLC checks.

`StatementAssumption` is the only assumption. `SentAsWritten` and `RefusedAsWritten` are
about the recursive operators of `DynamicSql` and stay with TLC. They do not hold of every template
either: a `foreach` inside another one that gives its item the same name leaves that name unbound, and
a condition or a `${}` that the outer one has after it finds nothing. A general theorem would have to say
which templates are well-formed.

### Lemmas about sequences

The library's induction theorems take an operator as a parameter, which the provers
cannot instantiate. `SequenceLemmas` states induction with sets instead: a set of
numbers that holds 0 and with each number the next one is `Nat` (`Counting`), and likewise
for sequences and `Append` (`Growing`). Both follow from the least element of a set of
numbers, and this from the well-foundedness of inclusion of finite sets, which the
library states without an operator. `Recursion` gives the function that iterates a step,
and so what a recursive definition of a function denotes. `LexBelow(n)` orders tuples of `n`
numbers by the first place where they differ; that there is no infinite descent in it
(`LexBelowWellFounded`) is the library's theorem about such products, applied to the order of the
numbers, whose well-foundedness is again the least element. `CallsDescend` and
`LoadsDescend` use it.

On this rest the two operators the models filter and flatten with. `Keep(s, T)`, of
`Filtering`, is the elements of `s` in `T`, in their order; `SelectSeq` has no definition
the prover knows. Proved of it: appending an element, what is kept of a beginning is a
beginning of what is kept (`KeepIsPrefix`), the positions the kept elements come from
(`KeepDrawn`), the position an element gets (`KeepPosition`), and how many there are up to a
position (`KeepCounts`). Of the community modules'
`FlattenSeq`: appending a part, and where each part lies (`FlattenLaid`).

## 7. The documentation search

`DocSearch` has a reader, the browser that fetches files, and the page's handlers. Each event
is an action with all handlers it reaches, in the order they were registered in: those of
`search.js` come before the widget's. Of the widget itself, jQuery UI's autocomplete
(`jquery/jquery-ui.min.js`), what reaches `search.js` is modelled: its delay, its arrow and
escape keys, its closing.

| Code | Model |
|------|-------|
| `moduleSearchIndex` and its like | `index`: the file each was read from last |
| `loadScripts` | `Requests`; none of the indexes is there yet, so both files of each are asked for |
| the callbacks of the zip files, the script elements | `Arrives`, `ZipLost` |
| `source`, with its three regular expressions | `Source`, of `ExactMatch`, `CamelCaseMatch`, `SecondaryMatch` |
| `response`, `_renderMenu` | `Response`, `RenderMenu` |
| `select`, `getURLPrefix` | `Select`, `URL`, `URLPrefix`; `Throws` where it calls a method of a package's name that is not there |
| handlers of `#search` and `#reset` | `Cleared` in every key and click, `Blur`, `Reset` |
| delay and `minLength`; the widget's `_searchTimeout`, `search` | `timer`, `TimerFires`, `SearchFor` |
| the widget's keys (`_keyEvent`, `_move`, `close`) | `Arrow`, `Escape` |

`doc_search` has two packages, one in a module; a nested and an abbreviable type, one
without its package (as every item of this repository's own indexes is), links to the lists of
types and packages whose names differ between script and zip (as here, where the zips' are
garbled), members and a tag.
Two categories have a script and a zip, two have only a script, one only a zip; so an index of
packages or types may be replaced while a menu made from the old one is open. The two letters a
reader types are enough for exact, abbreviated and inner matches, and two of them for
several-hump abbreviations. `Cap`, 500 in the code, is one, so that there are more matches.

- `ListsWhatMatches`, `ExactListed`, `UnderItsHeader`: what a menu shows is what matches in
  the indexes that were there at that moment, once each, under one header per category; only a
  category with more than its cap loses some, and none of those with exactly the name asked for,
  unless abbreviations come first.
- `LeadsToItsPage`: the entry that is selected leads to the page it is for, also if the index of
  packages arrived or was replaced after the search; while it is not there, the module's directory is missing.
- `WatermarkNotSearched`: no sequence of keys, clicks, resets and timers searches for the
  text the page itself put into the field.
- `EveryIndexArrives`, under the fairness that the browser executes every script there is. Nothing
  is assumed of the zip files. Leaving the page ends it, and ends the behaviours of the model:
  the run does not check for deadlock.

### Proofs

`DocSearchProofs` proves five of the seven properties, for any indexes and orders of events and
any keys that cannot spell the watermark.

`WatermarkNotSearched` needs that the timer never runs while the field shows the watermark
(`TimedText`): losing the focus, the only event that writes it, stops the timer. `TypeOK`
adds the class, the focus and the menu (`PageRight`). `DocSearchAssumption` says that the
watermark cannot be typed in keys. In the page it can: `search.js` compares with the text
`Search`, so a reader who types this word searches for it, and loses it with the next key. Model
and theorem are about readers who do not.

What the menu shows is a function of the indexes and the term. `MenuChanges` says that every
step leaves the menu, closes it or computes it anew; the rest is about the functions.
`FoundFacts`: the matches of a category are the primary ones and after them the others, each
once. `ShownFacts`: of these a beginning is shown, all of it or as much as
`displayCount`, which is at least 500 and at least the number of exact matches of every
category (`DisplayCountFacts`). `SourceFacts`: the entries are those shown, each once, and those
of a category follow each other. `Rendered`: if they do, the menu has one header for each
category, its entries are right below it, and its lines are the entries in their order with
nothing but headers between them. From these follow

- `UnderItsHeader` as an invariant;
- `ListsWhatMatches`, where `EachItemOnce` is assumed: an index does not hold the same item
  twice (the three of this repository do not), or the menu would list it twice;
- `ExactListed`. If no inexact primary match comes before an exact one, what is kept of
  the index up to it are exact matches only, so its place in the list is at most the number of exact
  matches, which is within `displayCount`.

`LeadsToItsPage` compares with `Page`, the page of each item, which the run states for its
documentation; it is not a constraint on the constants of the model, and a theorem would have
to assume of it what `URL` says. `EveryIndexArrives` is liveness; what it rests on is
`IndexesStay`: an index with a script is there or its script is still on its way, whatever becomes of
the zip files, and an index that is there does not go again.

## 8. What is proved, what is only checked, what is left out

Proved for every value of the constants: see PROJECT.json, "theorems".

Each invariant and action property of a passing run is a theorem, except three.
`SentAsWritten` and `RefusedAsWritten` speak of rendering templates that nest to
any depth; `DynamicSql` writes it with recursive operators, which the prover cannot
reason about, so it is checked over the templates and arguments of the run. What comes after
rendering is proved: `ValuesInPlace`.
`LeadsToItsPage` is checked against the pages of the run's documentation (section 7).

Liveness is model-checked only: `NoWedge`, `EveryCallEnds` and `EveryIndexArrives` need
fairness and `ENABLED`, which are out of the prover's reach. Of the last two the part that needs
neither is proved: `CallsDescend` and `IndexesStay`. `LoadsDescend` is the like for loading, of which
no liveness is checked.

Left out of the modelled parts: the statistics counters of `PoolState`; changing
the pool's limits at run time; a maximum of zero active connections; two types of
connection with one hash code (`ConnectionType` is compared by fields here); nested queries and deferred
loads (nothing issues them); output parameters of stored procedures; cursors and
batches (they throw `UnfinishedFunctionException`); isolation levels. In `SqlSession`
results are values (the list that the local
cache shares with its callers is not), and the second, unused `popConnection` is ignored.
Of loading: the XML of the configuration itself, what result maps and statements
contain beyond names and references, and loading by one thread beside lookups by others.
Of dynamic SQL: how nodes are made from XML; `bind`; `trim` with attributes other than those of
`where` and `set`; tests that are more than a name; parameters that are no `ParamMap`: beans, simple
values, and a plain `HashMap` handed to the session, whose unknown names are null instead of an
exception; a `foreach` over a map; properties of items (`#{item.name}` is not renamed by the code, so
that it would be looked up after the loop, when the item is unbound). Of reading: what a row becomes,
nested result maps (unfinished), type handlers. Of the documentation: highlighting and the HTML
of entries, the tabs of tables, frames; that the reset button leaves the class of the watermark
is in the model, as is that an item without a package throws when it is selected, but nothing is
promised of either.

### Not modelled

Mapper proxies, plugins, type handlers, reflection, token parsing character by character, the mapping
descriptors, resource access and logging, and the Spring glue; PROJECT.json gives the reason for each.

## 9. Running the checks

    tlc -workers 2 -config PoolFaulty.cfg ConnectionPoolMC.tla
    tlapm ConnectionPoolProofs.tla

The configuration and module of each run, and what it is expected to show, are in
PROJECT.json. A module's comments mark as `Mutant` the operators that describe a
plausible mistake in the code; they are not part of the specification: putting one in the place of
the definition that follows it makes TLC report the property PROJECT.json names.
