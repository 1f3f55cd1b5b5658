-------------------------- MODULE StatementExecution --------------------------
(***************************************************************************)
(* One thread's calls of selectList and update on an open session: the     *)
(* statement is looked up, its SQL rendered (DynamicSql), prepared, its    *)
(* parameters bound, executed, and the result sets read row by row, with   *)
(* a failure possible at each step; what the thread's ErrorContext knows   *)
(* when an exception is wrapped; and which JDBC statements stay open.      *)
(*                                                                         *)
(* The session's cache and transaction are SqlSession's.                   *)
(***************************************************************************)
EXTENDS SqlText, Filtering, FiniteSets

CONSTANTS
    Statement,      \* the mapped statements
    Arguments,      \* per statement: the parameters it is called with
    Rendering,      \* what it renders to (DynamicSql): records of a statement, an
                    \* argument, and the SQL there is for them, with its bindings
    Selects,        \* the statements that are selects; the others are updates
    KeyWriters,     \* those with a key generator other than NoKeyGenerator
    ResultMaps,     \* per statement: the number of its result maps
    Page,           \* the RowBounds, as records of an offset and a limit
    Outcome,        \* what the driver may answer: numbers of rows, Count for an update
    Count,
    Nothing,
    MaxCalls        \* bound on the calls made

ASSUME StatementAssumption ==
    /\ Selects \subseteq Statement /\ KeyWriters \subseteq Statement \ Selects
    /\ \A r \in Rendering : r.is.sql \in Seq(Range(r.is.sql))
    /\ ResultMaps \in [Statement -> Nat]
    /\ Page \subseteq [offset : Nat, limit : Nat]
    /\ Count \notin Nat
    /\ Outcome \subseteq Seq(Nat \cup {Count})
    /\ Nothing \notin Statement
    /\ MaxCalls \in Nat

VARIABLES
    pc, calls,
    call,       \* the statement, argument and page of the call
    context,    \* the thread's ErrorContext
    bound,      \* the BoundSql, once rendered
    stmt,       \* the local variable of doQuery and doUpdate: the statement's number
    opened,     \* the JDBC statements that are open (the number of their call)
    values,     \* the values bound to the statement, and
    sent,       \* whether execute() was called with them
    outcome, at,\* what the driver answers, and the position of getMoreResults in it
    row,        \* the position in the current result set
    results,    \* the rows read, per result set
    cut         \* the driver took rows away without an exception

request == <<calls, call>>
driver == <<opened, values, sent, outcome>>
reading == <<at, row, results, cut>>
vars == <<pc, request, context, bound, stmt, driver, reading>>

\* ErrorContext: the resource and the object by the statement they belong to,
\* the activity, and the sql by its call.
Fresh == [resource |-> Nothing, object |-> Nothing, sql |-> 0]
Unbound == [ok |-> TRUE, sql |-> <<>>, mappings |-> <<>>, additional |-> <<>>]
NoPage == [offset |-> 0, limit |-> 0]
NoCall == [statement |-> Nothing, arg |-> <<>>, page |-> NoPage]

\* The renderings there are (a definition, which TLC evaluates once).
Sql == {sql \in Rendering : sql.statement \in Statement}

IsSelect == call.statement \in Selects
Rows(k) == k \in DOMAIN outcome /\ outcome[k] # Count

TypeOK ==
    /\ calls \in 0..MaxCalls
    /\ pc \in {"idle", "lookup", "keys", "render", "key", "prepare", "parameterize", "execute",
               "first", "skip", "rows", "more", "return", "unwind"}
    /\ context \in [resource : Statement \cup {Nothing}, object : Statement \cup {Nothing},
                    sql : 0..MaxCalls]
    /\ opened \in SUBSET (1..MaxCalls)
    /\ stmt \in opened \cup {0}
    /\ IF pc = "idle" THEN call = NoCall
       ELSE call.statement \in Statement /\ call.arg \in Arguments[call.statement]
    /\ pc \in {"first", "skip", "rows", "more", "return"} => stmt = calls
    /\ results \in Seq(Seq(Nat)) /\ cut \in BOOLEAN
    /\ pc \in {"skip", "rows"} => Rows(at)
    /\ pc = "rows" => row <= outcome[at]

Init ==
    /\ pc = "idle" /\ calls = 0 /\ call = NoCall
    /\ context = Fresh /\ bound = Unbound
    /\ stmt = 0 /\ opened = {}
    /\ values = <<>> /\ sent = FALSE /\ outcome = <<>>
    /\ at = 1 /\ row = 0 /\ results = <<>> /\ cut = FALSE

Step(from, to) == pc = from /\ pc' = to
Throw == pc' = "unwind"

-------------------------------------------------------------------------------
(* Before the driver *)

\* A mapper is added while no call is running: its resource, and what it was
\* processing, stay in the thread's ErrorContext.
LoadMapper(s) ==
    /\ pc = "idle"
    /\ context' = [context EXCEPT !.resource = s]
    /\ UNCHANGED <<pc, request, bound, stmt, driver, reading>>

Call(s, arg, page) ==
    /\ Step("idle", "lookup")
    /\ calls < MaxCalls
    /\ calls' = calls + 1
    /\ call' = [statement |-> s, arg |-> arg, page |-> page]
    /\ sent' = FALSE
    /\ UNCHANGED <<context, bound, stmt, opened, values, outcome, reading>>

\* What BaseExecutor notes about the statement.
Noted == [context EXCEPT !.resource = call.statement, !.object = call.statement]

LookupFails ==
    /\ pc = "lookup" /\ Throw
    /\ UNCHANGED <<request, context, bound, stmt, driver, reading>>

\* An update notes its statement first; a query renders its SQL and makes its cache
\* key before that.
Found ==
    /\ Step("lookup", IF IsSelect THEN "render" ELSE "keys")
    /\ context' = IF IsSelect THEN context ELSE Noted
    /\ UNCHANGED <<request, bound, stmt, driver, reading>>

\* generateKeys runs a key generator in an ErrorContext of its own. Those that
\* do something throw, and the outer context is not recalled.
GenerateKeys ==
    /\ pc = "keys"
    /\ IF call.statement \in KeyWriters
       THEN Throw /\ context' = Fresh
       ELSE pc' = "render" /\ UNCHANGED context
    /\ UNCHANGED <<request, bound, stmt, driver, reading>>

Render ==
    /\ pc = "render"
    /\ \E sql \in Sql : /\ sql.statement = call.statement /\ sql.arg = call.arg
                           /\ bound' = Parsed(sql.is)
    /\ IF bound'.ok THEN pc' = IF IsSelect THEN "key" ELSE "prepare" ELSE Throw
    /\ UNCHANGED <<request, context, stmt, driver, reading>>

\* The values of the parameter mappings, Missing where reading one throws.
ParameterValues ==
    [j \in DOMAIN bound.mappings |-> Value(bound, call.arg, bound.mappings[j])]

\* A query reads the values for its cache key (createCacheKey), and only then notes
\* its statement.
CacheKey ==
    /\ pc = "key"
    /\ IF Missing \in Range(ParameterValues)
       THEN Throw /\ UNCHANGED context
       ELSE pc' = "prepare" /\ context' = Noted
    /\ UNCHANGED <<request, bound, stmt, driver, reading>>

-------------------------------------------------------------------------------
(* At the driver *)

\* Connecting fails before prepare notes the SQL; preparing closes what it opened
\* when it fails.
PrepareFails ==
    /\ pc = "prepare" /\ Throw
    /\ context' \in {context, [context EXCEPT !.sql = calls]}
    /\ UNCHANGED <<request, bound, stmt, driver, reading>>

Prepare ==
    /\ Step("prepare", "parameterize")
    /\ opened' = opened \cup {calls}
    /\ context' = [context EXCEPT !.sql = calls]
    /\ UNCHANGED <<request, bound, stmt, values, sent, outcome, reading>>

\* prepareStatement returns the statement, which doQuery and doUpdate close,
\* only when all parameters are set.
Parameterize ==
    /\ pc = "parameterize"
    /\ IF Missing \in Range(ParameterValues)
       THEN Throw /\ UNCHANGED <<values, stmt>>
       ELSE pc' = "execute" /\ values' = ParameterValues /\ stmt' = calls
    /\ UNCHANGED <<request, context, bound, opened, sent, outcome, reading>>

ParameterizeFails ==
    /\ pc = "parameterize" /\ Throw
    /\ UNCHANGED <<request, context, bound, stmt, driver, reading>>

Execute ==
    /\ Step("execute", IF IsSelect THEN "first" ELSE "return")
    /\ sent' = TRUE
    /\ outcome' \in IF IsSelect THEN Outcome ELSE {<<Count>>}
    /\ UNCHANGED <<request, context, bound, stmt, opened, values, reading>>

ExecuteFails ==
    /\ pc = "execute" /\ Throw
    /\ sent' = TRUE
    /\ UNCHANGED <<request, context, bound, stmt, opened, values, outcome, reading>>

-------------------------------------------------------------------------------
(* The result sets *)

Limit == ResultMaps[call.statement]

FirstResultSetGoesOn ==
    /\ pc = "first"
    /\ IF Rows(at) THEN /\ at' = at
                        /\ IF Limit = 0 THEN Throw ELSE pc' = "skip"
       ELSE at' = Min({at + 1, Len(outcome) + 1}) /\ pc' = "first"
    /\ UNCHANGED <<request, context, bound, stmt, driver, row, results, cut>>

\* getFirstResultSet passes over update counts. A result set is refused when the
\* statement has no result map.
FirstResultSet ==
    /\ pc = "first"
    /\ IF Rows(at) THEN /\ at' = at
                        /\ IF Limit = 0 THEN Throw ELSE pc' = "skip"
       ELSE IF at > Len(outcome) THEN at' = at /\ pc' = "return"
       ELSE at' = at + 1 /\ pc' = "first"
    /\ UNCHANGED <<request, context, bound, stmt, driver, row, results, cut>>

SkipRowsBlindly ==
    /\ Step("skip", "rows")
    /\ row' = call.page.offset
    /\ results' = Append(results, <<>>)
    /\ UNCHANGED <<request, context, bound, stmt, driver, at, cut>>

SkipRows ==
    /\ Step("skip", "rows")
    /\ row' = Min({call.page.offset, outcome[at]})
    /\ results' = Append(results, <<>>)
    /\ UNCHANGED <<request, context, bound, stmt, driver, at, cut>>

\* shouldProcessMoreRows, and a row to process.
MoreRowsByNumber ==
    /\ pc = "rows"
    /\ row < call.page.limit
    /\ row < outcome[at]

MoreRows ==
    /\ pc = "rows"
    /\ Len(results[Len(results)]) < call.page.limit
    /\ row < outcome[at]

NextRow ==
    /\ MoreRows
    /\ row' = row + 1
    /\ results' = [results EXCEPT ![Len(results)] = Append(@, row + 1)]
    /\ UNCHANGED <<pc, request, context, bound, stmt, driver, at, cut>>

\* The first result set cannot be obtained, rows cannot be skipped, or a row cannot
\* be turned into an object.
ReadingFails ==
    /\ pc \in {"first", "skip"} \/ MoreRows
    /\ Throw
    /\ UNCHANGED <<request, context, bound, stmt, driver, reading>>

\* The result set was closed meanwhile, which the loop takes for its end.
RowsTakenAway ==
    /\ MoreRows /\ pc' = "more"
    /\ cut' = TRUE
    /\ UNCHANGED <<request, context, bound, stmt, driver, at, row, results>>

RowsDone ==
    /\ ~MoreRows /\ Step("rows", "more")
    /\ UNCHANGED <<request, context, bound, stmt, driver, reading>>

\* getNextResultSet, once per getMoreResults.
NextResultSet ==
    /\ pc = "more"
    /\ at' = at + 1
    /\ pc' = IF Rows(at') THEN IF Len(results) < Limit THEN "skip" ELSE "return"
             ELSE IF at' > Len(outcome) THEN "return" ELSE "more"
    /\ UNCHANGED <<request, context, bound, stmt, driver, row, results, cut>>

\* An exception on the way to the next result set is ignored: there is none.
NextResultSetFails ==
    /\ Step("more", "return")
    /\ cut' = TRUE
    /\ UNCHANGED <<request, context, bound, stmt, driver, at, row, results>>

-------------------------------------------------------------------------------
(* The end of a call: the statement is closed if the caller has it, and the   *)
(* ErrorContext is reset; after an exception it was written into the message. *)
(* (A single result list is returned as it is, several in a list of them: who  *)
(* loses all result sets but the first gets rows where lists were due.)       *)

Forgotten ==
    /\ call' = NoCall /\ bound' = Unbound /\ values' = <<>> /\ outcome' = <<>>
    /\ at' = 1 /\ row' = 0 /\ results' = <<>> /\ cut' = FALSE

EndLeaves ==
    /\ pc \in {"return", "unwind"} /\ pc' = "idle"
    /\ stmt' = 0 /\ opened' = IF pc = "return" THEN opened \ {stmt} ELSE opened
    /\ context' = Fresh
    /\ Forgotten
    /\ UNCHANGED <<calls, sent>>

EndRemembers ==
    /\ pc \in {"return", "unwind"} /\ pc' = "idle"
    /\ stmt' = 0 /\ opened' = opened \ {stmt}
    /\ context' = IF pc = "return" THEN context ELSE Fresh
    /\ Forgotten
    /\ UNCHANGED <<calls, sent>>

End ==
    /\ pc \in {"return", "unwind"} /\ pc' = "idle"
    /\ stmt' = 0 /\ opened' = opened \ {stmt}
    /\ context' = Fresh
    /\ Forgotten
    /\ UNCHANGED <<calls, sent>>

Proceed ==
    \/ Found \/ GenerateKeys \/ Render \/ CacheKey \/ Prepare \/ Parameterize \/ Execute
    \/ FirstResultSet \/ SkipRows \/ NextRow \/ RowsDone \/ NextResultSet
    \/ End

Fail ==
    \/ LookupFails \/ PrepareFails \/ ParameterizeFails \/ ExecuteFails
    \/ ReadingFails \/ RowsTakenAway \/ NextResultSetFails

Next ==
    \/ Proceed \/ Fail
    \/ \E s \in Statement : LoadMapper(s)
    \/ \E s \in Statement : \E arg \in Arguments[s] :
           \E page \in IF s \in Selects THEN Page ELSE {NoPage} : Call(s, arg, page)

\* A thread that has begun a call goes on with it.
Spec == Init /\ [][Next]_vars /\ WF_vars(Proceed)

-------------------------------------------------------------------------------
(* Properties *)

\* A call leaves no statement open that was given to execute(), whether this threw,
\* the reading did or neither (finally of doQuery and doUpdate); only one whose
\* parameters could not be set stays open.
OnlyUnsentStaysOpen == pc = "idle" /\ sent => calls \notin opened

\* What is reported about a failure is about this call: the statement, if one is
\* named, and the SQL, if any is shown. A failure at the driver shows both.
ReportOwn ==
    pc = "unwind" =>
        /\ context.object # Nothing => context.object = call.statement
                                         /\ context.resource = call.statement
        /\ context.sql \in {0, calls}
        /\ calls \in opened => context.sql = calls /\ context.object = call.statement

\* The driver, which numbers the ? of the SQL from left to right, has for each the
\* value of the #{} that was in its place, and has none left over - as long as the
\* author of the statement writes no ? (SqlSourceBuilder counts only its own).
Marks(i) == Cardinality({k \in 1..i : bound.sql[k] = Mark})
ValuesInPlace ==
    sent /\ pc # "idle" =>
        \E r \in Sql :
            LET text == r.is.sql
            IN  /\ r.statement = call.statement /\ r.arg = call.arg
                /\ Len(bound.sql) = Len(text)
                /\ Mark \notin Range(text) =>
                    /\ Len(values) = Marks(Len(text))
                    /\ \A i \in 1..Len(text) :
                        IF IsParam(text[i])
                        THEN /\ bound.sql[i] = Mark
                             /\ values[Marks(i)] = Value(bound, call.arg, text[i])
                        ELSE bound.sql[i] = text[i]

\* A query returns of each result set it has a result map for, in their order,
\* the rows offset + 1 to offset + limit, whatever else the statement did; and
\* only the first of them when the driver took the rest away.
ResultSets == Keep(outcome, Nat)
PageOf(page, n) ==
    [j \in 1..Max({0, Min({page.limit, n - page.offset})}) |-> page.offset + j]
Expected == [k \in 1..Min({Limit, Len(ResultSets)}) |-> PageOf(call.page, ResultSets[k])]

PagesRight ==
    pc = "return" /\ IsSelect =>
        /\ ~cut => results = Expected
        /\ Len(results) <= Len(Expected)
        /\ \A k \in DOMAIN results : IsPrefix(results[k], Expected[k])

\* Every call comes to an end, whatever the driver answers (the loops over its
\* results end with them).
EveryCallEnds == pc # "idle" ~> pc = "idle"

===============================================================================
