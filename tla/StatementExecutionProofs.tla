----------------------- MODULE StatementExecutionProofs -----------------------
(***************************************************************************)
(* What stays open, what is reported, where parameters go, which pages are *)
(* returned, and that no call goes on for ever.                            *)
(* OnlyUnsentStaysOpen and ReportOwn depend on how far the call is         *)
(* (Progress), on whether doQuery or doUpdate holds the statement it       *)
(* opened (Opened), and on what of the ErrorContext has been filled in by  *)
(* then (Context). ValuesInPlace depends on the SQL a call has kept        *)
(* (ParametersKept), PagesRight on the position among the driver's         *)
(* answers and rows (PagesKept); so does the distance of a call from its   *)
(* end, which every step makes smaller.                                    *)
(***************************************************************************)
EXTENDS StatementExecution, SequenceLemmas

Early == {"lookup", "keys", "render", "key", "prepare"}
Late == {"execute", "first", "skip", "rows", "more", "return"}

\* The statement is sent only by a call that is past Parameterize.
Progress ==
    /\ calls \in Nat /\ (pc # "idle" => calls > 0)
    /\ pc \in {"idle", "parameterize", "unwind"} \cup Early \cup Late
    /\ sent \in BOOLEAN
    /\ pc \in Early \cup {"parameterize", "execute"} => sent = FALSE

\* A call opens its own statement, late, and holds it when it sends it.
Opened ==
    /\ opened \subseteq 1..calls
    /\ pc \in Early => calls \notin opened
    /\ pc \in Late => stmt = calls
    /\ pc = "unwind" /\ sent = TRUE => stmt = calls
    /\ pc = "idle" /\ sent = TRUE => calls \notin opened

Named == context.object = call.statement /\ context.resource = call.statement
NotNamed == context.object = Nothing

\* What the ErrorContext holds at each point of a call.
Context ==
    /\ context = [resource |-> context.resource, object |-> context.object, sql |-> context.sql]
    /\ pc \in {"idle", "lookup"} => NotNamed /\ context.sql = 0
    /\ pc = "render" => (IF IsSelect THEN NotNamed ELSE Named) /\ context.sql = 0
    /\ pc = "key" => NotNamed /\ context.sql = 0
    /\ pc = "keys" => ~IsSelect
    /\ pc \in {"keys", "prepare"} => Named /\ context.sql = 0
    /\ pc \in {"parameterize"} \cup Late => Named /\ context.sql = calls
    /\ ReportOwn

IInv == Progress /\ Opened /\ Context

LEMMA InitIInv == ASSUME Init PROVE IInv
<1>1. Progress
  BY DEF Init, Progress, Early, Late
<1>2. Opened
  BY DEF Init, Opened, Early, Late
<1>3. Context
  BY DEF Init, Context, Early, Late, NotNamed, ReportOwn, Fresh
<1> QED
  BY <1>1, <1>2, <1>3 DEF IInv

LEMMA BeginKeeps ==
  ASSUME IInv,
         \/ \E s \in Statement : LoadMapper(s)
         \/ \E s \in Statement : \E arg \in Arguments[s] :
                \E p \in IF s \in Selects THEN Page ELSE {NoPage} : Call(s, arg, p)
  PROVE  IInv'
<1>1. ASSUME NEW s \in Statement, LoadMapper(s)
      PROVE  IInv'
  <2>1. Progress' /\ Opened'
    BY <1>1 DEF LoadMapper, request, driver, IInv, Progress, Opened, Early, Late
  <2>2. Context'
    BY <1>1 DEF LoadMapper, request, driver, IInv, Context, Early, Late, ReportOwn, NotNamed
  <2> QED
    BY <2>1, <2>2 DEF IInv
<1>2. ASSUME NEW s \in Statement, NEW arg, NEW p, Call(s, arg, p)
      PROVE  IInv'
  <2>1. Progress' /\ Opened'
    <3>1. calls' = calls + 1 /\ calls \in Nat /\ pc' = "lookup" /\ sent' = FALSE /\ UNCHANGED opened
      BY <1>2 DEF Call, Step, IInv, Progress
    <3>2. opened' \subseteq 1..calls' /\ calls' \notin opened'
      BY <3>1 DEF IInv, Opened
    <3>3. calls' \in Nat /\ calls' > 0
      BY <3>1
    <3>4. Progress'
      BY <3>1, <3>3 DEF Progress, Early, Late
    <3>5. Opened'
      BY <3>1, <3>2 DEF Opened, Early, Late
    <3> QED
      BY <3>4, <3>5
  <2>2. Context'
    BY <1>2 DEF Call, Step, IInv, Context, Early, Late, ReportOwn, NotNamed
  <2> QED
    BY <2>1, <2>2 DEF IInv
<1> QED
  BY <1>1, <1>2

LEMMA BeforeDriverKeeps ==
  ASSUME IInv, Found \/ GenerateKeys \/ Render \/ CacheKey \/ LookupFails
  PROVE  IInv'
<1>1. UNCHANGED <<calls, call, stmt, opened, sent>>
  BY DEF Found, GenerateKeys, Render, CacheKey, LookupFails, request, driver
<1>2. pc \in Early /\ pc' \in Early \cup {"unwind"}
  BY DEF Found, GenerateKeys, Render, CacheKey, LookupFails, Step, Throw, Early
<1>3. Progress' /\ Opened'
  BY <1>1, <1>2 DEF IInv, Progress, Opened, Early, Late
<1>4. Context'
  <2>1. CASE Found
    BY <1>1, <2>1 DEF Found, Step, Noted, IInv, Context, Late, ReportOwn, Named, NotNamed, IsSelect
  <2>2. CASE GenerateKeys
    <3>1. calls \notin opened' /\ ~IsSelect'
      BY <1>1, <2>2
         DEF GenerateKeys, IInv, Opened, Context, Early, Named, NotNamed, IsSelect
    <3>2. CASE pc' = "unwind"
      BY <1>1, <2>2, <3>1, <3>2 DEF GenerateKeys, Throw, Fresh, Context, Late, ReportOwn
    <3>3. CASE pc' = "render"
      BY <1>1, <2>2, <3>1, <3>3 DEF GenerateKeys, Throw, IInv, Context, Late, ReportOwn, Named
    <3> QED
      BY <2>2, <3>2, <3>3 DEF GenerateKeys, Throw
  <2>3. CASE Render
    BY <1>1, <2>3 DEF Render, Throw, IInv, Context, Opened, Early, Late,
       ReportOwn, Named, NotNamed, IsSelect
  <2>4. CASE LookupFails
    BY <1>1, <2>4 DEF LookupFails, Throw, IInv, Context, Opened, Early, Late, ReportOwn, Named,
       NotNamed, IsSelect
  <2>5. CASE CacheKey
    BY <1>1, <2>5 DEF CacheKey, Throw, Noted, IInv, Context, Opened, Early, Late,
       ReportOwn, Named, NotNamed, IsSelect
  <2> QED
    BY <2>1, <2>2, <2>3, <2>4, <2>5
<1> QED
  BY <1>3, <1>4 DEF IInv

LEMMA PrepareKeeps ==
  ASSUME IInv, Prepare \/ PrepareFails
  PROVE  IInv'
<1>1. CASE Prepare
  <2>1. Progress' /\ Opened'
    BY <1>1 DEF Prepare, Step, request, IInv, Progress, Opened, Early, Late
  <2>2. Context'
    BY <1>1 DEF Prepare, Step, request, IInv, Context, Late, ReportOwn, Named, NotNamed
  <2> QED
    BY <2>1, <2>2 DEF IInv
<1>2. CASE PrepareFails
  <2>1. Progress' /\ Opened'
    BY <1>2 DEF PrepareFails, Throw, request, driver, IInv, Progress, Opened, Early, Late
  <2>2. Context'
    BY <1>2 DEF PrepareFails, Throw, request, driver, IInv, Context, Opened, Early, Late,
       ReportOwn, Named, NotNamed
  <2> QED
    BY <2>1, <2>2 DEF IInv
<1> QED
  BY <1>1, <1>2

\* Past Prepare a call changes neither the ErrorContext nor what is open.
LEMMA AtDriverKeeps ==
  ASSUME IInv,
         pc \in {"parameterize"} \cup Late, pc' \in Late \cup {"unwind"},
         UNCHANGED <<calls, call, context, opened>>,
         (stmt' = calls /\ sent' \in BOOLEAN) \/ UNCHANGED <<stmt, sent>>,
         pc' = "execute" => sent' = FALSE,
         pc = "parameterize" /\ pc' # "unwind" => stmt' = calls
  PROVE  IInv'
<1>1. Progress'
  BY DEF IInv, Progress, Early, Late
<1>2. Opened'
  BY DEF IInv, Progress, Opened, Early, Late
<1>3. Context'
  BY DEF IInv, Context, Early, Late, ReportOwn, Named, NotNamed
<1> QED
  BY <1>1, <1>2, <1>3 DEF IInv

LEMMA ExecutionKeeps ==
  ASSUME IInv, Parameterize \/ ParameterizeFails \/ Execute \/ ExecuteFails
  PROVE  IInv'
<1>1. CASE Parameterize
  BY <1>1, AtDriverKeeps DEF Parameterize, Throw, request, Late, IInv, Progress
<1>2. CASE ParameterizeFails
  BY <1>2, AtDriverKeeps DEF ParameterizeFails, Throw, request, driver, Late
<1>3. CASE Execute
  BY <1>3, AtDriverKeeps DEF Execute, Step, request, Late, IInv, Opened
<1>4. CASE ExecuteFails
  BY <1>4, AtDriverKeeps DEF ExecuteFails, Throw, request, Late, IInv, Opened
<1> QED
  BY <1>1, <1>2, <1>3, <1>4

Reading ==
    \/ FirstResultSet \/ SkipRows \/ NextRow \/ RowsDone \/ NextResultSet
    \/ ReadingFails \/ RowsTakenAway \/ NextResultSetFails

LEMMA ReadingKeeps ==
  ASSUME IInv, Reading
  PROVE  IInv'
<1>1. UNCHANGED <<calls, call, context, opened, stmt, sent>>
  BY DEF Reading, FirstResultSet, SkipRows, NextRow, RowsDone, NextResultSet, ReadingFails,
     RowsTakenAway, NextResultSetFails, request, driver
<1>2. pc \in Late /\ pc # "execute" /\ pc' \in Late \cup {"unwind"} /\ pc' # "execute"
  BY DEF Reading, FirstResultSet, SkipRows, NextRow, RowsDone, NextResultSet, ReadingFails,
     RowsTakenAway, NextResultSetFails, MoreRows, Step, Throw, Late
<1>3. pc # "parameterize"
  BY <1>2 DEF Late
<1> QED
  BY <1>1, <1>2, <1>3, AtDriverKeeps

LEMMA EndKeeps ==
  ASSUME IInv, End
  PROVE  IInv'
<1>1. Progress'
  BY DEF End, IInv, Progress, Early, Late
<1>2. Opened'
  BY DEF End, IInv, Progress, Opened, Early, Late
<1>3. Context'
  BY DEF End, Fresh, Context, Late, ReportOwn, NotNamed
<1> QED
  BY <1>1, <1>2, <1>3 DEF IInv

LEMMA StutterKeeps == ASSUME IInv, UNCHANGED vars PROVE IInv'
  BY DEF vars, request, driver, IInv, Progress, Opened, Context, ReportOwn, Named, NotNamed, IsSelect

LEMMA StepIInv == IInv /\ [Next]_vars => IInv'
  BY BeginKeeps, BeforeDriverKeeps, PrepareKeeps, ExecutionKeeps, ReadingKeeps, EndKeeps,
     StutterKeeps DEF Next, Proceed, Fail, Reading

LEMMA Invariance == Spec => []IInv
  BY StepIInv, InitIInv, PTL DEF Spec

\* A call whose statement was given to execute() has closed it at its end, also if
\* this threw (finally of SimpleExecutor.doQuery and doUpdate), wherever it fails.
THEOREM LeftOpen == Spec => []OnlyUnsentStaysOpen
<1>1. IInv => OnlyUnsentStaysOpen
  BY DEF IInv, Progress, Opened, OnlyUnsentStaysOpen
<1> QED
  BY <1>1, Invariance, PTL

\* The report about a failed call names no other call's statement or SQL
\* (ErrorContext, the finally blocks of DefaultSqlSession).
THEOREM Reported == Spec => []ReportOwn
<1>1. IInv => ReportOwn
  BY DEF IInv, Context
<1> QED
  BY <1>1, Invariance, PTL

-------------------------------------------------------------------------------
(* Types *)

PageType == [offset : Nat, limit : Nat]

CallType ==
    /\ calls \in 0..MaxCalls
    /\ context \in [resource : Statement \cup {Nothing}, object : Statement \cup {Nothing},
                    sql : 0..MaxCalls]
    /\ pc = "idle" => call = NoCall
    /\ pc # "idle" => /\ call.statement \in Statement /\ call.arg \in Arguments[call.statement]
                      /\ call.page \in PageType

\* The reading of a result set stays within it.
ReadingType ==
    /\ outcome \in Seq(Nat \cup {Count}) /\ at \in Nat /\ row \in Nat
    /\ results \in Seq(Seq(Nat)) /\ cut \in BOOLEAN
    /\ pc \in {"skip", "rows"} => Rows(at)
    /\ pc = "rows" => row <= outcome[at] /\ results # <<>>

Held == stmt \in opened \cup {0} /\ (pc \in Late \cup {"parameterize"} => calls \in opened)

TInv == IInv /\ CallType /\ ReadingType /\ Held

\* The smaller of two numbers.
LEMMA LeastOfTwo ==
  ASSUME NEW a \in Int, NEW b \in Int
  PROVE  Min({a, b}) = IF a <= b THEN a ELSE b
<1>1. CASE a <= b
  <2>1. \A x \in {a, b} : (\A y \in {a, b} : x <= y) <=> x = a
    BY <1>1
  <2> QED
    BY <1>1, <2>1 DEF Min
<1>2. CASE ~(a <= b)
  <2>1. \A x \in {a, b} : (\A y \in {a, b} : x <= y) <=> x = b
    BY <1>2
  <2> QED
    BY <1>2, <2>1 DEF Min
<1> QED
  BY <1>1, <1>2

LEMMA MinOfTwo ==
  ASSUME NEW a \in Nat, NEW b \in Nat
  PROVE  Min({a, b}) \in Nat /\ Min({a, b}) <= b
<1>1. a \in Int /\ b \in Int
  OBVIOUS
<1> QED
  BY <1>1, LeastOfTwo

LEMMA EmptyTypes ==
  <<>> \in Seq(Nat) /\ <<>> \in Seq(Seq(Nat)) /\ <<>> \in Seq(Nat \cup {Count})
  OBVIOUS

LEMMA InitTInv == ASSUME Init PROVE TInv
<1>1. CallType
  BY StatementAssumption DEF Init, CallType, Fresh
<1>2. ReadingType
  <2>1. /\ outcome = <<>> /\ results = <<>> /\ at = 1 /\ row = 0 /\ cut = FALSE
        /\ pc = "idle"
    BY DEF Init
  <2>2. outcome \in Seq(Nat \cup {Count}) /\ results \in Seq(Seq(Nat))
    BY <2>1, EmptyTypes
  <2> QED
    BY <2>1, <2>2 DEF ReadingType
<1>3. Held
  BY DEF Init, Held, Late
<1> QED
  BY <1>1, <1>2, <1>3, InitIInv DEF TInv

LEMMA CallTypeKept == ASSUME TInv, Next, IInv' PROVE CallType'
<1>1. ASSUME NEW s \in Statement, LoadMapper(s)
      PROVE  CallType'
  BY <1>1 DEF LoadMapper, request, TInv, CallType
<1>2. ASSUME NEW s \in Statement, NEW arg \in Arguments[s],
             NEW p \in IF s \in Selects THEN Page ELSE {NoPage}, Call(s, arg, p)
      PROVE  CallType'
  <2>1. p \in PageType
    BY StatementAssumption DEF PageType, NoPage
  <2> QED
    BY <1>2, <2>1, StatementAssumption DEF Call, Step, TInv, CallType
<1>3. CASE pc # "idle" /\ UNCHANGED <<calls, call>> /\ pc' # "idle"
           /\ context' \in {context, Noted, Fresh, [context EXCEPT !.sql = calls]}
  <2>1. calls \in 0..MaxCalls /\ 0 \in 0..MaxCalls /\ call.statement \in Statement
    BY <1>3, StatementAssumption DEF TInv, CallType
  <2> DEFINE Type == [resource : Statement \cup {Nothing}, object : Statement \cup {Nothing},
                      sql : 0..MaxCalls]
  <2>2. context \in Type
    BY DEF TInv, CallType
  <2>3. Noted \in Type /\ Fresh \in Type /\ [context EXCEPT !.sql = calls] \in Type
    BY <2>1, <2>2 DEF Noted, Fresh
  <2>4. context' \in Type
    BY <1>3, <2>2, <2>3
  <2> QED
    BY <1>3, <2>4 DEF TInv, CallType
<1>4. CASE End
  BY <1>4, StatementAssumption DEF End, Forgotten, Fresh, TInv, CallType
<1>5. Proceed \/ Fail => End \/ (pc # "idle" /\ UNCHANGED <<calls, call>> /\ pc' # "idle"
                       /\ context' \in {context, Noted, Fresh, [context EXCEPT !.sql = calls]})
  <2>1. ASSUME \/ Found \/ GenerateKeys \/ Render \/ CacheKey \/ LookupFails
               \/ Prepare \/ PrepareFails
        PROVE  /\ pc # "idle" /\ UNCHANGED <<calls, call>> /\ pc' # "idle"
               /\ context' \in {context, Noted, Fresh, [context EXCEPT !.sql = calls]}
    BY <2>1 DEF Found, GenerateKeys, Render, CacheKey, LookupFails, Prepare, PrepareFails, Step,
       Throw, request
  <2>2. ASSUME Parameterize \/ ParameterizeFails \/ Execute \/ ExecuteFails \/ Reading
        PROVE  pc # "idle" /\ UNCHANGED <<calls, call, context>> /\ pc' # "idle"
    BY <2>2 DEF Parameterize, ParameterizeFails, Execute, ExecuteFails, Reading, FirstResultSet,
       SkipRows, NextRow, RowsDone, NextResultSet, ReadingFails, RowsTakenAway,
       NextResultSetFails, MoreRows, Step, Throw, request
  <2> QED
    BY <2>1, <2>2 DEF Proceed, Fail, Reading
<1> QED
  BY <1>1, <1>2, <1>3, <1>4, <1>5 DEF Next

LEMMA ReadingTypeKept == ASSUME TInv, Next PROVE ReadingType'
<1> USE DEF TInv
<1>1. ASSUME UNCHANGED <<outcome, at, row, results>>, cut' \in BOOLEAN,
             pc' \notin {"skip", "rows"}
      PROVE  ReadingType'
  BY <1>1 DEF ReadingType
<1>2. CASE Execute
  <2>1. outcome' \in Seq(Nat \cup {Count})
    <3>1. <<Count>> \in Seq(Nat \cup {Count})
      OBVIOUS
    <3> QED
      BY <1>2, <3>1, StatementAssumption DEF Execute
  <2>2. pc' \notin {"skip", "rows"} /\ UNCHANGED <<at, row, results, cut>>
    BY <1>2 DEF Execute, Step, reading
  <2> QED
    BY <2>1, <2>2 DEF ReadingType
<1>3. CASE FirstResultSet
  <2>1. at' \in Nat /\ UNCHANGED <<outcome, row, results, cut>> /\ pc' # "rows"
    BY <1>3 DEF FirstResultSet, Throw, driver, ReadingType
  <2>2. pc' = "skip" => Rows(at) /\ at' = at
    BY <1>3 DEF FirstResultSet, Throw
  <2> QED
    BY <2>1, <2>2 DEF ReadingType, Rows
<1>4. CASE SkipRows
  <2>1. outcome[at] \in Nat /\ call.page.offset \in Nat
    BY <1>4 DEF SkipRows, Step, ReadingType, Rows, CallType, PageType
  <2>2. row' \in Nat /\ row' <= outcome[at]
    BY <1>4, <2>1, MinOfTwo DEF SkipRows
  <2>3. results' \in Seq(Seq(Nat)) /\ results' # <<>>
    <3>1. results' = Append(results, <<>>) /\ results \in Seq(Seq(Nat)) /\ <<>> \in Seq(Nat)
      BY <1>4, EmptyTypes DEF SkipRows, ReadingType
    <3> QED
      BY <3>1, AppendProperties
  <2> QED
    BY <1>4, <2>2, <2>3 DEF SkipRows, Step, driver, ReadingType, Rows
<1>5. CASE NextRow
  <2>1. row' \in Nat /\ row' <= outcome[at]
    BY <1>5 DEF NextRow, MoreRows, ReadingType, Rows
  <2>2. results' \in Seq(Seq(Nat)) /\ results' # <<>>
    BY <1>5 DEF NextRow, MoreRows, ReadingType
  <2> QED
    BY <1>5, <2>1, <2>2 DEF NextRow, driver, ReadingType, Rows
<1>6. CASE NextResultSet
  <2>1. at' \in Nat /\ UNCHANGED <<outcome, row, results, cut>> /\ pc' # "rows"
    BY <1>6 DEF NextResultSet, driver, ReadingType
  <2>2. pc' = "skip" => Rows(at')
    BY <1>6 DEF NextResultSet
  <2> QED
    BY <2>1, <2>2 DEF ReadingType, Rows
<1>7. CASE End
  <2>1. /\ outcome' = <<>> /\ results' = <<>> /\ at' = 1 /\ row' = 0 /\ cut' = FALSE
        /\ pc' = "idle"
    BY <1>7 DEF End, Forgotten
  <2>2. outcome' \in Seq(Nat \cup {Count}) /\ results' \in Seq(Seq(Nat))
    BY <2>1, EmptyTypes
  <2> QED
    BY <2>1, <2>2 DEF ReadingType
<1>8. CASE RowsDone \/ ReadingFails \/ RowsTakenAway \/ NextResultSetFails \/ Parameterize
           \/ ParameterizeFails \/ ExecuteFails
  BY <1>1, <1>8 DEF RowsDone, ReadingFails, RowsTakenAway, NextResultSetFails, Parameterize,
     ParameterizeFails, ExecuteFails, Step, Throw, driver, reading, ReadingType
<1>9. CASE Found \/ GenerateKeys \/ Render \/ CacheKey \/ LookupFails \/ Prepare \/ PrepareFails
  BY <1>1, <1>9 DEF Found, GenerateKeys, Render, CacheKey, LookupFails, Prepare, PrepareFails,
     Step, Throw, driver, reading, ReadingType
<1>10. ASSUME NEW s, NEW arg, NEW p, LoadMapper(s) \/ Call(s, arg, p)
       PROVE  ReadingType'
  BY <1>1, <1>10 DEF LoadMapper, Call, Step, driver, reading, ReadingType
<1> QED
  BY <1>2, <1>3, <1>4, <1>5, <1>6, <1>7, <1>8, <1>9, <1>10 DEF Next, Proceed, Fail

LEMMA HeldKept == ASSUME TInv, Next PROVE Held'
<1> USE DEF TInv, Held, Late
<1>1. CASE Prepare
  BY <1>1 DEF Prepare, Step, request
<1>2. CASE Parameterize
  BY <1>2 DEF Parameterize, Throw, request
<1>3. CASE End
  BY <1>3 DEF End
<1>4. CASE Execute \/ ExecuteFails \/ ParameterizeFails
  BY <1>4 DEF Execute, ExecuteFails, ParameterizeFails, Step, Throw, request, driver
<1>5. CASE Reading
  BY <1>5 DEF Reading, FirstResultSet, SkipRows, NextRow, RowsDone, NextResultSet, ReadingFails,
     RowsTakenAway, NextResultSetFails, MoreRows, Step, Throw, request, driver
<1>6. CASE Found \/ GenerateKeys \/ Render \/ CacheKey \/ LookupFails \/ PrepareFails
  BY <1>6 DEF Found, GenerateKeys, Render, CacheKey, LookupFails, PrepareFails, Step, Throw,
     request, driver
<1>7. ASSUME NEW s, NEW arg, NEW p, LoadMapper(s) \/ Call(s, arg, p)
      PROVE  Held'
  BY <1>7 DEF LoadMapper, Call, Step, request, driver
<1> QED
  BY <1>1, <1>2, <1>3, <1>4, <1>5, <1>6, <1>7 DEF Next, Proceed, Fail, Reading

LEMMA TInvHasTypes == ASSUME TInv PROVE TypeOK
<1>1. opened \in SUBSET (1..MaxCalls)
  BY StatementAssumption DEF TInv, IInv, Progress, Opened, CallType
<1>2. pc \in {"first", "skip", "rows", "more", "return"} => stmt = calls
  BY DEF TInv, IInv, Opened, Late
<1>3. pc \in {"idle", "lookup", "keys", "render", "key", "prepare", "parameterize", "execute",
              "first", "skip", "rows", "more", "return", "unwind"}
  BY DEF TInv, IInv, Progress, Early, Late
<1> QED
  BY <1>1, <1>2, <1>3 DEF TInv, CallType, ReadingType, Held, TypeOK

LEMMA StepTInv == TInv /\ [Next]_vars => TInv'
<1>1. ASSUME TInv, Next
      PROVE  TInv'
  <2>1. IInv'
    BY <1>1, StepIInv DEF TInv
  <2> QED
    BY <1>1, <2>1, CallTypeKept, ReadingTypeKept, HeldKept DEF TInv
<1>2. ASSUME TInv, UNCHANGED vars
      PROVE  TInv'
  <2>1. IInv'
    BY <1>2, StepIInv DEF TInv
  <2>2. CallType' /\ ReadingType' /\ Held'
    BY <1>2 DEF vars, request, driver, reading, TInv, CallType, ReadingType, Held, Rows
  <2> QED
    BY <2>1, <2>2 DEF TInv
<1> QED
  BY <1>1, <1>2

\* Type correctness; with it, a row is never read beyond its result set.
THEOREM TypeCorrect == Spec => []TypeOK
  BY StepTInv, InitTInv, TInvHasTypes, PTL DEF Spec

-------------------------------------------------------------------------------
(* The parameters *)

\* A call keeps the SQL rendered for it, and the values its names have for it.
OwnText(r) ==
    /\ r \in Sql /\ r.statement = call.statement /\ r.arg = call.arg
    /\ bound = Parsed(r.is)
OwnValues == values = ParameterValues

Filled == pc \in Late \/ (pc = "unwind" /\ sent = TRUE)

ParametersKept ==
    /\ Filled \/ pc \in {"key", "prepare", "parameterize"} => \E r \in Sql : OwnText(r)
    /\ Filled => OwnValues

\* Element i of a text that is a parameter is, as a ?, as many from the left as the
\* mappings say.
LEMMA ParsedPlaces ==
  ASSUME NEW text, text.sql \in Seq(Range(text.sql)), Mark \notin Range(text.sql),
         NEW parsed, parsed = Parsed(text), NEW i \in 0..Len(text.sql),
         NEW k, k = Cardinality({j \in 1..i : parsed.sql[j] = Mark})
  PROVE  /\ i = Len(text.sql) => k = Len(parsed.mappings)
         /\ i > 0 => IF IsParam(text.sql[i])
                     THEN /\ parsed.sql[i] = Mark
                          /\ k \in 1..Len(parsed.mappings)
                          /\ parsed.mappings[k] = text.sql[i]
                     ELSE parsed.sql[i] = text.sql[i]
<1> DEFINE s == text.sql
           S == Range(s)
           T == {l \in S : IsParam(l)}
           I == {j \in 1..i : s[j] \in T}
<1>1. s \in Seq(S) /\ Len(s) \in Nat /\ DOMAIN s = 1..Len(s)
  BY LenProperties
<1>2. \A j \in 1..Len(s) : s[j] \in S /\ s[j] # Mark /\ (s[j] \in T <=> IsParam(s[j]))
  BY <1>1 DEF Range
<1>3. /\ parsed.sql = [j \in 1..Len(s) |-> IF IsParam(s[j]) THEN Mark ELSE s[j]]
      /\ parsed.mappings = Keep(s, T)
  BY <1>1 DEF Parsed
<1>4. {j \in 1..i : parsed.sql[j] = Mark} = I
  BY <1>1, <1>2, <1>3
<1>5. k = Cardinality(I)
  BY <1>4
<1>6. Cardinality(I) = Len(Keep(SubSeq(s, 1, i), T))
  <2> HIDE DEF s, S, T
  <2>1. i \in 0..Len(s)
    BY DEF s
  <2> QED
    BY <1>1, <2>1, KeepCounts
<1> HIDE DEF S, T, I
<1>7. ASSUME i = Len(s)
      PROVE  Cardinality(I) = Len(parsed.mappings)
  <2>1. SubSeq(s, 1, i) = s
    BY <1>1, <1>7
  <2> QED
    BY <1>3, <1>6, <2>1
<1>8. ASSUME i > 0, IsParam(s[i])
      PROVE  /\ parsed.sql[i] = Mark
             /\ Cardinality(I) \in 1..Len(parsed.mappings)
             /\ parsed.mappings[Cardinality(I)] = s[i]
  <2>1. i \in 1..Len(s)
    BY <1>1, <1>8
  <2>2. s[i] \in T /\ parsed.sql[i] = Mark
    BY <1>2, <1>3, <1>8, <2>1
  <2> HIDE DEF s
  <2> QED
    BY <1>1, <1>3, <1>6, <2>1, <2>2, KeepPosition
<1>9. ASSUME i > 0, ~IsParam(s[i])
      PROVE  parsed.sql[i] = s[i]
  <2>1. i \in 1..Len(s)
    BY <1>1, <1>9
  <2> QED
    BY <1>3, <1>9, <2>1
<1> QED
  BY <1>5, <1>7, <1>8, <1>9 DEF s

LEMMA StepParameters == ASSUME IInv, ParametersKept, [Next]_vars PROVE ParametersKept'
<1>1. CASE Render
  <2>1. PICK r \in Sql : r.statement = call.statement /\ r.arg = call.arg /\ bound' = Parsed(r.is)
    BY <1>1 DEF Render
  <2>2. /\ call' = call /\ pc' \in {"key", "prepare", "unwind"} /\ sent' = FALSE
        /\ Sql' = Sql
    BY <1>1 DEF Render, Throw, request, driver, IInv, Progress, Early, Sql
  <2>3. OwnText(r)'
    BY <2>1, <2>2 DEF OwnText
  <2> QED
    BY <2>2, <2>3 DEF ParametersKept, Filled, Late
<1>2. CASE Parameterize
  <2>1. /\ pc = "parameterize" /\ pc' \in {"execute", "unwind"} /\ bound' = bound /\ call' = call
        /\ sent' = FALSE
    BY <1>2 DEF Parameterize, Throw, request, IInv, Progress
  <2>2. pc' = "execute" => OwnValues'
    BY <1>2, <2>1 DEF Parameterize, Throw, OwnValues, ParameterValues
  <2>3. PICK r \in Sql : OwnText(r)
    BY <2>1 DEF ParametersKept
  <2>4. OwnText(r)'
    BY <2>1, <2>3 DEF OwnText, Sql
  <2> QED
    BY <2>1, <2>2, <2>3, <2>4 DEF ParametersKept, Sql, Filled, Late
<1>3. ASSUME \/ End \/ LookupFails \/ Found \/ GenerateKeys
             \/ \E s \in Statement : LoadMapper(s)
             \/ \E s \in Statement : \E arg \in Arguments[s] :
                    \E page \in IF s \in Selects THEN Page ELSE {NoPage} : Call(s, arg, page)
      PROVE  ParametersKept'
  <2>1. pc' \notin {"key", "prepare", "parameterize"} /\ ~Filled'
    BY <1>3 DEF End, LookupFails, Found, GenerateKeys, LoadMapper, Call, Step, Throw, Late,
                Filled, driver, IInv, Progress, Early
  <2> QED
    BY <2>1 DEF ParametersKept
<1>4. ASSUME /\ UNCHANGED <<call, bound, values>>
             /\ Filled \/ pc \in {"key", "prepare", "parameterize"}
             /\ Filled' => Filled
      PROVE  ParametersKept'
  <2>1. PICK r \in Sql : OwnText(r)
    BY <1>4 DEF ParametersKept
  <2>2. OwnText(r)' /\ Sql' = Sql
    BY <1>4, <2>1 DEF OwnText, Sql
  <2>3. OwnValues => OwnValues'
    BY <1>4 DEF OwnValues, ParameterValues
  <2> QED
    BY <1>4, <2>1, <2>2, <2>3 DEF ParametersKept
<1>5. CASE CacheKey \/ PrepareFails \/ Prepare \/ ParameterizeFails
  <2>1. /\ UNCHANGED <<call, bound, values>> /\ pc \in {"key", "prepare", "parameterize"}
        /\ pc' \in {"prepare", "parameterize", "unwind"} /\ sent' = FALSE
    BY <1>5 DEF CacheKey, PrepareFails, Prepare, ParameterizeFails, Step, Throw, request, driver,
                IInv, Progress, Early
  <2> QED
    BY <1>4, <2>1 DEF Filled, Late
<1>6. CASE \/ Execute \/ ExecuteFails \/ FirstResultSet \/ SkipRows \/ NextRow \/ ReadingFails
           \/ RowsTakenAway \/ RowsDone \/ NextResultSet \/ NextResultSetFails
  <2>1. UNCHANGED <<call, bound, values>> /\ pc \in Late
    BY <1>6 DEF Execute, ExecuteFails, FirstResultSet, SkipRows, NextRow, ReadingFails,
                RowsTakenAway, RowsDone, NextResultSet, NextResultSetFails, MoreRows, Step, request,
                driver, Late
  <2> QED
    BY <1>4, <2>1 DEF Filled
<1>7. CASE UNCHANGED vars
  BY <1>7 DEF vars, request, driver, ParametersKept, Filled, OwnText, OwnValues, Sql, ParameterValues
<1> QED
  BY <1>1, <1>2, <1>3, <1>5, <1>6, <1>7 DEF Next, Proceed, Fail

LEMMA ParametersInPlace == ASSUME IInv, ParametersKept PROVE ValuesInPlace
<1> SUFFICES ASSUME sent, pc # "idle"
             PROVE  \E r \in Sql :
                        LET text == r.is.sql
                        IN  /\ r.statement = call.statement /\ r.arg = call.arg
                            /\ Len(bound.sql) = Len(text)
                            /\ Mark \notin Range(text) =>
                                /\ Len(values) = Marks(Len(text))
                                /\ \A i \in 1..Len(text) :
                                    IF IsParam(text[i])
                                    THEN /\ bound.sql[i] = Mark
                                         /\ values[Marks(i)] = Value(bound, call.arg, text[i])
                                    ELSE bound.sql[i] = text[i]
  BY DEF ValuesInPlace
<1>1. Filled
  BY DEF IInv, Progress, Filled, Early, Late
<1>2. PICK r \in Sql : OwnText(r)
  BY <1>1 DEF ParametersKept
<1>3. OwnValues
  BY <1>1 DEF ParametersKept
<1> DEFINE text == r.is.sql
           m == bound.mappings
<1>4. /\ r.statement = call.statement /\ r.arg = call.arg /\ bound = Parsed(r.is)
      /\ text \in Seq(Range(text))
  BY <1>2, StatementAssumption DEF OwnText, Sql
<1>5. Len(bound.sql) = Len(text)
  BY <1>4, LenProperties DEF Parsed
<1>6. Len(values) = Len(m) /\ \A k \in 1..Len(m) : values[k] = Value(bound, call.arg, m[k])
  <2>1. m = Keep(text, {l \in Range(text) : IsParam(l)})
    BY <1>4 DEF Parsed
  <2>2. m \in Seq(Range(text))
    BY <1>4, <2>1, KeepType
  <2>3. Len(m) \in Nat /\ DOMAIN m = 1..Len(m)
    BY <2>2, LenProperties
  <2> HIDE DEF m
  <2> QED
    BY <1>3, <2>3 DEF OwnValues, ParameterValues, m
<1>7. ASSUME Mark \notin Range(text), NEW i \in 0..Len(text)
      PROVE  /\ i = Len(text) => Marks(i) = Len(m)
             /\ i > 0 => IF IsParam(text[i])
                         THEN /\ bound.sql[i] = Mark /\ Marks(i) \in 1..Len(m)
                              /\ m[Marks(i)] = text[i]
                         ELSE bound.sql[i] = text[i]
  <2> DEFINE is == r.is
  <2>1. /\ bound = Parsed(is) /\ is.sql \in Seq(Range(is.sql)) /\ Mark \notin Range(is.sql)
        /\ i \in 0..Len(is.sql)
    BY <1>4, <1>7
  <2>2. text = is.sql
    OBVIOUS
  <2> HIDE DEF is, text
  <2>3. Marks(i) = Cardinality({k \in 1..i : bound.sql[k] = Mark})
    BY DEF Marks
  <2> QED
    BY <2>1, <2>2, <2>3, ParsedPlaces
<1>8. Len(text) \in Nat
  BY <1>4, LenProperties
<1> HIDE DEF text, m
<1>9. ASSUME Mark \notin Range(text)
      PROVE  /\ Len(values) = Marks(Len(text))
             /\ \A i \in 1..Len(text) :
                  IF IsParam(text[i])
                  THEN bound.sql[i] = Mark /\ values[Marks(i)] = Value(bound, call.arg, text[i])
                  ELSE bound.sql[i] = text[i]
  <2>1. Len(values) = Marks(Len(text))
    BY <1>6, <1>7, <1>8, <1>9
  <2>2. ASSUME NEW i \in 1..Len(text)
        PROVE  IF IsParam(text[i])
               THEN bound.sql[i] = Mark /\ values[Marks(i)] = Value(bound, call.arg, text[i])
               ELSE bound.sql[i] = text[i]
    <3>1. i \in 0..Len(text) /\ i > 0
      BY <1>8
    <3> QED
      BY <1>6, <1>7, <1>9, <3>1
  <2> QED
    BY <2>1, <2>2
<1> QED
  BY <1>4, <1>5, <1>9 DEF text

\* The values of a statement's parameters are at their places in the SQL, whatever
\* SQL is rendered (SqlSourceBuilder, DefaultParameterHandler.setParameters).
THEOREM InPlace == Spec => []ValuesInPlace
<1>1. Init => IInv /\ ParametersKept
  <2>1. Init => ParametersKept
    BY DEF Init, ParametersKept, Filled, Late
  <2> QED
    BY <2>1, InitIInv
<1>2. IInv /\ ParametersKept /\ [Next]_vars => (IInv /\ ParametersKept)'
  BY StepIInv, StepParameters
<1>3. IInv /\ ParametersKept => ValuesInPlace
  BY ParametersInPlace
<1> QED
  BY <1>1, <1>2, <1>3, PTL DEF Spec

-------------------------------------------------------------------------------
(* The pages *)

\* The result sets among the first j answers of the driver.
Passed(j) == Keep(SubSeq(outcome, 1, j), Nat)

\* The first n of the rows read are the pages of these result sets, or a
\* beginning of them once the driver took something away.
RightUpTo(n, sets) ==
    \A k \in 1..n : /\ IsPrefix(results[k], PageOf(call.page, sets[k]))
                    /\ ~cut => results[k] = PageOf(call.page, sets[k])

\* The rows of the current result set, read so far; where the cursor stands
\* tells how many they are.
CurrentRight(n, read) ==
    /\ Len(read) <= call.page.limit
    /\ read = [j \in 1..Len(read) |-> call.page.offset + j]
    /\ row = Min({call.page.offset, n}) + Len(read)
    /\ read # <<>> => call.page.offset < n

\* Nothing has been read before the first result set is found.
Unread == results = <<>> /\ cut = FALSE

Finished ==
    \E j \in 0..Len(outcome) :
        /\ Len(results) = Len(Passed(j)) /\ Len(results) <= Limit
        /\ RightUpTo(Len(results), Passed(j))
        /\ cut \/ Len(results) = Limit \/ j = Len(outcome)

PagesKept ==
    /\ at \in 1..(Len(outcome) + 1)
    /\ pc \in {"idle", "parameterize", "execute", "first"} \cup Early => Unread
    /\ pc \in {"idle", "parameterize", "execute"} \cup Early => at = 1
    /\ pc = "first" => Passed(at - 1) = <<>>
    /\ pc = "skip" => /\ Len(results) < Limit /\ Len(results) = Len(Passed(at - 1))
                      /\ RightUpTo(Len(results), Passed(at - 1))
    /\ pc = "rows" => /\ results # <<>> /\ Len(results) <= Limit
                      /\ Len(results) = Len(Passed(at))
                      /\ RightUpTo(Len(results) - 1, Passed(at))
                      /\ CurrentRight(outcome[at], results[Len(results)])
    /\ pc = "more" => /\ at <= Len(outcome) /\ Len(results) <= Limit
                      /\ Len(results) = Len(Passed(at))
                      /\ RightUpTo(Len(results), Passed(at))
    /\ pc = "return" /\ IsSelect => Finished

\* The larger of two numbers.
LEMMA GreatestOfTwo ==
  ASSUME NEW a \in Int, NEW b \in Int
  PROVE  Max({a, b}) = IF b <= a THEN a ELSE b
<1>1. CASE b <= a
  <2>1. \A x \in {a, b} : (\A y \in {a, b} : x >= y) <=> x = a
    BY <1>1
  <2> QED
    BY <1>1, <2>1 DEF Max
<1>2. CASE ~(b <= a)
  <2>1. \A x \in {a, b} : (\A y \in {a, b} : x >= y) <=> x = b
    BY <1>2
  <2> QED
    BY <1>2, <2>1 DEF Max
<1> QED
  BY <1>1, <1>2

\* What has been read of a result set is a beginning of its page, and all of it
\* when there is nothing more to read.
LEMMA CurrentIsPage ==
  ASSUME call.page \in PageType, NEW n \in Nat, row <= n,
         NEW read \in Seq(Nat), CurrentRight(n, read)
  PROVE  /\ PageOf(call.page, n) \in Seq(Nat) /\ IsPrefix(read, PageOf(call.page, n))
         /\ ~(Len(read) < call.page.limit /\ row < n) => read = PageOf(call.page, n)
<1> DEFINE o == call.page.offset
           l == call.page.limit
           c == Len(read)
           m == Max({0, Min({l, n - o})})
           whole == [j \in 1..m |-> o + j]
<1>1. o \in Nat /\ l \in Nat /\ c \in Nat
  BY LenProperties DEF PageType
<1>2. /\ c <= l /\ read = [j \in 1..c |-> o + j] /\ row = Min({o, n}) + c
      /\ c # 0 => o < n
  <2>1. c # 0 => read # <<>>
    OBVIOUS
  <2> QED
    BY <2>1 DEF CurrentRight
<1>3. m = IF n <= o THEN 0 ELSE IF l <= n - o THEN l ELSE n - o
  <2>1. Min({l, n - o}) = IF l <= n - o THEN l ELSE n - o
    <3>1. l \in Int /\ n - o \in Int
      BY <1>1
    <3> QED
      BY <3>1, LeastOfTwo
  <2>2. Min({l, n - o}) \in Int
    BY <1>1, <2>1
  <2>3. m = IF Min({l, n - o}) <= 0 THEN 0 ELSE Min({l, n - o})
    <3> DEFINE k == Min({l, n - o})
    <3>1. k \in Int /\ 0 \in Int
      BY <2>2
    <3> HIDE DEF k
    <3>2. Max({0, k}) = IF k <= 0 THEN 0 ELSE k
      BY <3>1, GreatestOfTwo
    <3> QED
      BY <3>2 DEF k
  <2> HIDE DEF o, l, m
  <2> QED
    BY <1>1, <2>1, <2>3
<1>4. Min({o, n}) = IF o <= n THEN o ELSE n
  BY <1>1, LeastOfTwo
<1> HIDE DEF o, l, c, m
<1>5. m \in Nat /\ c <= m
  BY <1>1, <1>2, <1>3, <1>4
<1>6. whole \in Seq(Nat) /\ Len(whole) = m
  BY <1>1, <1>5
<1>7. IsPrefix(read, whole)
  <2>1. ASSUME NEW i \in 1..c
        PROVE  read[i] = whole[i]
    <3>1. i \in 1..m
      BY <1>1, <1>5
    <3>2. read[i] = o + i
      BY <1>2
    <3> QED
      BY <3>1, <3>2
  <2> QED
    BY <1>5, <1>6, <2>1, IsPrefixProperties DEF c
<1>8. ~(c < l /\ row < n) => c = m
  BY <1>1, <1>2, <1>3, <1>4
<1>9. ~(c < l /\ row < n) => read = whole
  BY <1>2, <1>8
<1> QED
  BY <1>6, <1>7, <1>9 DEF PageOf, o, l, c, m

Start == {"idle", "parameterize", "execute"} \cup Early

LEMMA InitPages == ASSUME Init PROVE PagesKept
<1>1. pc = "idle" /\ outcome = <<>> /\ at = 1 /\ results = <<>> /\ cut = FALSE
  BY DEF Init
<1> QED
  BY <1>1 DEF PagesKept, Unread, Early

LEMMA BeforeReadingPages ==
  ASSUME PagesKept, pc \in Start, pc' \in Start \cup {"unwind"},
         UNCHANGED <<outcome, at, results, cut>>
  PROVE  PagesKept'
BY DEF PagesKept, Unread, Start, Early

LEMMA UnwindPages ==
  ASSUME PagesKept, pc' = "unwind", UNCHANGED <<outcome, at>>
  PROVE  PagesKept'
BY DEF PagesKept, Early

LEMMA EndPages ==
  ASSUME End
  PROVE  PagesKept'
<1>1. pc' = "idle" /\ outcome' = <<>> /\ at' = 1 /\ results' = <<>> /\ cut' = FALSE
  BY DEF End, Forgotten
<1> QED
  BY <1>1 DEF PagesKept, Unread, Early

\* What is passed with the answer at the position k.
LEMMA PassedStep ==
  ASSUME outcome \in Seq(Nat \cup {Count}), NEW k \in 1..Len(outcome)
  PROVE  /\ Passed(k) = IF Rows(k) THEN Append(Passed(k - 1), outcome[k]) ELSE Passed(k - 1)
         /\ Rows(k) => outcome[k] \in Nat
         /\ Passed(k) \in Seq(Nat \cup {Count}) /\ Passed(k - 1) \in Seq(Nat \cup {Count})
<1> DEFINE S == Nat \cup {Count}
<1>1. Len(outcome) \in Nat /\ \A i \in 1..Len(outcome) : outcome[i] \in S
  BY LenProperties, ElementOfSeq
<1>2. Rows(k) <=> outcome[k] \in Nat
  BY <1>1, StatementAssumption DEF Rows
<1>3. Keep(SubSeq(outcome, 1, k), Nat) =
         IF outcome[k] \in Nat THEN Append(Keep(SubSeq(outcome, 1, k - 1), Nat), outcome[k])
         ELSE Keep(SubSeq(outcome, 1, k - 1), Nat)
  <2> HIDE DEF S
  <2> QED
    BY KeepBeginning DEF S
<1>4. SubSeq(outcome, 1, k) \in Seq(S) /\ SubSeq(outcome, 1, k - 1) \in Seq(S)
  BY <1>1
<1>5. Passed(k) \in Seq(S) /\ Passed(k - 1) \in Seq(S)
  <2> HIDE DEF S
  <2> QED
    BY <1>4, KeepType DEF Passed
<1> QED
  BY <1>2, <1>3, <1>5 DEF Passed

LEMMA ExecutePages ==
  ASSUME TInv, PagesKept, TInv', Execute
  PROVE  PagesKept'
<1>1. at' = 1 /\ Unread' /\ pc' = (IF IsSelect THEN "first" ELSE "return") /\ UNCHANGED call
  BY DEF Execute, Step, reading, request, PagesKept, Unread
<1>2. at' \in 1..(Len(outcome') + 1)
  <2>1. outcome' \in Seq(Nat \cup {Count})
    BY DEF TInv, ReadingType
  <2> QED
    BY <1>1, <2>1, LenProperties
<1>3. CASE IsSelect
  <2>1. Passed(at - 1)' = <<>>
    <3>1. at' - 1 = 0 /\ SubSeq(outcome', 1, 0) = <<>>
      BY <1>1, SubSeqEmpty
    <3> QED
      BY <3>1, KeepEmpty DEF Passed
  <2> QED
    BY <1>1, <1>2, <1>3, <2>1 DEF PagesKept, Early
<1>4. CASE ~IsSelect
  BY <1>1, <1>2, <1>4 DEF PagesKept, IsSelect, Early
<1> QED
  BY <1>3, <1>4

LEMMA FirstResultSetPages ==
  ASSUME TInv, PagesKept, FirstResultSet
  PROVE  PagesKept'
<1>1. /\ pc = "first" /\ UNCHANGED <<outcome, call, results, cut>> /\ Unread
      /\ Passed(at - 1) = <<>> /\ outcome \in Seq(Nat \cup {Count})
      /\ at \in 1..(Len(outcome) + 1) /\ Len(outcome) \in Nat
  BY LenProperties
     DEF FirstResultSet, request, driver, PagesKept, TInv, ReadingType
<1>2. Limit \in Nat
  BY <1>1, StatementAssumption DEF TInv, CallType, Limit
<1>3. CASE Rows(at)
  <2>1. CASE pc' = "unwind"
    BY <1>1, <1>3, <2>1, UnwindPages DEF FirstResultSet
  <2>2. CASE pc' # "unwind"
    <3>1. pc' = "skip" /\ at' = at /\ Limit # 0
      BY <1>3, <2>2 DEF FirstResultSet, Throw
    <3>2. Passed(at - 1)' = Passed(at - 1) /\ Limit' = Limit
      BY <1>1, <3>1 DEF Passed, Limit
    <3>3. Len(results') = 0 /\ Len(<<>>) = 0
      BY <1>1 DEF Unread
    <3> QED
      BY <1>1, <1>2, <3>1, <3>2, <3>3 DEF PagesKept, RightUpTo, Early
  <2> QED
    BY <2>1, <2>2
<1>4. CASE ~Rows(at) /\ at > Len(outcome)
  <2>1. pc' = "return" /\ at' = at /\ at - 1 = Len(outcome)
    BY <1>1, <1>4 DEF FirstResultSet
  <2>2. Passed(Len(outcome))' = <<>> /\ Limit' = Limit
    BY <1>1, <2>1 DEF Passed, Limit
  <2>3. Len(results') = 0 /\ Len(<<>>) = 0
    BY <1>1 DEF Unread
  <2>4. Finished'
    BY <1>1, <1>2, <2>2, <2>3 DEF Finished, RightUpTo
  <2> QED
    BY <1>1, <2>1, <2>4 DEF PagesKept, Early
<1>5. CASE ~Rows(at) /\ ~(at > Len(outcome))
  <2>1. pc' = "first" /\ at' = at + 1 /\ at \in 1..Len(outcome) /\ at' - 1 = at
    BY <1>1, <1>5 DEF FirstResultSet
  <2>2. Passed(at) = <<>>
    BY <1>1, <1>5, <2>1, PassedStep
  <2>3. Passed(at - 1)' = <<>>
    BY <1>1, <2>1, <2>2 DEF Passed
  <2> QED
    BY <1>1, <2>1, <2>3 DEF PagesKept, Unread, Early
<1> QED
  BY <1>3, <1>4, <1>5

LEMMA SkipRowsPages ==
  ASSUME TInv, PagesKept, SkipRows
  PROVE  PagesKept'
<1> DEFINE S == Nat \cup {Count}
           n == Len(results)
<1>1. /\ pc = "skip" /\ pc' = "rows" /\ UNCHANGED <<outcome, call, at, cut>>
      /\ results' = Append(results, <<>>) /\ results \in Seq(Seq(Nat))
      /\ row' = Min({call.page.offset, outcome[at]})
      /\ Rows(at) /\ outcome \in Seq(S) /\ call.page \in PageType
  BY DEF SkipRows, Step, request, driver, TInv, ReadingType, CallType
<1>2. at \in 1..Len(outcome) /\ at \in 1..(Len(outcome) + 1)
  BY <1>1 DEF Rows
<1>3. /\ Passed(at) = Append(Passed(at - 1), outcome[at]) /\ outcome[at] \in Nat
      /\ Passed(at) \in Seq(S) /\ Passed(at - 1) \in Seq(S) /\ outcome[at] \in S
  BY <1>1, <1>2, PassedStep
<1>4. /\ n < Limit /\ n = Len(Passed(at - 1)) /\ RightUpTo(n, Passed(at - 1)) /\ n \in Nat
      /\ Limit \in Nat
  BY <1>1, LenProperties, StatementAssumption DEF PagesKept, TInv, CallType, Limit
<1>5. /\ Len(results') = n + 1 /\ results'[n + 1] = <<>> /\ results' # <<>>
      /\ \A k \in 1..n : results'[k] = results[k]
  <2> DEFINE V == Seq(Nat)
             empty == <<>>
  <2>1. results \in Seq(V) /\ empty \in V /\ results' = Append(results, empty)
    BY <1>1
  <2> HIDE DEF V, empty
  <2> QED
    BY <2>1, AppendProperties DEF empty
<1>6. Len(Passed(at)) = n + 1 /\ \A k \in 1..n : Passed(at)[k] = Passed(at - 1)[k]
  BY <1>3, <1>4, AppendProperties
<1>7. Passed(at)' = Passed(at) /\ Limit' = Limit
  BY <1>1 DEF Passed, Limit
<1>8. RightUpTo(Len(results) - 1, Passed(at))'
  <2>1. \A k \in 1..n : /\ IsPrefix(results'[k], PageOf(call.page, Passed(at)[k]))
                        /\ ~cut' => results'[k] = PageOf(call.page, Passed(at)[k])
    BY <1>1, <1>4, <1>5, <1>6 DEF RightUpTo
  <2>2. Len(results') - 1 = n
    BY <1>4, <1>5
  <2> QED
    BY <1>1, <1>7, <2>1, <2>2 DEF RightUpTo
<1>9. CurrentRight(outcome[at], results[Len(results)])'
  <2>1. results'[Len(results')] = <<>> /\ Len(<<>>) = 0 /\ <<>> = [j \in 1..0 |-> call'.page.offset + j]
    BY <1>5
  <2>2. call'.page.limit \in Nat /\ row' \in Nat /\ row' = Min({call'.page.offset, outcome'[at']})
    BY <1>1, <1>3, MinOfTwo DEF PageType
  <2> QED
    BY <2>1, <2>2 DEF CurrentRight
<1>10. Len(results') <= Limit' /\ Len(results') = Len(Passed(at)')
  BY <1>4, <1>5, <1>6, <1>7
<1> QED
  BY <1>1, <1>2, <1>5, <1>8, <1>9, <1>10 DEF PagesKept, Early

LEMMA NextRowPages ==
  ASSUME TInv, PagesKept, NextRow
  PROVE  PagesKept'
<1> DEFINE n == Len(results)
           read == results[n]
           o == call.page.offset
<1>1. /\ pc = "rows" /\ pc' = "rows" /\ UNCHANGED <<outcome, call, at, cut>>
      /\ results' = [results EXCEPT ![n] = Append(@, row + 1)] /\ row' = row + 1
      /\ Len(read) < call.page.limit /\ row < outcome[at]
      /\ results \in Seq(Seq(Nat)) /\ results # <<>> /\ row \in Nat
      /\ call.page \in PageType /\ Rows(at) /\ outcome \in Seq(Nat \cup {Count})
      /\ at \in 1..(Len(outcome) + 1)
  BY DEF NextRow, MoreRows, request, driver, PagesKept, TInv, ReadingType, CallType
<1>2. n \in Nat /\ n \in 1..n /\ read \in Seq(Nat) /\ Len(read) \in Nat
  <2>1. n \in Nat /\ n \in 1..n
    BY <1>1
  <2> QED
    BY <1>1, <2>1, ElementOfSeq, LenProperties
<1>3. /\ Len(results') = n /\ results' # <<>> /\ results'[n] = Append(read, row + 1)
      /\ \A k \in 1..(n - 1) : results'[k] = results[k]
  BY <1>1, <1>2
<1>4. /\ n <= Limit /\ n = Len(Passed(at)) /\ RightUpTo(n - 1, Passed(at))
      /\ CurrentRight(outcome[at], read)
  BY <1>1 DEF PagesKept
<1>5. Passed(at)' = Passed(at) /\ Limit' = Limit
  BY <1>1 DEF Passed, Limit
<1>6. RightUpTo(Len(results) - 1, Passed(at))'
  <2>1. \A k \in 1..(n - 1) : /\ IsPrefix(results'[k], PageOf(call.page, Passed(at)[k]))
                              /\ ~cut' => results'[k] = PageOf(call.page, Passed(at)[k])
    BY <1>1, <1>3, <1>4 DEF RightUpTo
  <2> QED
    BY <1>1, <1>3, <1>5, <2>1 DEF RightUpTo
<1>7. outcome[at] \in Nat /\ o \in Nat /\ call.page.limit \in Nat
  BY <1>1 DEF TInv, ReadingType, Rows, PageType
<1>8. o < outcome[at] /\ row = o + Len(read)
  <2>1. Min({o, outcome[at]}) = IF o <= outcome[at] THEN o ELSE outcome[at]
    <3>1. \A x \in {o, outcome[at]} : (\A y \in {o, outcome[at]} : x <= y)
                                        <=> x = IF o <= outcome[at] THEN o ELSE outcome[at]
      BY <1>7
    <3> QED
      BY <1>7, <3>1 DEF Min
  <2>2. row = Min({o, outcome[at]}) + Len(read) /\ (read # <<>> => o < outcome[at])
    BY <1>4 DEF CurrentRight
  <2>3. read = <<>> => Len(read) = 0
    OBVIOUS
  <2>4. row < outcome[at] /\ row \in Nat /\ Len(read) \in Nat /\ outcome[at] \in Nat /\ o \in Nat
    BY <1>1, <1>2, <1>7
  <2> HIDE DEF o, read
  <2>5. CASE o < outcome[at]
    BY <2>1, <2>2, <2>4, <2>5
  <2>6. CASE ~(o < outcome[at])
    BY <2>1, <2>2, <2>3, <2>4, <2>6
  <2> QED
    BY <2>5, <2>6
<1>9. CurrentRight(outcome[at], results[Len(results)])'
  <2> DEFINE more == Append(read, row + 1)
  <2>1. /\ more \in Seq(Nat) /\ Len(more) = Len(read) + 1 /\ more # <<>>
        /\ \A j \in 1..Len(read) : more[j] = read[j]
        /\ more[Len(read) + 1] = row + 1
    <3>1. read \in Seq(Nat) /\ row + 1 \in Nat
      BY <1>1, <1>2
    <3> HIDE DEF read
    <3> QED
      BY <3>1, AppendProperties
  <2>2. \A j \in 1..Len(read) : read[j] = o + j
    BY <1>4 DEF CurrentRight
  <2> HIDE DEF more, o
  <2>3. ASSUME NEW j \in 1..Len(more)
        PROVE  more[j] = o + j
    <3>1. CASE j \in 1..Len(read)
      BY <2>1, <2>2, <3>1
    <3>2. CASE j \notin 1..Len(read)
      <4>1. j = Len(read) + 1
        BY <1>2, <2>1, <3>2
      <4> QED
        BY <1>2, <1>7, <1>8, <2>1, <4>1
    <3> QED
      BY <3>1, <3>2
  <2>4. more = [j \in 1..Len(more) |-> o + j]
    BY <2>1, <2>3
  <2>5. Len(more) <= call.page.limit /\ row + 1 = Min({o, outcome[at]}) + Len(more)
    <3>1. row = Min({o, outcome[at]}) + Len(read) /\ Min({o, outcome[at]}) \in Nat
      BY <1>4, <1>7, MinOfTwo DEF CurrentRight, o
    <3>2. /\ Len(read) < call.page.limit /\ call.page.limit \in Nat /\ row \in Nat
          /\ Len(read) \in Nat
      BY <1>1, <1>2, <1>7
    <3> DEFINE q == Min({o, outcome[at]})
               c == Len(read)
    <3>3. Len(more) = c + 1
      BY <2>1
    <3> HIDE DEF q, c
    <3>4. /\ row = q + c /\ q \in Nat /\ c \in Nat /\ row \in Nat
          /\ c < call.page.limit /\ call.page.limit \in Nat
      BY <3>1, <3>2 DEF q, c
    <3>5. c + 1 <= call.page.limit /\ row + 1 = q + (c + 1)
      BY <3>4
    <3> QED
      BY <3>3, <3>5 DEF q
  <2>6. results'[Len(results')] = more
    BY <1>3 DEF more
  <2> QED
    BY <1>1, <1>8, <2>4, <2>5, <2>6 DEF CurrentRight, o
<1> QED
  BY <1>1, <1>3, <1>4, <1>5, <1>6, <1>9 DEF PagesKept, Early

\* The current result set is finished, or taken away.
LEMMA RowsEndPages ==
  ASSUME TInv, PagesKept, RowsDone \/ RowsTakenAway
  PROVE  PagesKept'
<1> DEFINE n == Len(results)
           read == results[n]
           sets == Passed(at)
<1>1. /\ pc = "rows" /\ pc' = "more" /\ UNCHANGED <<outcome, call, at, row, results>>
      /\ cut' \in BOOLEAN /\ (cut => cut')
      /\ ~cut' => ~(Len(read) < call.page.limit /\ row < outcome[at])
      /\ results \in Seq(Seq(Nat)) /\ results # <<>> /\ row \in Nat /\ row <= outcome[at]
      /\ call.page \in PageType /\ Rows(at) /\ outcome \in Seq(Nat \cup {Count})
      /\ at \in 1..(Len(outcome) + 1)
  BY DEF RowsDone, RowsTakenAway, MoreRows, Step, request, driver, reading, PagesKept, TInv,
         ReadingType, CallType
<1>2. n \in Nat /\ n \in 1..n /\ read \in Seq(Nat)
  <2>1. n \in Nat /\ n \in 1..n
    BY <1>1
  <2> QED
    BY <1>1, <2>1, ElementOfSeq
<1>3. /\ n <= Limit /\ n = Len(sets) /\ RightUpTo(n - 1, sets)
      /\ CurrentRight(outcome[at], read)
  BY <1>1 DEF PagesKept
<1>4. at \in 1..Len(outcome) /\ at <= Len(outcome)
  BY <1>1 DEF Rows
<1>5. outcome[at] \in Nat /\ sets = Append(Passed(at - 1), outcome[at])
      /\ sets \in Seq(Nat \cup {Count}) /\ Passed(at - 1) \in Seq(Nat \cup {Count})
  BY <1>1, <1>4, PassedStep
<1>6. sets[n] = outcome[at]
  <2> DEFINE S == Nat \cup {Count}
             before == Passed(at - 1)
  <2>1. before \in Seq(S) /\ outcome[at] \in S /\ sets = Append(before, outcome[at])
    BY <1>5
  <2> HIDE DEF S, before, sets
  <2>2. Len(sets) = Len(before) + 1 /\ sets[Len(before) + 1] = outcome[at]
    BY <2>1, AppendProperties
  <2> QED
    BY <1>3, <2>2
<1>7. /\ IsPrefix(read, PageOf(call.page, outcome[at]))
      /\ ~cut' => read = PageOf(call.page, outcome[at])
  <2> HIDE DEF read
  <2> QED
    BY <1>1, <1>2, <1>3, <1>5, CurrentIsPage
<1>8. ASSUME NEW k \in 1..n
      PROVE  /\ IsPrefix(results[k], PageOf(call.page, sets[k]))
             /\ ~cut' => results[k] = PageOf(call.page, sets[k])
  <2>1. CASE k = n
    BY <1>6, <1>7, <2>1
  <2>2. CASE k # n
    <3>1. k \in 1..(n - 1)
      BY <1>2, <2>2
    <3> QED
      BY <1>1, <1>3, <3>1 DEF RightUpTo
  <2> QED
    BY <2>1, <2>2
<1>9. Passed(at)' = sets /\ Limit' = Limit
  BY <1>1 DEF Passed, Limit
<1>10. RightUpTo(Len(results), Passed(at))'
  BY <1>1, <1>8, <1>9 DEF RightUpTo
<1> QED
  BY <1>1, <1>3, <1>4, <1>9, <1>10 DEF PagesKept, Early

LEMMA NextResultSetPages ==
  ASSUME TInv, PagesKept, NextResultSet \/ NextResultSetFails
  PROVE  PagesKept'
<1>1. /\ pc = "more" /\ UNCHANGED <<outcome, call, results>> /\ outcome \in Seq(Nat \cup {Count})
      /\ at \in 1..(Len(outcome) + 1) /\ at <= Len(outcome) /\ Len(outcome) \in Nat
      /\ Len(results) <= Limit /\ Len(results) = Len(Passed(at))
      /\ RightUpTo(Len(results), Passed(at)) /\ Len(results) \in Nat
  BY LenProperties DEF NextResultSet, NextResultSetFails, Step, request, driver, PagesKept, TInv,
     ReadingType
<1>2. \A j : Passed(j)' = Passed(j)
  BY <1>1 DEF Passed
<1>3. Limit' = Limit /\ Limit \in Nat
  BY <1>1, StatementAssumption DEF Limit, TInv, CallType
<1>4. RightUpTo(Len(results), Passed(at)) /\ (cut => cut') =>
        \A k \in 1..Len(results') :
            /\ IsPrefix(results'[k], PageOf(call'.page, Passed(at)[k]))
            /\ ~cut' => results'[k] = PageOf(call'.page, Passed(at)[k])
  BY <1>1 DEF RightUpTo
<1>5. CASE NextResultSetFails
  <2>1. pc' = "return" /\ at' = at /\ cut' = TRUE
    BY <1>5 DEF NextResultSetFails, Step
  <2>2. at \in 0..Len(outcome')
    BY <1>1
  <2>3. Finished'
    BY <1>1, <1>2, <1>3, <1>4, <2>1, <2>2 DEF Finished, RightUpTo
  <2> QED
    BY <1>1, <2>1, <2>3 DEF PagesKept, Early
<1>6. CASE NextResultSet
  <2>1. at' = at + 1 /\ cut' = cut /\ at' - 1 = at /\ at' \in 1..(Len(outcome') + 1)
    BY <1>1, <1>6 DEF NextResultSet
  <2>2. CASE pc' = "skip"
    <3>1. Rows(at') /\ Len(results) < Limit
      BY <1>6, <2>2 DEF NextResultSet
    <3>2. Passed(at - 1)' = Passed(at)
      BY <1>1, <2>1 DEF Passed
    <3>3. RightUpTo(Len(results), Passed(at - 1))'
      BY <1>1, <1>4, <2>1, <3>2 DEF RightUpTo
    <3> QED
      BY <1>1, <1>3, <2>1, <2>2, <3>1, <3>2, <3>3 DEF PagesKept, Early
  <2>3. CASE pc' = "more"
    <3>1. ~Rows(at') /\ at' <= Len(outcome)
      BY <1>1, <1>6, <2>1, <2>3 DEF NextResultSet
    <3>2. Passed(at)' = Passed(at)
      <4>1. at + 1 \in 1..Len(outcome) /\ (at + 1) - 1 = at
        BY <1>1, <2>1, <3>1
      <4>2. Passed(at + 1) = Passed(at)
        BY <1>1, <2>1, <3>1, <4>1, PassedStep
      <4> QED
        BY <1>1, <2>1, <4>2 DEF Passed
    <3>3. RightUpTo(Len(results), Passed(at))'
      BY <1>1, <1>4, <2>1, <3>2 DEF RightUpTo
    <3> QED
      BY <1>1, <1>3, <2>1, <2>3, <3>1, <3>2, <3>3 DEF PagesKept, Early
  <2>4. CASE pc' = "return"
    <3>1. Len(results) = Limit \/ at = Len(outcome)
      <4>1. CASE Rows(at')
        <5>1. ~(Len(results) < Limit)
          BY <1>6, <2>4, <4>1 DEF NextResultSet
        <5> QED
          BY <1>1, <1>3, <5>1
      <4>2. CASE ~Rows(at')
        <5>1. at' > Len(outcome)
          BY <1>1, <1>6, <2>1, <2>4, <4>2 DEF NextResultSet
        <5> QED
          BY <1>1, <2>1, <5>1
      <4> QED
        BY <4>1, <4>2
    <3>2. at \in 0..Len(outcome')
      BY <1>1
    <3>3. Finished'
      BY <1>1, <1>2, <1>3, <1>4, <2>1, <3>1, <3>2 DEF Finished, RightUpTo
    <3> QED
      BY <1>1, <2>1, <2>4, <3>3 DEF PagesKept, Early
  <2> QED
    BY <1>6, <2>2, <2>3, <2>4 DEF NextResultSet
<1> QED
  BY <1>5, <1>6

LEMMA StepPages == ASSUME TInv, PagesKept, TInv', [Next]_vars PROVE PagesKept'
<1>1. ASSUME NEW s, NEW arg, NEW p, LoadMapper(s) \/ Call(s, arg, p)
      PROVE  PagesKept'
  BY <1>1, BeforeReadingPages DEF LoadMapper, Call, Step, driver, reading, Start, Early
<1>2. CASE Found \/ GenerateKeys \/ Render \/ CacheKey \/ LookupFails
  BY <1>2, BeforeReadingPages
     DEF Found, GenerateKeys, Render, CacheKey, LookupFails, Step, Throw, driver, reading,
         Start, Early
<1>3. CASE Prepare \/ PrepareFails \/ Parameterize \/ ParameterizeFails
  BY <1>3, BeforeReadingPages
     DEF Prepare, PrepareFails, Parameterize, ParameterizeFails, Step, Throw, driver, reading,
         Start, Early
<1>4. CASE ExecuteFails \/ ReadingFails
  BY <1>4, UnwindPages DEF ExecuteFails, ReadingFails, Throw, driver, reading
<1>5. CASE UNCHANGED vars
  BY <1>5 DEF vars, request, driver, reading, PagesKept, Unread, Early, Passed, RightUpTo,
              CurrentRight, Finished, Limit, IsSelect
<1> QED
  BY <1>1, <1>2, <1>3, <1>4, <1>5, ExecutePages, FirstResultSetPages, SkipRowsPages,
     NextRowPages, RowsEndPages, NextResultSetPages, EndPages DEF Next, Proceed, Fail

LEMMA PagesAreRight == ASSUME TInv, PagesKept PROVE PagesRight
<1> SUFFICES ASSUME pc = "return", IsSelect
             PROVE  /\ ~cut => results = Expected
                    /\ Len(results) <= Len(Expected)
                    /\ \A k \in DOMAIN results : IsPrefix(results[k], Expected[k])
  BY DEF PagesRight
<1> DEFINE n == Len(results)
           all == Len(ResultSets)
           m == Min({Limit, all})
<1>1. PICK j \in 0..Len(outcome) :
        /\ n = Len(Passed(j)) /\ n <= Limit /\ RightUpTo(n, Passed(j))
        /\ cut \/ n = Limit \/ j = Len(outcome)
  BY DEF PagesKept, Finished
<1>2. /\ outcome \in Seq(Nat \cup {Count}) /\ Len(outcome) \in Nat /\ Limit \in Nat
      /\ results \in Seq(Seq(Nat)) /\ n \in Nat /\ DOMAIN results = 1..n
  BY LenProperties, StatementAssumption DEF TInv, ReadingType, CallType, Limit
<1>3. /\ n <= all /\ all \in Nat /\ \A k \in 1..n : Passed(j)[k] = ResultSets[k]
      /\ j = Len(outcome) => n = all
  <2> DEFINE S == Nat \cup {Count}
  <2>1. ResultSets \in Seq(S) /\ Passed(j) \in Seq(S)
    <3>1. SubSeq(outcome, 1, j) \in Seq(S)
      BY <1>2
    <3> HIDE DEF S
    <3> QED
      BY <1>2, <3>1, KeepType DEF ResultSets, Passed, S
  <2>2. IsPrefix(Passed(j), ResultSets)
    <3> HIDE DEF S
    <3> QED
      BY <1>2, KeepIsPrefix DEF ResultSets, Passed, S
  <2>3. j = Len(outcome) => Passed(j) = ResultSets
    <3>1. SubSeq(outcome, 1, Len(outcome)) = outcome
      BY <1>2
    <3> QED
      BY <3>1 DEF Passed, ResultSets
  <2> HIDE DEF S
  <2> QED
    BY <1>1, <2>1, <2>2, <2>3, IsPrefixProperties, LenProperties
<1>4. m \in Nat /\ n <= m /\ (~cut => n = m)
  <2>1. m = IF Limit <= all THEN Limit ELSE all
    <3>1. \A x \in {Limit, all} : (\A y \in {Limit, all} : x <= y)
                                    <=> x = IF Limit <= all THEN Limit ELSE all
      BY <1>2, <1>3
    <3> QED
      BY <1>2, <1>3, <3>1 DEF Min
  <2> HIDE DEF all, n, m
  <2> QED
    BY <1>1, <1>2, <1>3, <2>1
<1> HIDE DEF m, all
<1>5. Expected = [k \in 1..m |-> PageOf(call.page, ResultSets[k])]
  BY DEF Expected, m, all
<1>6. Len(Expected) = m
  BY <1>4, <1>5
<1>7. ASSUME NEW k \in 1..n
      PROVE  /\ IsPrefix(results[k], Expected[k])
             /\ ~cut => results[k] = Expected[k]
  <2>1. k \in 1..m
    <3> HIDE DEF n
    <3> QED
      BY <1>2, <1>4
  <2>2. Expected[k] = PageOf(call.page, Passed(j)[k])
    BY <1>3, <1>5, <2>1
  <2> QED
    BY <1>1, <2>2 DEF RightUpTo
<1>8. ~cut => results = Expected
  <2> SUFFICES ASSUME ~cut
               PROVE  results = Expected
    OBVIOUS
  <2>1. results = [k \in 1..m |-> results[k]]
    BY <1>2, <1>4
  <2>2. \A k \in 1..m : results[k] = PageOf(call.page, ResultSets[k])
    BY <1>4, <1>5, <1>7
  <2> QED
    BY <1>5, <2>1, <2>2
<1> QED
  BY <1>2, <1>4, <1>6, <1>7, <1>8

\* A query returns the page of each result set it has a result map for, in their
\* order, whatever update counts stand between them, and less only if the driver
\* took something away (DefaultResultSetHandler, handleResultSets and what it calls).
THEOREM RightPages == Spec => []PagesRight
<1>1. Init => TInv /\ PagesKept
  BY InitTInv, InitPages
<1>2. TInv /\ PagesKept /\ [Next]_vars => (TInv /\ PagesKept)'
  BY StepTInv, StepPages
<1>3. TInv /\ PagesKept => PagesRight
  BY PagesAreRight
<1> QED
  BY <1>1, <1>2, <1>3, PTL DEF Spec

-------------------------------------------------------------------------------
(* The end of a call *)

\* How far a call is from its end: the steps before and at the driver, then the
\* driver's answers not yet passed, the steps taken for one of them, its rows.
Stages == [lookup |-> 8, keys |-> 7, render |-> 6, key |-> 5, prepare |-> 4, parameterize |-> 3,
           execute |-> 2, first |-> 1, skip |-> 1, rows |-> 1, more |-> 1,
           return |-> 0, unwind |-> 0, idle |-> 0]
Places == [lookup |-> 0, keys |-> 0, render |-> 0, key |-> 0, prepare |-> 0, parameterize |-> 0,
           execute |-> 0, first |-> 3, skip |-> 2, rows |-> 1, more |-> 0,
           return |-> 0, unwind |-> 0, idle |-> 0]
AnswersLeft == Len(outcome) + 1 - at
RowsLeft == IF pc = "rows" THEN outcome[at] - row ELSE 0

Distance == <<Stages[pc], AnswersLeft, Places[pc], RowsLeft>>

Ranks == [1..4 -> Nat]

Descends == pc = "idle" \/ pc' = "idle" \/ <<Distance', Distance>> \in LexBelow(4)

LEMMA LexBelowCases ==
  ASSUME NEW a \in Ranks, NEW b \in Ranks,
         \/ a[1] < b[1]
         \/ a[1] = b[1] /\ a[2] < b[2]
         \/ a[1] = b[1] /\ a[2] = b[2] /\ a[3] < b[3]
         \/ a[1] = b[1] /\ a[2] = b[2] /\ a[3] = b[3] /\ a[4] < b[4]
  PROVE  <<a, b>> \in LexBelow(4)
<1>1. PICK j \in 1..4 : a[j] < b[j] /\ \A i \in 1..(j - 1) : a[i] = b[i]
  <2>1. CASE a[1] < b[1]
    BY <2>1
  <2>2. CASE a[1] = b[1] /\ a[2] < b[2]
    <3>1. \A i \in 1..(2 - 1) : a[i] = b[i]
      BY <2>2
    <3> QED
      BY <2>2, <3>1
  <2>3. CASE a[1] = b[1] /\ a[2] = b[2] /\ a[3] < b[3]
    <3>1. \A i \in 1..(3 - 1) : a[i] = b[i]
      BY <2>3
    <3> QED
      BY <2>3, <3>1
  <2>4. CASE a[1] = b[1] /\ a[2] = b[2] /\ a[3] = b[3] /\ a[4] < b[4]
    <3>1. \A i \in 1..(4 - 1) : a[i] = b[i]
      BY <2>4
    <3> QED
      BY <2>4, <3>1
  <2> QED
    BY <2>1, <2>2, <2>3, <2>4
<1> QED
  BY <1>1, LexBelowAt DEF Ranks

LEMMA DistanceType ==
  ASSUME TInv, PagesKept PROVE Distance \in Ranks
<1>1. Stages[pc] \in Nat /\ Places[pc] \in Nat
  BY DEF TInv, IInv, Progress, Early, Late, Stages, Places
<1>2. AnswersLeft \in Nat
  <2>1. Len(outcome) \in Nat
    BY LenProperties DEF TInv, ReadingType
  <2> QED
    BY <2>1 DEF PagesKept, AnswersLeft
<1>3. RowsLeft \in Nat
  <2>1. CASE pc = "rows"
    <3>1. row \in Nat /\ row <= outcome[at]
      BY <2>1 DEF TInv, ReadingType
    <3>2. outcome[at] \in Nat
      BY <2>1, ElementOfSeq DEF TInv, ReadingType, Rows
    <3> QED
      BY <2>1, <3>1, <3>2 DEF RowsLeft
  <2>2. CASE pc # "rows"
    BY <2>2 DEF RowsLeft
  <2> QED
    BY <2>1, <2>2
<1> QED
  BY <1>1, <1>2, <1>3 DEF Distance, Ranks

LEMMA NextStage ==
  ASSUME Distance \in Ranks, Distance' \in Ranks, Stages[pc'] < Stages[pc]
  PROVE  Descends
<1>1. Distance'[1] = Stages[pc'] /\ Distance[1] = Stages[pc]
  BY DEF Distance
<1> QED
  BY <1>1, LexBelowCases DEF Descends

LEMMA StepDescends ==
  ASSUME TInv, PagesKept, Next, Distance \in Ranks, Distance' \in Ranks
  PROVE  Descends
<1>1. CASE Found \/ GenerateKeys \/ Render \/ CacheKey \/ LookupFails
  <2>1. Stages[pc'] < Stages[pc]
    BY <1>1 DEF Found, GenerateKeys, Render, CacheKey, LookupFails, Step, Throw, Stages
  <2> QED
    BY <2>1, NextStage
<1>2. CASE Prepare \/ PrepareFails \/ Parameterize \/ ParameterizeFails
  <2>1. Stages[pc'] < Stages[pc]
    BY <1>2 DEF Prepare, PrepareFails, Parameterize, ParameterizeFails, Step, Throw, Stages
  <2> QED
    BY <2>1, NextStage
<1>3. CASE Execute \/ ExecuteFails
  <2>1. Stages[pc'] < Stages[pc]
    BY <1>3 DEF Execute, ExecuteFails, Step, Throw, Stages
  <2> QED
    BY <2>1, NextStage
<1>4. CASE ReadingFails \/ NextResultSetFails
  <2>1. Stages[pc'] < Stages[pc]
    BY <1>4 DEF ReadingFails, MoreRows, NextResultSetFails, Step, Throw, Stages
  <2> QED
    BY <2>1, NextStage
<1>5. CASE pc = "idle" \/ pc' = "idle"
  BY <1>5 DEF Descends
<1>6. Len(outcome) \in Nat /\ at \in 1..(Len(outcome) + 1) /\ row \in Nat
  BY LenProperties DEF TInv, ReadingType, PagesKept
<1> DEFINE d == Distance
           e == Distance'
<1>7. /\ d[1] = Stages[pc] /\ d[2] = Len(outcome) + 1 - at /\ d[3] = Places[pc]
      /\ e[1] = Stages[pc'] /\ e[2] = Len(outcome') + 1 - at' /\ e[3] = Places[pc']
  BY DEF Distance, AnswersLeft
<1>8. CASE FirstResultSet
  <2>1. CASE pc' \in {"return", "unwind"}
    <3>1. Stages[pc'] < Stages[pc]
      BY <1>8, <2>1 DEF FirstResultSet, Stages
    <3> QED
      BY <3>1, NextStage
  <2>2. CASE pc' = "skip"
    <3>1. e[1] = d[1] /\ e[2] = d[2] /\ e[3] < d[3]
      BY <1>7, <1>8, <2>2 DEF FirstResultSet, Throw, driver, Stages, Places
    <3> QED
      BY <3>1, LexBelowCases DEF Descends
  <2>3. CASE pc' = "first"
    <3>1. UNCHANGED outcome /\ at' = at + 1 /\ pc = "first"
      BY <1>8, <2>3 DEF FirstResultSet, Throw, driver
    <3>2. e[1] = d[1] /\ e[2] < d[2]
      BY <1>6, <1>7, <2>3, <3>1 DEF Stages
    <3> QED
      BY <3>2, LexBelowCases DEF Descends
  <2> QED
    BY <1>8, <2>1, <2>2, <2>3 DEF FirstResultSet, Throw
<1>9. CASE SkipRows \/ RowsDone \/ RowsTakenAway
  <2>1. e[1] = d[1] /\ e[2] = d[2] /\ e[3] < d[3]
    BY <1>7, <1>9 DEF SkipRows, RowsDone, RowsTakenAway, MoreRows, Step, driver, reading,
       Stages, Places
  <2> QED
    BY <2>1, LexBelowCases DEF Descends
<1>10. CASE NextRow
  <2>1. pc = "rows" /\ UNCHANGED <<pc, outcome, at>> /\ row' = row + 1 /\ row < outcome[at]
    BY <1>10 DEF NextRow, MoreRows, driver
  <2>2. outcome[at] \in Nat
    BY <2>1, ElementOfSeq DEF TInv, ReadingType, Rows
  <2>3. e[1] = d[1] /\ e[2] = d[2] /\ e[3] = d[3]
    BY <1>7, <2>1
  <2>4. d[4] = outcome[at] - row /\ e[4] = outcome[at] - (row + 1)
    BY <2>1 DEF Distance, RowsLeft
  <2>5. e[4] < d[4]
    BY <1>6, <2>2, <2>4
  <2> QED
    BY <2>3, <2>5, LexBelowCases DEF Descends
<1>11. CASE NextResultSet
  <2>1. pc = "more" /\ UNCHANGED outcome /\ at' = at + 1 /\ pc' \in {"skip", "more", "return"}
    BY <1>11 DEF NextResultSet, driver
  <2>2. CASE pc' = "return"
    <3>1. Stages[pc'] < Stages[pc]
      BY <2>1, <2>2 DEF Stages
    <3> QED
      BY <3>1, NextStage
  <2>3. CASE pc' # "return"
    <3>1. e[1] = d[1]
      BY <1>7, <2>1, <2>3 DEF Stages
    <3>2. e[2] < d[2]
      BY <1>6, <1>7, <2>1
    <3> QED
      BY <3>1, <3>2, LexBelowCases DEF Descends
  <2> QED
    BY <2>2, <2>3
<1> QED
  <2>1. End \/ (\E s \in Statement : LoadMapper(s)) => pc = "idle" \/ pc' = "idle"
    BY DEF End, LoadMapper
  <2>2. \A s, arg, page : Call(s, arg, page) => pc = "idle"
    BY DEF Call, Step
  <2> QED
    BY <1>1, <1>2, <1>3, <1>4, <1>5, <1>8, <1>9, <1>10, <1>11, <2>1, <2>2
       DEF Next, Proceed, Fail

\* No call goes on for ever: until it is back at its end, each step brings it
\* nearer in an order without infinite descent, whatever the driver answers (the
\* loops of handleResultSets, getFirstResultSet and
\* handleRowValuesForSimpleResultMap).
THEOREM CallsDescend ==
  /\ IsWellFoundedOn(LexBelow(4), Ranks)
  /\ Spec => [](Distance \in Ranks) /\ [][Descends]_vars
<1>1. Init => TInv /\ PagesKept
  BY InitTInv, InitPages
<1>2. TInv /\ PagesKept /\ [Next]_vars => (TInv /\ PagesKept)'
  BY StepTInv, StepPages
<1>3. TInv /\ PagesKept => Distance \in Ranks
  BY DistanceType
<1>4. TInv /\ PagesKept /\ (TInv /\ PagesKept)' /\ [Next]_vars => [Descends]_vars
  <2>0. (TInv /\ PagesKept)' => (Distance \in Ranks)'
    BY <1>3, PTL
  <2>1. ASSUME TInv, PagesKept, (TInv /\ PagesKept)', Next
        PROVE  Descends
    <3>1. Distance \in Ranks
      BY <2>1, DistanceType
    <3>2. Distance' \in Ranks
      BY <2>0, <2>1 DEF Ranks
    <3> QED
      BY <2>1, <3>1, <3>2, StepDescends
  <2> QED
    BY <2>1
<1>5. IsWellFoundedOn(LexBelow(4), Ranks)
  BY LexBelowWellFounded DEF Ranks
<1>6. Spec => [](TInv /\ PagesKept)
  BY <1>1, <1>2, PTL DEF Spec
<1>7. Spec => [](Distance \in Ranks)
  BY <1>3, <1>6, PTL
<1>8. Spec => [][Descends]_vars
  BY <1>4, <1>6, PTL DEF Spec
<1> QED
  BY <1>5, <1>7, <1>8

===============================================================================
