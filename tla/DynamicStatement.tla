--------------------------- MODULE DynamicStatement ---------------------------
(***************************************************************************)
(* Statements whose SQL is rendered from the nodes of their templates: the *)
(* composition of StatementExecution with DynamicSql.                      *)
(***************************************************************************)
EXTENDS StatementExecution, DynamicSql

CONSTANT Template       \* per statement: its SQL nodes

\* The SQL of a statement depends on nothing but its argument.
Rendered == UNION {{[statement |-> s, arg |-> arg, is |-> SqlFor(Template[s], arg)] :
                      arg \in Arguments[s]} : s \in Statement}

ASSUME RenderingAssumption == Rendering = Rendered

Written == [s \in Statement |-> [arg \in Arguments[s] |-> MeaningAll(Template[s], arg, arg)]]

\* The lexemes of the SQL, each ? with the value bound to it.
Sent ==
    LET sql == NoBlanks(bound.sql)
        number(i) == Cardinality({k \in 1..i : sql[k] = <<"?">>})
    IN  [i \in DOMAIN sql |-> IF sql[i] = <<"?">> THEN <<"?", values[number(i)]>> ELSE sql[i]]

Word(l) == l \notin {Blank, <<",">>, <<"(">>, <<")">>, <<"=">>}

\* The driver executes what the statement's author wrote for the argument: the
\* words of its template in order and apart from one another, no separator, AND
\* or comma too many or too few, and to each ? the value its name has where it
\* is written - the element of this iteration of the foreach around it (the
\* nodes' apply, RenamedDynamicContext, DefaultParameterHandler.setParameters).
SentAsWritten ==
    sent /\ pc # "idle" =>
        /\ Sent = Written[call.statement][call.arg]
        /\ \A i \in 1..(Len(bound.sql) - 1) : ~(Word(bound.sql[i]) /\ Word(bound.sql[i + 1]))

\* A call is refused exactly if what it is to execute has no meaning: a condition, a
\* ${} or a #{} names something unknown, or a foreach goes over something that is no
\* list. A query is refused before it is prepared, for its cache key already needs
\* the values; an update that only a #{} makes meaningless, when they are set.
RefusedAsWritten ==
    /\ (pc = "prepare" /\ IsSelect) \/ pc = "execute" =>
          Fails \notin Range(Written[call.statement][call.arg])
    /\ ~bound.ok \/ Missing \in Range(ParameterValues) =>
          Fails \in Range(Written[call.statement][call.arg])

===============================================================================
