-------------------------------- MODULE SqlText --------------------------------
(***************************************************************************)
(* SQL text is a sequence of lexemes: a word or sign <<"AND">>, white      *)
(* space <<" ">>, #{x} as <<"#", x, Plain>> and ${x} as <<"$", x>>. The    *)
(* key of a binding is a name and Plain, or the number ForEachSqlNode      *)
(* itemized it with. Values carry a kind: nothing, one value or a list;    *)
(* Missing stands for the exception a name without a value raises.         *)
(***************************************************************************)
EXTENDS Integers, SequencesExt, Filtering

Plain == -1
Blank == <<" ">>
Param(x) == <<"#", x, Plain>>
IsParam(l) == l[1] = "#"
Mark == <<"?">>

Null == [kind |-> "null", of |-> "", elems |-> <<>>]
One(v) == [Null EXCEPT !.kind = "one", !.of = v]
List(s) == [Null EXCEPT !.kind = "list", !.elems = s]
Missing == [Null EXCEPT !.kind = "missing"]

ParsedOnce(text) ==
    [ok |-> text.ok,
     sql |-> [i \in DOMAIN text.sql |-> IF IsParam(text.sql[i]) THEN Mark ELSE text.sql[i]],
     mappings |-> SetToSeq({l \in Range(text.sql) : IsParam(l)}),
     additional |-> text.bindings]

\* The BoundSql: SqlSourceBuilder puts a ? for each #{} of the rendered SQL and adds
\* its parameter mapping; the bindings stay, for the values.
Parsed(text) ==
    [ok |-> text.ok,
     sql |-> [i \in DOMAIN text.sql |-> IF IsParam(text.sql[i]) THEN Mark ELSE text.sql[i]],
     mappings |-> Keep(text.sql, {l \in Range(text.sql) : IsParam(l)}),
     additional |-> text.bindings]

\* DefaultParameterHandler: the value of a parameter mapping. ParamMap.get throws for
\* a name it does not have.
Value(bound, param, mapping) ==
    LET key == <<mapping[2], mapping[3]>>
    IN  IF key \in DOMAIN bound.additional THEN bound.additional[key]
        ELSE IF mapping[2] \in DOMAIN param THEN param[mapping[2]] ELSE Missing

===============================================================================
