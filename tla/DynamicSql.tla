------------------------------ MODULE DynamicSql ------------------------------
(***************************************************************************)
(* Dynamic SQL: what applying the nodes of a mapped statement to a         *)
(* DynamicContext appends to the SQL and binds, and the SQL it ends with   *)
(* (SqlFor); next to it, what a template means to the person who writes  *)
(* it (Meaning), as a rendering with lexical scopes that knows neither     *)
(* bindings that change nor names that are replaced.                       *)
(***************************************************************************)
EXTENDS SqlText

\* A context is a HashMap of its bindings and of _parameter: the names it iterates
\* before _parameter, which is a matter of their hash codes.
CONSTANT Overwriting

\* What stands in the SQL for ${x}: the value itself.
Literal(v) == IF v.kind = "null" THEN <<>> ELSE <<<<"=", v.of>>>>

Strip(s) ==
    LET solid == {i \in DOMAIN s : s[i] # Blank}
    IN  IF solid = {} THEN <<>> ELSE SubSeq(s, Min(solid), Max(solid))

\* A context: what appendSql was called with, the bindings, the next unique
\* number, the parameter object (a map), and whether nothing was thrown yet.
NewContext(param) ==
    [sql |-> <<>>, bindings |-> <<>>, unique |-> 0, param |-> param, ok |-> TRUE]
Thrown(ctx) == [ctx EXCEPT !.ok = FALSE]
AppendSql(ctx, piece) == [ctx EXCEPT !.sql = Append(@, piece)]

\* The collection of a foreach: a binding, else an entry of the parameter.
Property(ctx, x) ==
    IF <<x, Plain>> \in DOMAIN ctx.bindings THEN ctx.bindings[<<x, Plain>>]
    ELSE IF x \in DOMAIN ctx.param THEN ctx.param[x] ELSE Missing

\* Mutant: an unknown name is undefined instead of an error.
PhaseOrNull(ctx, x) ==
    IF x \in Overwriting \cap DOMAIN ctx.param THEN ctx.param[x]
    ELSE IF Property(ctx, x) = Missing THEN Null ELSE Property(ctx, x)

\* A name in a condition or a ${}: putParamToEngine puts the bindings into the
\* script engine, and the parameter's entries when it comes to _parameter, so an
\* entry replaces a binding that was there before.
Phase(ctx, x) ==
    IF x \in Overwriting \cap DOMAIN ctx.param THEN ctx.param[x] ELSE Property(ctx, x)

\* applyEach: index and item (if it has them, that is, if the name is not empty)
\* under their own names and as the n-th of their kind; the item has the last word.
BindEach(node, bindings, n, index, item) ==
    LET keys(x) == IF x = "" THEN {} ELSE {<<x, Plain>>, <<x, n>>}
    IN  [k \in DOMAIN bindings \cup keys(node.index) \cup keys(node.item) |->
            IF k \in keys(node.item) THEN item
            ELSE IF k \in keys(node.index) THEN index ELSE bindings[k]]

\* The text of a TextSqlNode, or of a StaticTextSqlNode, which holds no ${}.
ApplyText(text, ctx) ==
    IF \E i \in DOMAIN text : text[i][1] = "$" /\ Phase(ctx, text[i][2]) = Missing
    THEN Thrown(ctx)
    ELSE AppendSql(ctx, FlattenSeq([i \in DOMAIN text |->
             IF text[i][1] = "$" THEN Literal(Phase(ctx, text[i][2])) ELSE <<text[i]>>]))

\* RenamedDynamicContext: a parameter that is exactly the item, or else the
\* index, gets the name its value stays bound under.
Renamed(piece, node, n) ==
    [i \in DOMAIN piece |-> IF piece[i] \in {Param(node.item), Param(node.index)}
                            THEN <<"#", piece[i][2], n>> ELSE piece[i]]

PrefixedAlways(pieces, prefix) == <<prefix>> \o pieces

\* PrefixedContext: the first piece that is not blank is preceded by the prefix.
Prefixed(pieces, prefix) ==
    LET solid == {i \in DOMAIN pieces : Strip(pieces[i]) # <<>>}
    IN  IF solid = {} THEN pieces ELSE InsertAt(pieces, Min(solid), prefix)

\* The text one of the overrides removes at the given end of s (IsPrefix or
\* IsSuffix), with the first that matches.
Overridden(overrides, At(_)) ==
    LET hits == {k \in DOMAIN overrides : At(overrides[k])}
    IN  IF hits = {} THEN <<>> ELSE Strip(overrides[Min(hits)])

\* TrimmedDynamicContext.applyTrim. The suffix to remove is found in the text as
\* it was, and removed by its length from the text that has its prefix by now.
Trimmed(node, s) ==
    LET first == Overridden(node.prefixes, LAMBDA o : IsPrefix(o, s))
        last == Overridden(node.suffixes, LAMBDA o : IsSuffix(o, s) \/ IsSuffix(Strip(o), s))
        headless == node.prefix \o <<Blank>> \o SubSeq(s, Len(first) + 1, Len(s))
        body == SubSeq(headless, 1, Len(headless) - Len(last))
    IN  IF s = <<>> THEN <<>> ELSE body

RECURSIVE Apply(_, _), Each(_, _, _, _, _)
ApplyAll(nodes, ctx) == FoldLeft(LAMBDA c, node : Apply(node, c), ctx, nodes)

\* The elements of a foreach from the i-th on; first, while no prefix was due.
Each(node, elems, i, first, ctx) ==
    IF i > Len(elems) \/ ~ctx.ok THEN ctx ELSE
    LET n == ctx.unique
        bindings == BindEach(node, ctx.bindings, n, One(ToString(i - 1)), elems[i])
        inner == ApplyAll(node.body, [ctx EXCEPT !.sql = <<>>, !.unique = n + 1, !.bindings = bindings])
        pieces == [k \in DOMAIN inner.sql |-> Renamed(inner.sql[k], node, n)]
        written == Prefixed(pieces, IF first THEN <<>> ELSE node.separator)
    IN  Each(node, elems, i + 1, first /\ Len(written) = Len(pieces),
             [inner EXCEPT !.sql = ctx.sql \o written])

ApplyForEach(node, ctx) ==
    LET value == Property(ctx, node.collection)
        done == Each(node, value.elems, 1, TRUE, AppendSql(ctx, node.open))
        bound == DOMAIN done.bindings \ {<<node.item, Plain>>, <<node.index, Plain>>}
    IN  IF value.kind # "list" THEN Thrown(ctx)
        ELSE IF value.elems = <<>> THEN ctx
        ELSE [AppendSql(done, node.close) EXCEPT !.bindings = Restrict(@, bound)]

Apply(node, ctx) ==
    IF ~ctx.ok THEN ctx ELSE
    CASE node.kind = "text" -> ApplyText(node.text, ctx)
      [] node.kind = "if" ->
           LET value == Phase(ctx, node.test)
           IN  IF value = Missing THEN Thrown(ctx)
               ELSE IF value = Null THEN ctx ELSE ApplyAll(node.body, ctx)
      [] node.kind = "choose" ->
           IF node.whens = <<>> THEN ApplyAll(node.otherwise, ctx) ELSE
           LET value == Phase(ctx, Head(node.whens).test)
           IN  IF value = Missing THEN Thrown(ctx)
               ELSE IF value # Null THEN ApplyAll(Head(node.whens).body, ctx)
               ELSE Apply([node EXCEPT !.whens = Tail(@)], ctx)
      [] node.kind = "trim" ->
           LET inner == ApplyAll(node.body, [ctx EXCEPT !.sql = <<>>])
           IN  [inner EXCEPT !.sql = Append(ctx.sql, Trimmed(node, Strip(FlattenSeq(@))))]
      [] node.kind = "foreach" -> ApplyForEach(node, ctx)

\* DynamicSqlSource.getBoundSql, up to SqlSourceBuilder (Parsed): getSql joins the
\* pieces by blanks.
SqlFor(template, param) ==
    LET ctx == ApplyAll(template, NewContext(param))
    IN  [ok |-> ctx.ok,
         sql |-> Strip(FlattenSeq([i \in DOMAIN ctx.sql |-> <<Blank>> \o ctx.sql[i]])),
         bindings |-> ctx.bindings]

-------------------------------------------------------------------------------
(* The reference: what a template means for the parameter arg, with the names  *)
(* in scope (env): a #{} and the collection of a foreach have the value their   *)
(* name has where they are written, and so has a condition or a ${} - unless    *)
(* arg has an entry of that name and the name is Overwriting: then the loops    *)
(* around cannot hide it.                                                       *)

Fails == <<"!">>  \* stands for what cannot be rendered
In(env, x) == IF x \in DOMAIN env THEN env[x] ELSE Missing

\* The elements of ss that are not empty, with sep between each two.
Joined(ss, sep) ==
    LET some == SelectSeq(ss, LAMBDA s : s # <<>>)
    IN  FlattenSeq([i \in DOMAIN some |-> IF i = 1 THEN some[i] ELSE sep \o some[i]])

NoBlanks(s) == SelectSeq(s, LAMBDA l : l # Blank)

Tested(env, arg, x) == IF x \in Overwriting THEN In(arg @@ env, x) ELSE In(env, x)

Token(l, env, arg) ==
    IF IsParam(l) THEN IF l[2] \in DOMAIN env THEN <<<<"?", env[l[2]]>>>> ELSE <<Fails>>
    ELSE IF l[1] # "$" THEN <<l>>
    ELSE IF Tested(env, arg, l[2]) = Missing THEN <<Fails>> ELSE Literal(Tested(env, arg, l[2]))

\* The words s without one of the words ws (which another word must follow if
\* leading is set).
Without(s, ws, atStart, another) ==
    IF s = <<>> \/ (another /\ Len(s) = 1) THEN s
    ELSE IF atStart THEN IF Head(s) \in ws THEN Tail(s) ELSE s
    ELSE IF s[Len(s)] \in ws THEN SubSeq(s, 1, Len(s) - 1) ELSE s

Words(overrides) == {Strip(overrides[k])[1] : k \in DOMAIN overrides}

RECURSIVE Meaning(_, _, _)
MeaningAll(nodes, env, arg) == FlattenSeq([i \in DOMAIN nodes |-> Meaning(nodes[i], env, arg)])
Meaning(node, env, arg) ==
    CASE node.kind = "text" ->
           FlattenSeq([i \in DOMAIN NoBlanks(node.text) |-> Token(NoBlanks(node.text)[i], env, arg)])
      [] node.kind = "if" ->
           IF Tested(env, arg, node.test) = Missing THEN <<Fails>>
           ELSE IF Tested(env, arg, node.test) = Null THEN <<>> ELSE MeaningAll(node.body, env, arg)
      [] node.kind = "choose" ->
           LET open == {k \in DOMAIN node.whens : Tested(env, arg, node.whens[k].test) # Null}
           IN  IF open = {} THEN MeaningAll(node.otherwise, env, arg)
               ELSE Meaning(node.whens[Min(open)], env, arg)
      [] node.kind = "trim" ->
           LET body == MeaningAll(node.body, env, arg)
               headless == Without(body, Words(node.prefixes), TRUE, node.prefix = <<<<"WHERE">>>>)
               bare == Without(headless, Words(node.suffixes), FALSE, FALSE)
           IN  IF body = <<>> THEN <<>> ELSE node.prefix \o bare
      [] node.kind = "foreach" ->
           LET elems == In(env, node.collection).elems
               scope(i) == [x \in DOMAIN env \cup {node.item, node.index} |->
                              IF x = node.item THEN elems[i]
                              ELSE IF x = node.index THEN One(ToString(i - 1)) ELSE env[x]]
           IN  IF In(env, node.collection).kind # "list" THEN <<Fails>>
               ELSE IF elems = <<>> THEN <<>>
               ELSE NoBlanks(node.open)
                      \o Joined([i \in DOMAIN elems |-> MeaningAll(node.body, scope(i), arg)],
                                NoBlanks(node.separator))
                      \o NoBlanks(node.close)

===============================================================================
