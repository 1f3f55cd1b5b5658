-------------------------- MODULE DynamicStatementMC --------------------------
(* Small instances of DynamicStatement for TLC.   The statements are those of *)
(* the demo's GoodMapper.xml, cut down, and a few with what it does not use.  *)
EXTENDS DynamicStatement

CONSTANTS update, delByIds, byCondition, orderBy, rows, gaps, shadow, hidden, keyed

\* Words, written with blanks around each as an XML text is; and joined, as the
\* value of an attribute is.
Text(ws) == [kind |-> "text", text |-> FlattenSeq([i \in DOMAIN ws |-> <<Blank, ws[i]>>]) \o <<Blank>>]
W(w) == <<w>>
Eq(column) == <<W(column), W("="), Param(column)>>
If(x, nodes) == [kind |-> "if", test |-> x, body |-> nodes]
Where(nodes) == [kind |-> "trim", prefix |-> <<W("WHERE")>>, suffixes |-> <<>>, body |-> nodes,
                 prefixes |-> <<<<W("AND"), Blank>>, <<W("OR"), Blank>>>>]
Set(nodes) == [kind |-> "trim", prefix |-> <<W("SET")>>, suffixes |-> <<<<W(",")>>>>,
               prefixes |-> <<<<W(",")>>>>, body |-> nodes]
ForEach(collection, item, index, open, separator, close, nodes) ==
    [kind |-> "foreach", collection |-> collection, item |-> item, index |-> index,
     open |-> open, separator |-> separator, close |-> close, body |-> nodes]
InList(collection, item, index, nodes) ==
    ForEach(collection, item, index, <<W("(")>>, <<W(",")>>, <<W(")")>>, nodes)
Or == <<Blank, W("OR"), Blank>>

Templates ==
    update :> <<Text(<<W("update")>>),
                Set(<<If("price", <<Text(Eq("price") \o <<W(",")>>)>>),
                      If("name", <<Text(Eq("name") \o <<W(",")>>)>>)>>),
                Text(<<W("where")>> \o Eq("id"))>>
    @@ delByIds :> <<Text(<<W("delete"), W("in")>>),
                     InList("array", "id", "", <<Text(<<Param("id")>>)>>)>>
    @@ byCondition :> <<Text(<<W("select")>>),
                        Where(<<If("price", <<Text(Eq("price"))>>),
                                If("name", <<Text(<<W("OR")>> \o Eq("name"))>>),
                                If("ids", <<ForEach("ids", "id", "", <<W("AND"), Blank>>, Or, <<>>,
                                                    <<Text(Eq("id"))>>)>>)>>)>>
    @@ orderBy :> <<Text(<<W("order")>>),
                    [kind |-> "choose",
                     whens |-> <<If("desc", <<Text(<<<<"$", "desc">>, W("desc")>>)>>),
                                 If("asc", <<Text(<<<<"$", "by">>>>)>>)>>,
                     otherwise |-> <<Text(<<W("limit"), Param("size")>>)>>]>>
    @@ rows :> <<Text(<<W("values")>>),
                 ForEach("list", "row", "i", <<>>, <<W(",")>>, <<>>,
                         <<InList("row", "cell", "j", <<Text(<<Param("i"), W("="), Param("cell")>>)>>),
                           Text(<<Param("i")>>)>>)>>
    @@ gaps :> <<Text(<<W("select")>>),
                 Where(<<ForEach("list", "x", "i", <<>>, Or, <<>>,
                                 <<If("x", <<Text(Eq("x"))>>)>>)>>)>>
    @@ shadow :> <<Text(Eq("x")), InList("list", "x", "x2", <<InList("x", "x", "y", <<Text(<<Param("x")>>)>>),
                                                             Text(<<Param("x2")>>)>>),
                   Text(Eq("x"))>>
    @@ hidden :> <<Text(<<W("select")>>),
                   ForEach("list", "item", "x", <<>>, <<W(",")>>, <<>>,
                           <<If("item", <<Text(<<<<"$", "item">>, W("AS"), Param("item")>>)>>),
                             If("x", <<Text(<<<<"$", "x">>, W("AS"), Param("x")>>)>>)>>),
                   If("x", <<Text(<<<<"$", "x">>>>)>>)>>
    @@ keyed :> <<Text(<<W("insert"), Param("x")>>)>>

\* String.hashCode puts "item" before "_parameter" in a HashMap of 16 or 32 places,
\* and none of the other names that are an item or index and a parameter at once.
Before == {"item"}

Values == {Null, One("a")}
Some == [price : Values, name : Values, id : {One("b")}]
Args ==
    update :> Some \cup [price : Values, name : Values]
    @@ delByIds :> [array : {Null, List(<<>>), List(<<One("a")>>), List(<<One("a"), One("b")>>)}]
    @@ byCondition :> [price : Values, name : Values, ids : {Null, List(<<One("a"), One("b")>>)}]
    @@ orderBy :> [desc : Values, asc : Values, by : {One("b")}, size : {One("b")}]
                  \cup [desc : Values, asc : Values] \cup [desc : Values, size : {One("b")}]
    @@ rows :> [list : {List(<<List(<<One("a"), One("b")>>), List(<<>>), List(<<One("c")>>)>>),
                        List(<<List(<<One("a")>>), One("b")>>)}]
    @@ gaps :> [list : {List(<<a, b, c>>) : a \in Values, b \in Values, c \in Values}]
    @@ shadow :> [list : {List(<<List(<<One("a")>>), List(<<One("b"), One("c")>>)>>)}, x : {One("d")}]
    @@ hidden :> [list : {List(<<One("a"), Null>>)}, item : Values, x : Values]
    @@ keyed :> [x : {One("a")}]

Maps == [s \in {update, delByIds, byCondition, orderBy, rows, gaps, shadow, hidden, keyed} |->
            IF s = byCondition THEN 2 ELSE IF s = orderBy THEN 0 ELSE 1]
Pages == {[offset |-> 0, limit |-> 5], [offset |-> 1, limit |-> 1], [offset |-> 2, limit |-> 0]}
Outcomes == {<<>>, <<Count>>, <<3>>, <<Count, 1, 2>>, <<0, Count, 3, 1>>}

===============================================================================
