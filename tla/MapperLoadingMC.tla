--------------------------- MODULE MapperLoadingMC ---------------------------
(* Small instances of MapperLoading for TLC. *)
EXTENDS MapperLoading, TLC

CONSTANTS m1, m2, x, y

\* Files of at most two elements of either kind. Result maps: none, x, or x and
\* then another x, a y or a bad one. Statements: none, or an x that refers to
\* nothing, to the result map x by its simple name, to the x of m1 by its full
\* name, or to both; after it a y that is good, bad or refers to the result map
\* y, or another x.
Good(n, refs) == [id |-> n, refs |-> refs, bad |-> FALSE]
First == {Good(x, r) : r \in {{}, {Short(x)}, {<<m1, x>>}, {Short(x), <<m1, x>>}}}
Second == {Good(y, {}), Good(y, {Short(y)}), [Good(y, {}) EXCEPT !.bad = TRUE],
           Good(x, {Short(x)})}
Map(n, b) == [id |-> n, bad |-> b]

SmallFiles ==
    [resultMaps : {<<>>, <<Map(x, FALSE)>>}
                      \cup {<<Map(x, FALSE), s>> : s \in {Map(x, FALSE), Map(y, FALSE), Map(y, TRUE)}},
     statements : {<<>>} \cup {<<s>> : s \in First}
                      \cup {<<s, t>> : s \in First, t \in Second}]

===============================================================================
