----------------------------- MODULE DocSearchMC -----------------------------
(* A small documentation for TLC: two packages, one of them in a module, a    *)
(* nested and an abbreviable type, a type without its package (as all are in  *)
(* the indexes of this repository), links to the lists of all types and       *)
(* packages whose names the zips hold in another encoding, members and a tag. *)
EXTENDS DocSearch

Nothing == [l |-> Missing, p |-> Missing, c |-> Missing, m |-> Missing, u |-> Missing, url |-> Missing]
s == <<"s">>
t == <<"t">>
SqlF == <<"S", "ql", "F">>

module == [Nothing EXCEPT !.l = s]
package == [Nothing EXCEPT !.l = s, !.m = s]
loose == [Nothing EXCEPT !.l = t]
nested == [Nothing EXCEPT !.l = <<"S", ".", "F">>, !.p = s]
abbreviated == [Nothing EXCEPT !.l = SqlF, !.p = t]
plain == [Nothing EXCEPT !.l = <<"F">>, !.p = t]
bare == [Nothing EXCEPT !.l = <<"S">>]
all == [Nothing EXCEPT !.l = <<"F", "all">>, !.url = <<"allclasses">>]
garbled == [Nothing EXCEPT !.l = <<"F", "?">>, !.url = <<"allclasses">>]
allPackages == [Nothing EXCEPT !.l = <<"s", "all">>, !.url = <<"allpackages">>]
garbledPackages == [Nothing EXCEPT !.l = <<"s", "?">>, !.url = <<"allpackages">>]
field_ == [Nothing EXCEPT !.l = <<"t", "F">>, !.p = s, !.c = <<"S", ".", "F">>]
method == [Nothing EXCEPT !.l = s, !.p = Unnamed, !.c = <<"F">>, !.url = <<"s", "()">>]
tag == [Nothing EXCEPT !.l = <<"F">>, !.u = <<"tag">>]

TheFiles == {<<"Modules", "script">>, <<"Packages", "script">>, <<"Packages", "zip">>,
             <<"Types", "script">>, <<"Types", "zip">>, <<"Members", "script">>,
             <<"SearchTags", "zip">>}
Types == <<nested, abbreviated, plain, bare>>
Contents == [f \in TheFiles |->
    CASE f[1] = "Modules" -> <<module>>
      [] f[1] = "Packages" -> <<package, loose, IF f[2] = "zip" THEN garbledPackages ELSE allPackages>>
      [] f[1] = "Types" -> Append(Types, IF f[2] = "zip" THEN garbled ELSE all)
      [] f[1] = "Members" -> <<field_, method>>
      [] f[1] = "SearchTags" -> <<tag>>]

Pages ==
    module :> At(s, <<>>, <<"module-summary">>)
    @@ package :> At(s, s, <<"package-summary">>)
    @@ loose :> At(<<>>, t, <<"package-summary">>)
    @@ nested :> At(s, s \o <<"S", ".", "F">>, <<>>)
    @@ abbreviated :> At(<<>>, t \o SqlF, <<>>)
    @@ plain :> At(<<>>, t \o <<"F">>, <<>>)
    @@ bare :> At(<<>>, <<"S">>, <<>>)
    @@ all :> At(<<>>, <<"allclasses">>, <<>>)
    @@ garbled :> At(<<>>, <<"allclasses">>, <<>>)
    @@ allPackages :> At(<<>>, <<"allpackages">>, <<>>)
    @@ garbledPackages :> At(<<>>, <<"allpackages">>, <<>>)
    @@ field_ :> At(s, s \o <<"S", ".", "F">>, <<"t", "F">>)
    @@ method :> At(<<>>, <<"F">>, <<"s", "()">>)
    @@ tag :> At(<<>>, <<"tag">>, <<>>)

SearchMark == <<"Search">>
Folds == [x \in {"S", "F", "s", "t", "ql", ".", "/", "all", "?", "()", "Search", "undefined"} |->
            IF x = "S" THEN "s" ELSE IF x = "F" THEN "f" ELSE x]

===============================================================================
