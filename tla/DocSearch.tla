------------------------------- MODULE DocSearch -------------------------------
(***************************************************************************)
(* The search field of the generated documentation pages (src/doc): the    *)
(* indexes of modules, packages, types, members and search tags arrive in  *)
(* any order, each from a script, from a zip archive, or from both, while  *)
(* the user types, searches what is there, and follows an entry of the     *)
(* menu.                                                                   *)
(*                                                                         *)
(* Texts are sequences of lexemes (a hump of a name, a sign); what is      *)
(* missing from an item reads "undefined" when it becomes part of a text.  *)
(* Of jQuery UI's autocomplete (jquery-ui.min.js), which calls search.js,  *)
(* the keys, the timer and the closing of the menu are modelled.           *)
(***************************************************************************)
EXTENDS Filtering, SequencesExt, FiniteSets

CONSTANTS
    Key,                    \* what a key press adds to the field
    MaxLength,              \* bound on the length of the text in the field
    Lower,                  \* the lexemes of lower-case letters and digits
    Fold,                   \* a lexeme without its case
    Files,                  \* the index files on the server: <<category, "script" or "zip">>
    Content,                \* per file: its items, a sequence
    Page,                   \* per item: the page that documents it
    Cap,                    \* entries of a category that are always shown (500)
    UseModuleDirectories,
    Watermark, Absent, None

Categories == <<"Modules", "Packages", "Types", "Members", "SearchTags">>
Category == Range(Categories)
Missing == <<"undefined">>
Item == UNION {Range(Content[f]) : f \in Files}

ASSUME DocSearchAssumption ==
    /\ MaxLength \in Nat /\ Cap \in Nat \ {0}
    /\ Files \subseteq Category \X {"script", "zip"}
    /\ Content \in [Files -> Seq(Item)]
    /\ Absent \notin Files /\ Watermark \notin Seq(Key)
    /\ None \notin Item /\ None \notin {Page[i] : i \in Item}

\* As javadoc writes them: an index does not hold the same item twice.
ASSUME EachItemOnce ==
    \A f \in Files : \A i, j \in DOMAIN Content[f] : Content[f][i] = Content[f][j] => i = j

VARIABLES
    index,                  \* per category: the file it was last read from, or Absent
    asking,                 \* the files on their way
    ready,                  \* the ready handlers of search.js have run
    field, marked, focused, \* the text, the class "watermark" and the focus of #search
    timer,                  \* a key was pressed less than the delay of 100 ms ago
    asked,                  \* the term of the last search
    menu,                   \* the lines of the menu: headers and entries; <<>> if it is closed
    location                \* the page selected, or None: with it this page is left

page == <<index, asking>>
text == <<ready, field, marked, focused>>
vars == <<page, text, timer, asked, menu, location>>

Texts == BoundedSeq(Key, MaxLength)
Items(c) == IF index[c] = Absent THEN <<>> ELSE Content[index[c]]

-------------------------------------------------------------------------------
(* Loading *)

RequestsOneEach == {f \in Files : f[2] = "zip" \/ <<f[1], "zip">> \notin Files}

\* loadScripts asks for both files of every category: at that moment none of
\* the indexes is there.
Requests == Files

Init ==
    /\ index = [c \in Category |-> Absent]
    /\ asking = Requests
    /\ ready = FALSE /\ field = <<>> /\ marked = FALSE /\ focused = FALSE
    /\ timer = FALSE /\ asked = <<>> /\ menu = <<>> /\ location = None

\* A script is executed or a zip parsed; the later of the two files stays.
Arrives(f) ==
    /\ location = None /\ f \in asking
    /\ asking' = asking \ {f}
    /\ index' = [index EXCEPT ![f[1]] = f]
    /\ UNCHANGED <<text, timer, asked, menu, location>>

\* A zip cannot be fetched or read: none of the callbacks minds.
ZipLost(f) ==
    /\ location = None /\ f \in asking /\ f[2] = "zip"
    /\ asking' = asking \ {f}
    /\ UNCHANGED <<index, text, timer, asked, menu, location>>

Ready ==
    /\ ~ready /\ ready' = TRUE
    /\ field' = Watermark /\ marked' = TRUE /\ focused' = TRUE
    /\ UNCHANGED <<page, timer, asked, menu, location>>

-------------------------------------------------------------------------------
(* Searching *)

NestedName(item) ==
    LET dots == {i \in DOMAIN item.l : item.l[i] = "."}
    IN  IF dots = {} THEN item.l ELSE SubSeq(item.l, Max(dots) + 1, Len(item.l))

\* What the matchers are tried on.
ExactText(c, item) == IF c \in {"Types", "Members"} THEN NestedName(item) ELSE item.l
FullText(c, item) ==
    CASE c = "Packages" /\ item.m # Missing -> item.m \o <<"/">> \o item.l
      [] c = "Types" -> item.p \o <<".">> \o item.l
      [] c = "Members" -> item.c \o <<".">> \o item.l
      [] OTHER -> item.l
CamelText(c, item) == IF c = "Packages" THEN FullText(c, item) ELSE ExactText(c, item)

Folded(s) == [i \in DOMAIN s |-> Fold[s[i]]]
ExactMatch(term, s) == Folded(s) = Folded(term)
SecondaryMatch(term, s) ==
    \E i \in 0..(Len(s) - Len(term)) : Folded(SubSeq(s, i + 1, i + Len(term))) = Folded(term)

\* The term begins s, but each of its capitals may come after lower-case letters.
CamelCaseMatch(term, s) ==
    \E f \in [DOMAIN term -> DOMAIN s] :
        /\ f[1] = 1 /\ \A i \in DOMAIN term : s[f[i]] = term[i]
        /\ \A i \in DOMAIN term \ {1} :
               IF term[i] \in Lower THEN f[i] = f[i-1] + 1
               ELSE /\ f[i-1] < f[i]
                    /\ \A k \in (f[i-1] + 1)..(f[i] - 1) : s[k] \in Lower

IsExact(c, term, item) == ExactMatch(term, ExactText(c, item))
IsPrimary(c, term, item) ==
    IsExact(c, term, item) \/ (c # "SearchTags" /\ CamelCaseMatch(term, CamelText(c, item)))

\* The items of category c that are in a set, in the order of the index.
Primary(c, term) == {item \in Range(Items(c)) : IsPrimary(c, term, item)}
FoundPrimary(c, term) == Keep(Items(c), Primary(c, term))

\* The matches of a category: the secondary ones come last.
Found(c, term) ==
    LET other == {item \in Range(Items(c)) \ Primary(c, term) :
                    SecondaryMatch(term, FullText(c, item))}
    IN  Keep(Items(c), Primary(c, term)) \o Keep(Items(c), other)

ExactCount(c, term) ==
    Len(Keep(Items(c), {item \in Range(Items(c)) : IsExact(c, term, item)}))
DisplayCap(term) == Cap
DisplayCount(term) == Max({Cap} \cup {ExactCount(c, term) : c \in Category})

\* source, and response: what is shown for a term.
Entry(c, item) == [category |-> c, item |-> item]
NoResult == Entry(None, None)
Source(term) ==
    LET shown(c) == SubSeq(Found(c, term), 1, Min({DisplayCount(term), Len(Found(c, term))}))
        entries(c) == [i \in DOMAIN shown(c) |-> Entry(c, shown(c)[i])]
    IN  FlattenSeq([k \in DOMAIN Categories |-> entries(Categories[k])])
Response(entries) == IF entries = <<>> THEN <<NoResult>> ELSE entries

Header(c) == [category |-> c, item |-> None]
RenderEachHeader(entries) ==
    FlattenSeq([i \in DOMAIN entries |->
        IF entries[i] = NoResult THEN <<NoResult>>
        ELSE <<Header(entries[i].category), entries[i]>>])

\* _renderMenu: a header wherever the category changes.
RenderMenu(entries) ==
    FlattenSeq([i \in DOMAIN entries |->
        IF \/ entries[i] = NoResult
           \/ i > 1 /\ entries[i-1].category = entries[i].category
        THEN <<entries[i]>>
        ELSE <<Header(entries[i].category), entries[i]>>])

\* The widget's search: the source is asked for a text that is not empty.
SearchFor(term) ==
    /\ asked' = term
    /\ menu' = IF term = <<>> THEN <<>> ELSE RenderMenu(Response(Source(term)))

\* The delay is over. A text already searched and still shown is not searched again.
TimerFires ==
    /\ timer /\ timer' = FALSE
    /\ \/ (asked # field \/ menu = <<>>) /\ SearchFor(field)
       \/ asked = field /\ UNCHANGED <<asked, menu>>
    /\ UNCHANGED <<page, text, location>>

-------------------------------------------------------------------------------
(* The user *)

ClearedNever == field

\* The handler of click and keydown, which comes before the widget's.
Cleared == IF field = Watermark THEN <<>> ELSE field
Unmarked == marked /\ field # Watermark

Type(k) ==
    /\ focused /\ Len(Cleared) < MaxLength
    /\ field' = Append(Cleared, k) /\ marked' = Unmarked
    /\ timer' = TRUE
    /\ UNCHANGED <<page, ready, focused, asked, menu, location>>

Erase ==
    /\ focused
    /\ field' = IF Cleared = <<>> THEN <<>> ELSE Front(Cleared)
    /\ marked' = Unmarked /\ timer' = TRUE
    /\ UNCHANGED <<page, ready, focused, asked, menu, location>>

Click ==
    /\ ready /\ focused' = TRUE
    /\ field' = Cleared /\ marked' = Unmarked
    /\ UNCHANGED <<page, ready, timer, asked, menu, location>>

\* An arrow key searches at once, or moves in the menu and shows the value of the
\* entry reached, which has none, or beyond the entries the term again.
Arrow ==
    /\ focused /\ marked' = Unmarked
    /\ IF menu = <<>> THEN field' = Cleared /\ SearchFor(Cleared)
       ELSE field' \in {<<>>, asked} /\ UNCHANGED <<asked, menu>>
    /\ UNCHANGED <<page, ready, focused, timer, location>>

Escape ==
    /\ focused /\ menu # <<>>
    /\ field' = asked /\ menu' = <<>> /\ marked' = Unmarked
    /\ UNCHANGED <<page, ready, focused, timer, asked, location>>

BlurUnmarked ==
    /\ focused /\ focused' = FALSE
    /\ field' = IF field = <<>> THEN Watermark ELSE field
    /\ timer' = FALSE /\ menu' = <<>>
    /\ UNCHANGED <<page, ready, marked, asked, location>>

\* The field loses the focus; the widget stops its timer and closes the menu.
Blur ==
    /\ focused /\ focused' = FALSE
    /\ IF field = <<>> THEN field' = Watermark /\ marked' = TRUE
       ELSE UNCHANGED <<field, marked>>
    /\ timer' = FALSE /\ menu' = <<>>
    /\ UNCHANGED <<page, ready, asked, location>>

\* The button was clicked, so the field has lost the focus; the class stays.
Reset ==
    /\ ready /\ ~focused
    /\ field' = <<>> /\ focused' = TRUE
    /\ UNCHANGED <<page, ready, marked, timer, asked, menu, location>>

-------------------------------------------------------------------------------
(* Selecting *)

TypesOnly(entry) == entry.category = "Types"
OfPackage(entry) == entry.category \in {"Types", "Members"}

\* The module of a package, by the index of packages that is there now.
ModuleOf(p) ==
    LET homes == {k \in DOMAIN Items("Packages") :
                    Items("Packages")[k].m # Missing /\ Items("Packages")[k].l = p}
    IN  IF homes = {} THEN <<>> ELSE Items("Packages")[Max(homes)].m

\* getURLPrefix: the directory of the module.
URLPrefix(entry) ==
    CASE ~UseModuleDirectories -> <<>>
      [] entry.category = "Modules" -> entry.item.l
      [] entry.category = "Packages" /\ entry.item.m # Missing -> entry.item.m
      [] OfPackage(entry) -> ModuleOf(entry.item.p)
      [] OTHER -> <<>>

\* The page, as the directory of its module, the rest of its path and its anchor.
At(dir, path, anchor) == [dir |-> dir, path |-> path, anchor |-> anchor]
Unnamed == <<"<Unnamed>">>
InPackage(p) == IF p = Unnamed THEN <<>> ELSE p
URL(entry) ==
    LET item == entry.item
        dir == URLPrefix(entry)
        url == item.url # Missing
    IN  CASE entry.category = "Modules" ->
                 IF UseModuleDirectories THEN At(dir, <<>>, <<"module-summary">>)
                 ELSE At(<<>>, item.l, <<"summary">>)
          [] entry.category \in {"Packages", "Types"} /\ url -> At(<<>>, item.url, <<>>)
          [] entry.category = "Packages" -> At(dir, item.l, <<"package-summary">>)
          [] entry.category = "Types" -> At(dir, InPackage(item.p) \o item.l, <<>>)
          [] entry.category = "Members" ->
                 At(dir, InPackage(item.p) \o item.c, IF url THEN item.url ELSE item.l)
          [] entry.category = "SearchTags" -> At(<<>>, item.u, <<>>)

\* The handler calls a method of the package's name.
Throws(entry) ==
    /\ entry.item.p = Missing
    /\ \/ entry.category = "Members"
       \/ entry.category = "Types" /\ entry.item.url = Missing

Select(k) ==
    /\ k \in DOMAIN menu
    /\ menu[k].item # None \/ menu[k] = NoResult
    /\ IF menu[k] # NoResult /\ Throws(menu[k])
       THEN UNCHANGED <<field, asked, menu, location>>
       ELSE /\ location' = IF menu[k] = NoResult THEN location ELSE URL(menu[k])
            /\ field' = <<>> /\ asked' = <<>> /\ menu' = <<>>
    /\ UNCHANGED <<page, ready, marked, focused, timer>>

-------------------------------------------------------------------------------

User ==
    \/ (\E k \in Key : Type(k)) \/ Erase \/ Click \/ Arrow \/ Escape \/ Blur \/ Reset
    \/ \E k \in DOMAIN menu : Select(k)

Next ==
    \/ \E f \in Files : Arrives(f) \/ ZipLost(f)
    \/ location = None /\ (Ready \/ TimerFires \/ User)

\* The browser executes every script there is.
Spec == Init /\ [][Next]_vars /\ \A f \in Files : f[2] = "script" => WF_vars(Arrives(f))

-------------------------------------------------------------------------------
(* Properties *)

Entries == {k \in DOMAIN menu : menu[k].item # None}

TypeOK ==
    /\ index \in [Category -> Files \cup {Absent}]
    /\ asking \subseteq Files
    /\ field \in Texts \cup {Watermark} /\ asked \in Texts \cup {Watermark}
    /\ ready \in BOOLEAN /\ marked \in BOOLEAN /\ timer \in BOOLEAN /\ focused \in BOOLEAN
    /\ field = Watermark => marked
    /\ timer \/ menu # <<>> => focused
    /\ \A k \in Entries : menu[k].category \in Category /\ menu[k].item \in Item

\* The watermark the page itself writes into the field is never searched: no key,
\* click or late timer reaches the widget before the handlers have removed it. (The
\* keys cannot spell it, DocSearchAssumption: who types "Search" loses it again.)
WatermarkNotSearched == asked # Watermark

\* The menu that opens lists, of the indexes that are there at that moment, the items
\* with the term in their full name, each once and nothing it does not match,
\* and leaves out none but those of a category with more than its share of 500.
Opens == menu' # menu /\ menu' # <<>>
Listed(c) == {k \in DOMAIN menu' : menu'[k].category = c /\ menu'[k].item # None}
ListsWhatMatches ==
    [][Opens => \A c \in Category :
          LET listed == {menu'[k].item : k \in Listed(c)}
              with == {i \in Range(Items(c)) : SecondaryMatch(asked', FullText(c, i))}
          IN  /\ Cardinality(listed) = Cardinality(Listed(c))
              /\ listed \subseteq Range(Items(c))
              /\ \A i \in listed \ with : IsPrimary(c, asked', i)
              /\ with \subseteq listed \/ Cardinality(listed) >= Cap]_vars

\* An item that has exactly the name asked for is listed, however many there are,
\* unless items that merely begin like it come first (displayCount).
ExactListed ==
    [][Opens => \A c \in Category : \A j \in DOMAIN Items(c) :
          IsExact(c, asked', Items(c)[j]) =>
              \/ \E k \in Listed(c) : menu'[k].item = Items(c)[j]
              \/ \E i \in 1..(j - 1) : /\ ~IsExact(c, asked', Items(c)[i])
                                       /\ IsPrimary(c, asked', Items(c)[i])]_vars

\* Every entry stands under the header of its category, which is there once.
UnderItsHeader ==
    \A k \in Entries : \E h \in 1..(k - 1) :
        /\ menu[h] = Header(menu[k].category)
        /\ \A j \in DOMAIN menu : menu[j] = menu[h] => j = h
        /\ \A j \in h..k : menu[j].category = menu[h].category

\* Selecting an entry leads to the page of this entry, also when indexes have
\* arrived or been replaced since the menu opened; only the module's directory is
\* missing while the index of packages is not there.
LeadsToItsPage ==
    [][\A k \in Entries :
          Select(k) /\ location' # location =>
              \/ location' = Page[menu[k].item]
              \/ /\ index["Packages"] = Absent
                 /\ location' = [Page[menu[k].item] EXCEPT !.dir = <<>>]]_vars

\* Whatever becomes of the zip files, each index with a script is there in the
\* end, and stays, unless the page is left before.
EveryIndexArrives ==
    \A c \in Category :
        <<c, "script">> \in Files => <>[](index[c] # Absent \/ location # None)

===============================================================================
