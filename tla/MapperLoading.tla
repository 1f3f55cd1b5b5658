---------------------------- MODULE MapperLoading ----------------------------
(***************************************************************************)
(* How mappers get into a Configuration: MapperRegistry.addMapper, which   *)
(* has MapperBuilder read the XML file beside the interface, XMLMapper-    *)
(* Builder with its result maps and statements, the StrictMaps they are    *)
(* put into, the statements left incomplete for a later retry, and the     *)
(* lookups that retry them once more.                                      *)
(*                                                                         *)
(* Loading and looking up are one thread's calls, but any element of a     *)
(* file may fail, so a load is a step for each element. The mappers of a   *)
(* package come out of a HashSet, and addMapper may also be called         *)
(* directly: the order of the calls is free.                               *)
(***************************************************************************)
EXTENDS Naturals, SequencesExt

CONSTANTS
    Mapper,     \* mapper interfaces
    Name,       \* the simple names of result maps and of statements
    File,       \* the XML files there may be
    NoMapper, Nothing, Ambiguous,
    MaxPending  \* bound: no load begins with more incomplete statements

Full == Mapper \X Name              \* full names: a mapper's, then a simple one
Short(n) == <<NoMapper, n>>         \* a simple name on its own
Key == (Mapper \cup {NoMapper}) \X Name
Entry == Full \cup {Nothing, Ambiguous}

\* Elements of a file; a bad one makes parsing throw (an unknown class, say).
ResultMap == [id : Name, bad : BOOLEAN]
Statement == [id : Name, refs : SUBSET Key, bad : BOOLEAN]
Element == [mapper : Mapper, statement : Statement]

ASSUME LoadingAssumption ==
    /\ NoMapper \notin Mapper
    /\ Nothing # Ambiguous
    /\ Nothing \notin Full /\ Ambiguous \notin Full
    /\ File \subseteq [resultMaps : Seq(ResultMap), statements : Seq(Statement)]
    /\ Nothing \notin File
    /\ MaxPending \in Nat

VARIABLES
    file,            \* the XML file of each mapper, or Nothing
    known,           \* MapperRegistry.knownMappers
    xmlLoaded,       \* loadedResources: the mappers whose XML file is among them,
    interfaceLoaded, \* and those whose interface is
    resultMaps,      \* the StrictMap of result maps: what each name stands for
    statements,      \* the StrictMap of mapped statements
    bound,           \* per statement: its references, with the result maps found
    pending,         \* incompleteStatements
    loading,         \* the mapper addMapper is at work on
    phase, next      \* what is being read, and which element of it is next

configuration == <<known, xmlLoaded, interfaceLoaded, resultMaps, statements, bound, pending>>
vars == <<file, configuration, loading, phase, next>>

\* The types of the variables; besides, a mapper is known while it is loaded
\* (XMLMapperBuilder would otherwise add it once more).
TypeOK ==
    /\ file \in [Mapper -> File \cup {Nothing}]
    /\ known \in SUBSET Mapper
    /\ xmlLoaded \in SUBSET Mapper
    /\ interfaceLoaded \in SUBSET Mapper
    /\ resultMaps \in [Key -> Entry]
    /\ statements \in [Key -> Entry]
    /\ bound \in [Full -> SUBSET (Key \X Entry)]
    /\ pending \in Seq(Element)
    /\ phase \in {"idle", "maps", "statements", "retry", "build"}
    /\ next \in Nat \ {0}
    /\ loading \in Mapper \cup {NoMapper}
    /\ IF phase \in {"idle", "build"}
       THEN loading = NoMapper
       ELSE loading \in known /\ file[loading] # Nothing

Init ==
    /\ file \in [Mapper -> File \cup {Nothing}]
    /\ known = {} /\ xmlLoaded = {} /\ interfaceLoaded = {}
    /\ resultMaps = [k \in Key |-> Nothing]
    /\ statements = [k \in Key |-> Nothing]
    /\ bound = [k \in Full |-> {}]
    /\ pending = <<>>
    /\ loading = NoMapper /\ phase = "idle" /\ next = 1

-------------------------------------------------------------------------------
(* StrictMap: a full name is put once, its simple name stands for it as long  *)
(* as it is the only one.                                                     *)

\* Mutant: a HashMap's put, which replaces.
FreshAlways(map, k) == TRUE

Fresh(map, k) == map[k] = Nothing

\* Mutants: the simple name stands for the last one put, or for the first.
PutLastWins(map, k) == [map EXCEPT ![k] = k, ![Short(k[2])] = k]
PutFirstWins(map, k) ==
    [map EXCEPT ![k] = k, ![Short(k[2])] = IF @ = Nothing THEN k ELSE @]

Put(map, k) == [map EXCEPT ![k] = k, ![Short(k[2])] = IF @ = Nothing THEN k ELSE Ambiguous]

\* get throws for a name that stands for nothing, or for several.
Gets(map, k) == map[k] \notin {Nothing, Ambiguous}

-------------------------------------------------------------------------------
(* The elements of a file. *)

\* getStatementResultMaps finds all result maps; else the statement is
\* incomplete.
Complete(e) == \A r \in e.refs : Gets(resultMaps, r)

Register(m, e) ==
    /\ statements' = Put(statements, <<m, e.id>>)
    /\ bound' = [bound EXCEPT ![<<m, e.id>>] = {<<r, resultMaps[r]>> : r \in e.refs}]

ThisResultMap == file[loading].resultMaps[next]
ThisStatement == file[loading].statements[next]

ReadResultMap ==
    /\ phase = "maps" /\ next <= Len(file[loading].resultMaps)
    /\ ~ThisResultMap.bad /\ Fresh(resultMaps, <<loading, ThisResultMap.id>>)
    /\ resultMaps' = Put(resultMaps, <<loading, ThisResultMap.id>>)
    /\ next' = next + 1
    /\ UNCHANGED <<file, known, xmlLoaded, interfaceLoaded, statements, bound, pending, loading, phase>>

ResultMapsRead ==
    /\ phase = "maps" /\ next > Len(file[loading].resultMaps)
    /\ phase' = "statements" /\ next' = 1
    /\ UNCHANGED <<file, configuration, loading>>

ReadStatement ==
    /\ phase = "statements" /\ next <= Len(file[loading].statements)
    /\ ~ThisStatement.bad /\ Complete(ThisStatement)
    /\ Fresh(statements, <<loading, ThisStatement.id>>)
    /\ Register(loading, ThisStatement)
    /\ next' = next + 1
    /\ UNCHANGED <<file, known, xmlLoaded, interfaceLoaded, resultMaps, pending, loading, phase>>

PostponeStatement ==
    /\ phase = "statements" /\ next <= Len(file[loading].statements)
    /\ ~ThisStatement.bad /\ ~Complete(ThisStatement)
    /\ pending' = Append(pending, [mapper |-> loading, statement |-> ThisStatement])
    /\ next' = next + 1
    /\ UNCHANGED <<file, known, xmlLoaded, interfaceLoaded, resultMaps, statements, bound, loading, phase>>

\* The file is marked as loaded; bindMapperForTarget finds its mapper known.
StatementsRead ==
    /\ phase = "statements" /\ next > Len(file[loading].statements)
    /\ xmlLoaded' = xmlLoaded \cup {loading}
    /\ phase' = "retry" /\ next' = 1
    /\ UNCHANGED <<file, known, interfaceLoaded, resultMaps, statements, bound, pending, loading>>

\* Mutant: no finally, a mapper that failed stays known.
AbortKeepsKnown ==
    /\ loading' = NoMapper /\ phase' = "idle" /\ next' = 1
    /\ UNCHANGED <<file, configuration>>

\* The exception leaves addMapper, which takes the mapper back and nothing else.
Abort ==
    /\ known' = known \ {loading}
    /\ loading' = NoMapper /\ phase' = "idle" /\ next' = 1
    /\ UNCHANGED <<file, xmlLoaded, interfaceLoaded, resultMaps, statements, bound, pending>>

\* A bad element, or a name put before.
ElementFails ==
    /\ \/ /\ phase = "maps" /\ next <= Len(file[loading].resultMaps)
          /\ ThisResultMap.bad \/ ~Fresh(resultMaps, <<loading, ThisResultMap.id>>)
       \/ /\ phase = "statements" /\ next <= Len(file[loading].statements)
          /\ \/ ThisStatement.bad
             \/ Complete(ThisStatement) /\ ~Fresh(statements, <<loading, ThisStatement.id>>)
    /\ Abort

-------------------------------------------------------------------------------
(* Statements left incomplete: XMLMapperBuilder.parse retries all of them at  *)
(* the end of a file, buildAllStatements before every lookup.                 *)

Retrying == phase \in {"retry", "build"}
ThisPending == pending[next]

\* Mutant: having removed an element, the loop goes on to the one after the next.
RetrySkips ==
    /\ Retrying /\ next <= Len(pending)
    /\ Complete(ThisPending.statement)
    /\ Fresh(statements, <<ThisPending.mapper, ThisPending.statement.id>>)
    /\ Register(ThisPending.mapper, ThisPending.statement)
    /\ pending' = RemoveAt(pending, next)
    /\ next' = next + 1
    /\ UNCHANGED <<file, known, xmlLoaded, interfaceLoaded, resultMaps, loading, phase>>

RetryCompletes ==
    /\ Retrying /\ next <= Len(pending)
    /\ Complete(ThisPending.statement)
    /\ Fresh(statements, <<ThisPending.mapper, ThisPending.statement.id>>)
    /\ Register(ThisPending.mapper, ThisPending.statement)
    /\ pending' = RemoveAt(pending, next)
    /\ UNCHANGED <<file, known, xmlLoaded, interfaceLoaded, resultMaps, loading, phase, next>>

\* Still incomplete: the end of a file passes over it, a lookup throws.
RetryIncomplete ==
    /\ Retrying /\ next <= Len(pending)
    /\ ~Complete(ThisPending.statement)
    /\ IF phase = "retry"
       THEN next' = next + 1 /\ UNCHANGED phase
       ELSE next' = 1 /\ phase' = "idle"
    /\ UNCHANGED <<file, configuration, loading>>

\* Complete now, but its name has been put before: neither caller catches that.
RetryFails ==
    /\ Retrying /\ next <= Len(pending)
    /\ Complete(ThisPending.statement)
    /\ ~Fresh(statements, <<ThisPending.mapper, ThisPending.statement.id>>)
    /\ \/ phase = "retry" /\ Abort
       \/ /\ phase = "build"
          /\ phase' = "idle" /\ next' = 1
          /\ UNCHANGED <<file, configuration, loading>>

\* Back in MapperBuilder.parse, which marks the interface as loaded.
Loaded ==
    /\ phase = "retry" /\ next > Len(pending)
    /\ interfaceLoaded' = interfaceLoaded \cup {loading}
    /\ loading' = NoMapper /\ phase' = "idle" /\ next' = 1
    /\ UNCHANGED <<file, known, xmlLoaded, resultMaps, statements, bound, pending>>

\* The lookup itself, which changes nothing.
Built ==
    /\ phase = "build" /\ next > Len(pending)
    /\ phase' = "idle" /\ next' = 1
    /\ UNCHANGED <<file, configuration, loading>>

-------------------------------------------------------------------------------
(* The calls. *)

\* Mutant: a mapper becomes known when it has been parsed.
AddMapperLate(m) ==
    /\ phase = "idle" /\ Len(pending) <= MaxPending
    /\ m \notin known /\ m \notin interfaceLoaded /\ file[m] # Nothing
    /\ loading' = m /\ next' = 1
    /\ phase' = IF m \in xmlLoaded THEN "retry" ELSE "maps"
    /\ UNCHANGED <<file, configuration>>

\* A load that fails leaves its incomplete statements, and another attempt adds
\* them again: MaxPending ends that.
AddMapper(m) ==
    /\ phase = "idle" /\ Len(pending) <= MaxPending
    /\ m \notin known
    /\ known' = known \cup {m}
    /\ \/ /\ m \in interfaceLoaded \/ file[m] = Nothing
          /\ interfaceLoaded' = interfaceLoaded \cup {m}
          /\ UNCHANGED <<loading, phase, next>>
       \/ /\ m \notin interfaceLoaded /\ file[m] # Nothing
          /\ loading' = m /\ next' = 1
          /\ phase' = IF m \in xmlLoaded THEN "retry" ELSE "maps"
          /\ UNCHANGED interfaceLoaded
    /\ UNCHANGED <<file, xmlLoaded, resultMaps, statements, bound, pending>>

\* Mutant: the check is inside the try, so its exception forgets the mapper.
AddAgainForgets(m) ==
    /\ phase = "idle" /\ m \in known
    /\ known' = known \ {m}
    /\ UNCHANGED <<file, xmlLoaded, interfaceLoaded, resultMaps, statements, bound, pending, loading, phase, next>>

\* A known mapper is refused with an exception.
AddAgain(m) ==
    /\ phase = "idle" /\ m \in known
    /\ UNCHANGED vars

\* getMappedStatement and hasStatement
Lookup ==
    /\ phase = "idle"
    /\ phase' = "build" /\ next' = 1
    /\ UNCHANGED <<file, configuration, loading>>

Next ==
    \/ \E m \in Mapper : AddMapper(m) \/ AddAgain(m)
    \/ ReadResultMap \/ ResultMapsRead
    \/ ReadStatement \/ PostponeStatement \/ StatementsRead
    \/ ElementFails
    \/ RetryCompletes \/ RetryIncomplete \/ RetryFails
    \/ Loaded \/ Lookup \/ Built

Spec == Init /\ [][Next]_vars

-------------------------------------------------------------------------------
(* What loading promises, whatever files fail and in whatever order.          *)

\* A full name stands for itself or for nothing; a simple name stands for a
\* full one exactly if no other full name ends in it.
Unambiguous(map) ==
    /\ \A k \in Full : map[k] \in {k, Nothing}
    /\ \A n \in Name :
        \/ /\ map[Short(n)] = Nothing
           /\ \A m \in Mapper : map[<<m, n>>] = Nothing
        \/ \E m \in Mapper :
            /\ map[Short(n)] = <<m, n>>
            /\ \A d \in Mapper : map[<<d, n>>] # Nothing <=> d = m
        \/ /\ map[Short(n)] = Ambiguous
           /\ \E m, d \in Mapper : m # d /\ map[<<m, n>>] # Nothing /\ map[<<d, n>>] # Nothing
ShortNames == Unambiguous(resultMaps) /\ Unambiguous(statements)

MapsRead(m) ==
    \A i \in DOMAIN file[m].resultMaps : resultMaps[<<m, file[m].resultMaps[i].id>>] # Nothing

\* There is a statement of that name, or this one waits for a retry.
Accounted(m, e) ==
    \/ statements[<<m, e.id>>] # Nothing
    \/ [mapper |-> m, statement |-> e] \in Range(pending)

\* A mapper that can be got has been read to the end: its result maps are
\* there, and each of its statements is accounted for.
KnownIsLoaded ==
    \A m \in known \ {loading} :
        /\ m \in interfaceLoaded
        /\ file[m] # Nothing =>
            /\ MapsRead(m)
            /\ \A i \in DOMAIN file[m].statements : Accounted(m, file[m].statements[i])

\* A statement's reference is to the result map of that full name, or to one of
\* that simple name, which is its own mapper's if that has one: no order of
\* files makes a statement use somebody else's result map instead of its own.
BindingsRight ==
    \A m \in Mapper, i \in Name : \A b \in bound[<<m, i>>] :
        /\ b[1] \in Full => b[2] = b[1]
        /\ b[1] \notin Full =>
            /\ \E d \in Mapper : b[2] = <<d, b[1][2]>>
            /\ resultMaps[<<m, b[1][2]>>] # Nothing => b[2] = <<m, b[1][2]>>

\* A statement is never replaced, nor bound again, by a later one of its name.
NothingReplaced ==
    [][\A k \in Full : statements[k] # Nothing =>
          statements'[k] = statements[k] /\ bound'[k] = bound[k]]_vars

\* Only a mapper's own failed load makes it unknown; being added again does not.
KnownForGood == [][\A m \in known : m \in known' \/ m = loading]_vars

\* A load that succeeds has retried every incomplete statement, of whatever
\* file: those it leaves cannot be completed.
RetryIsThorough ==
    [][Loaded => \A i \in DOMAIN pending : ~Complete(pending[i].statement)]_vars

-------------------------------------------------------------------------------
(* What the comments promise and the code does not do. *)

\* MapperBuilderAssistant.java:293-297: a statement gets its result map by the
\* full name; other mappers' files are reached by writing it out. So one that
\* refers to result maps of its own file by simple names is complete when the
\* file is loaded.
OwnMapsSuffice ==
    \A i \in DOMAIN pending :
        \E r \in pending[i].statement.refs :
            r \in Full \/ resultMaps[<<pending[i].mapper, r[2]>>] = Nothing
===============================================================================
