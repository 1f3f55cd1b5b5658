------------------------------ MODULE UnitOfWork ------------------------------
(***************************************************************************)
(* What a SqlSession promises to its caller. A session collects the writes *)
(* it executes; commit makes all of them durable, rollback and close make  *)
(* none of them durable, and a session in auto-commit mode makes each one  *)
(* durable as it is executed. A call that reports success has done just    *)
(* that: in particular, no commit or rollback succeeds once the work it    *)
(* would end is lost with its connection.                                  *)
(*                                                                         *)
(* reply is the last call and what it answered.                            *)
(***************************************************************************)
CONSTANTS
    Session,
    Write       \* the writes that can be executed, each told from the others

VARIABLES
    db,         \* the durable writes
    mode,       \* per session: "none", "manual" or "auto"
    work,       \* per session: the writes executed and not yet ended
    lost,       \* the sessions whose connection is gone
    reply

vars == <<db, mode, work, lost, reply>>

Op == {"open", "select", "update", "commit", "rollback", "close"}
Reply == [session : Session, op : Op, ok : BOOLEAN, seen : SUBSET Write]

Answer(s, op, ok) == reply' = [session |-> s, op |-> op, ok |-> ok, seen |-> {}]

Init ==
    /\ db = {}
    /\ mode = [s \in Session |-> "none"]
    /\ work = [s \in Session |-> {}]
    /\ lost = {}
    /\ reply \in [session : Session, op : {"close"}, ok : {TRUE}, seen : {{}}]

Open(s) ==
    /\ mode[s] = "none"
    /\ \E m \in {"manual", "auto"} : mode' = [mode EXCEPT ![s] = m]
    /\ Answer(s, "open", TRUE)
    /\ UNCHANGED <<db, work, lost>>

Executed(s, w) ==
    \/ mode[s] = "auto" /\ db' = db \cup {w} /\ UNCHANGED work
    \/ mode[s] = "manual" /\ work' = [work EXCEPT ![s] = @ \cup {w}] /\ UNCHANGED db

Update(s) ==
    /\ s \notin lost
    /\ \E w \in Write : Executed(s, w)
    /\ Answer(s, "update", TRUE)
    /\ UNCHANGED <<mode, lost>>

\* The answer to a query: all its own work, and beyond that nothing that is
\* not durable.
Select(s) ==
    /\ mode[s] # "none"
    /\ \E seen \in SUBSET (db \cup work[s]) :
        /\ work[s] \subseteq seen
        /\ reply' = [session |-> s, op |-> "select", ok |-> TRUE, seen |-> seen]
    /\ UNCHANGED <<db, mode, work, lost>>

\* A failed call changes nothing, or has executed its write.
Fail(s) ==
    /\ \E op \in Op : Answer(s, op, FALSE)
    /\ \/ UNCHANGED <<db, work>>
       \/ s \notin lost /\ \E w \in Write : Executed(s, w)
    /\ UNCHANGED <<mode, lost>>

\* Ending work takes the connection it was done on.
Endable(s) == work[s] # {} => s \notin lost

Commit(s) ==
    /\ Endable(s)
    /\ db' = db \cup work[s]
    /\ work' = [work EXCEPT ![s] = {}]
    /\ Answer(s, "commit", TRUE)
    /\ UNCHANGED <<mode, lost>>

\* The connection breaks in the middle of a commit: all or nothing is durable,
\* and the caller is not told that it succeeded.
CommitBreaks(s) ==
    /\ s \notin lost
    /\ db' \in {db, db \cup work[s]}
    /\ lost' = lost \cup {s}
    /\ Answer(s, "commit", FALSE)
    /\ UNCHANGED <<mode, work>>

Rollback(s) ==
    /\ Endable(s)
    /\ work' = [work EXCEPT ![s] = {}]
    /\ Answer(s, "rollback", TRUE)
    /\ UNCHANGED <<db, mode, lost>>

Close(s) ==
    /\ mode' = [mode EXCEPT ![s] = "none"]
    /\ work' = [work EXCEPT ![s] = {}]
    /\ lost' = lost \ {s}
    /\ Answer(s, "close", TRUE)
    /\ UNCHANGED db

Lose(s) ==
    /\ lost' = lost \cup {s}
    /\ UNCHANGED <<db, mode, work, reply>>

Next == \E s \in Session :
    \/ Open(s) \/ Update(s) \/ Select(s) \/ Fail(s) \/ Commit(s)
    \/ CommitBreaks(s) \/ Rollback(s) \/ Close(s) \/ Lose(s)

Spec == Init /\ [][Next]_vars
===============================================================================
