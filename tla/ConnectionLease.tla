--------------------------- MODULE ConnectionLease ---------------------------
(***************************************************************************)
(* What a connection pool promises its clients, with no lists, locks or    *)
(* waiting. A client that asks is granted a connection that is nobody      *)
(* else's and has no work of anybody on it. It keeps it until it returns   *)
(* it, unless its time is over or the pool is being reconfigured; then the *)
(* lease may be revoked, and the client is left with a wrapper of no right.*)
(* Only a client that has been granted a connection works on it.           *)
(***************************************************************************)
CONSTANTS Client, Real, NoReal

VARIABLES
    wrapper,    \* per client: the connection it was granted
    live,       \* per client: whether the lease is in force
    late,       \* the clients whose time is over
    work,       \* per connection: the clients with uncommitted work on it
    changing    \* the pool is being reconfigured

vars == <<wrapper, live, late, work, changing>>

Init ==
    /\ wrapper = [c \in Client |-> NoReal]
    /\ live = [c \in Client |-> FALSE]
    /\ late = {}
    /\ work = [r \in Real |-> {}]
    /\ changing = FALSE

\* Work on r stays as it is, or is rolled back (or committed), or is lost.
Ended(r) == work' = [work EXCEPT ![r] = {}] \/ UNCHANGED work

Grant(c) ==
    /\ wrapper[c] = NoReal
    /\ \E r \in Real :
        /\ \A d \in Client : live[d] => wrapper[d] # r
        /\ wrapper' = [wrapper EXCEPT ![c] = r]
        /\ work' = [work EXCEPT ![r] = {}]
    /\ live' = [live EXCEPT ![c] = TRUE]
    /\ late' = late \ {c}
    /\ UNCHANGED changing

\* Any call through the wrapper. The one way in which the pool is weaker than
\* its clients might wish: a call on its way when its lease is revoked, or one
\* that reads a stale flag, may still reach the connection.
Use(c) ==
    /\ wrapper[c] # NoReal
    /\ \/ work' = [work EXCEPT ![wrapper[c]] = @ \cup {c}]
       \/ Ended(wrapper[c])
    /\ UNCHANGED <<wrapper, live, late, changing>>

\* A return through a wrapper of no right leaves the connection alone.
Return(c) ==
    /\ wrapper[c] # NoReal
    /\ UNCHANGED work \/ (live[c] /\ Ended(wrapper[c]))
    /\ wrapper' = [wrapper EXCEPT ![c] = NoReal]
    /\ live' = [live EXCEPT ![c] = FALSE]
    /\ late' = late \ {c}
    /\ UNCHANGED changing

Expire(c) ==
    /\ live[c]
    /\ late' = late \cup {c}
    /\ UNCHANGED <<wrapper, live, work, changing>>

Revoke(c) ==
    /\ live[c] /\ c \in late
    /\ live' = [live EXCEPT ![c] = FALSE]
    /\ Ended(wrapper[c])
    /\ UNCHANGED <<wrapper, late, changing>>

BeginChange ==
    /\ ~changing /\ changing' = TRUE
    /\ UNCHANGED <<wrapper, live, late, work>>

\* Any leases may be revoked, and work may be ended on any connections.
EndChange ==
    /\ changing /\ changing' = FALSE
    /\ \E revoked \in SUBSET Client : live' = [c \in Client |-> live[c] /\ c \notin revoked]
    /\ \E ended \in SUBSET Real : work' = [r \in Real |-> IF r \in ended THEN {} ELSE work[r]]
    /\ UNCHANGED <<wrapper, late>>

\* The server, or the pool itself, closes a connection or opens another in
\* its place, whoever has it.
Lose ==
    /\ \E r \in Real : work' = [work EXCEPT ![r] = {}]
    /\ UNCHANGED <<wrapper, live, late, changing>>

Next ==
    \/ \E c \in Client : Grant(c) \/ Use(c) \/ Return(c) \/ Expire(c) \/ Revoke(c)
    \/ BeginChange \/ EndChange \/ Lose

Spec == Init /\ [][Next]_vars
===============================================================================
