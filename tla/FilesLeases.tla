----------------------------- MODULE FilesLeases -----------------------------
(***************************************************************************)
(* What the operations of one SandboxFiles may rely on when they ask for a *)
(* connection, without the order of the pool, the timers, the requests and *)
(* their ids: FilesPool is shown to implement it.                          *)
(*                                                                         *)
(* A caller has at most one connection, whose token covers what it asked   *)
(* for, and which nobody else has: one just dialled, or an idle one, which *)
(* is open and on which no request of a lease ever failed.  A connection   *)
(* given back is kept idle exactly when it is such a one and there is      *)
(* room, and is closed otherwise; no idle connection is dropped open.      *)
(*                                                                         *)
(* What is not promised: that nothing failed on it at all.  A connection   *)
(* may be given back with a request in flight, and what becomes of that    *)
(* request changes nothing in where the connection is, unless it is lost.  *)
(***************************************************************************)
EXTENDS Naturals, FiniteSets

CONSTANTS
    Workers,   \* callers of the files API
    Conns,     \* the connections that can be dialled
    MaxIdle    \* FILES_MAX_IDLE_CONNECTIONS

VARIABLES
    fresh,     \* connections not yet dialled
    open,      \* connections that can carry requests
    tokens,    \* per connection: the scope its token was minted for
    pool,      \* the idle connections, the dead ones nobody noticed included
    leases,    \* who has which connection, for which scope
    adrift,    \* connections with a request in flight whose lease has been given back
    failed,    \* connections on which a request of a lease failed
    spoiled    \* connections on which a request failed that had been set adrift

vars == <<fresh, open, tokens, pool, leases, adrift, failed, spoiled>>

Covers(c, scope) == tokens[c] \in {scope, "read write"}

Free(w) == \A l \in leases : l.worker # w

Init ==
    /\ fresh = Conns /\ open = {} /\ pool = {} /\ leases = {}
    /\ adrift = {} /\ failed = {} /\ spoiled = {}
    /\ tokens = [c \in Conns |-> "read"]

Lease(w, c, scope) ==
    /\ Free(w)
    /\ leases' = leases \cup {[worker |-> w, conn |-> c, scope |-> scope]}

\* Dead ones come to light when a caller looks for a connection.
Discard ==
    \E dead \in SUBSET (pool \ open) :
        /\ pool' = pool \ dead
        /\ UNCHANGED <<fresh, open, tokens, leases, adrift, failed, spoiled>>

Reuse(w, c, scope) ==
    /\ c \in pool \cap open /\ Covers(c, scope)
    /\ Lease(w, c, scope)
    /\ \E dead \in SUBSET (pool \ open) : pool' = pool \ (dead \cup {c})
    /\ UNCHANGED <<fresh, open, tokens, adrift, failed, spoiled>>

Dial(w, c, scope) ==
    /\ Lease(w, c, scope)
    /\ fresh' = fresh \ {c} /\ open' = open \cup {c}
    /\ tokens' = [tokens EXCEPT ![c] = scope]
    /\ UNCHANGED <<pool, adrift, failed, spoiled>>

GiveBack(l) ==
    /\ leases' = leases \ {l}
    /\ IF l.conn \in open \ failed /\ Cardinality(pool) < MaxIdle
       THEN pool' = pool \cup {l.conn} /\ UNCHANGED open
       ELSE open' = open \ {l.conn} /\ UNCHANGED pool
    /\ adrift' \in {adrift, adrift \cup {l.conn}}
    /\ UNCHANGED <<fresh, tokens, failed, spoiled>>

\* Requests adrift on a connection end: well, or not and the connection is spoiled.
Subside(c) ==
    /\ c \in adrift
    /\ adrift' \in {adrift, adrift \ {c}}
    /\ spoiled' \in {spoiled, spoiled \cup {c}}

\* A request of a lease fails. The connection may be lost with it, and then the
\* requests adrift on it end too.
Fail(l) ==
    /\ failed' = failed \cup {l.conn}
    /\ open' \in {open, open \ {l.conn}}
    /\ Subside(l.conn) \/ UNCHANGED <<adrift, spoiled>>
    /\ UNCHANGED <<fresh, tokens, pool, leases>>

\* Nobody hears of it.
FailUnseen(c) ==
    /\ Subside(c)
    /\ open' \in {open, open \ {c}}
    /\ UNCHANGED <<fresh, tokens, pool, leases, failed>>

Lose(c) ==
    /\ open' = open \ {c}
    /\ UNCHANGED <<fresh, tokens, pool, leases, adrift, failed, spoiled>>

\* An idle connection is closed as it leaves the pool.
Expire(c) ==
    /\ pool' = pool \ {c} /\ open' = open \ {c}
    /\ UNCHANGED <<fresh, tokens, leases, adrift, failed, spoiled>>

Next ==
    \/ \E w \in Workers, scope \in {"read", "read write"} :
          \/ \E c \in pool : Reuse(w, c, scope)
          \/ \E c \in fresh : Dial(w, c, scope)
    \/ \E l \in leases : GiveBack(l) \/ Fail(l)
    \/ \E c \in pool : Expire(c)
    \/ \E c \in open : Lose(c)
    \/ \E c \in adrift : FailUnseen(c)
    \/ Discard

Spec == Init /\ [][Next]_vars
=============================================================================
