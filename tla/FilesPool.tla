------------------------------ MODULE FilesPool ------------------------------
(***************************************************************************)
(* The pool of /ws/files connections of one SandboxFiles (#connect,        *)
(* #lease, #release, #dial of sandbox/files.ts) and the operations that    *)
(* share it: one-shot calls, and stream reads, whose consumer may cancel   *)
(* them at any time (startPull of sandbox/files-transfer.ts), composed     *)
(* with the connections themselves (FilesConnection).                      *)
(*                                                                         *)
(* A worker is one caller running one operation after another.  What an    *)
(* operation carries is left out: it is a sequence of requests on a leased *)
(* connection, each answered, refused by the server, or lost with the      *)
(* connection.  A frame goes to whoever is registered under its id; the    *)
(* answer frees the connection for the next request of the same operation  *)
(* or for release.                                                         *)
(*                                                                         *)
(* Operator_Fault is Operator with one plausible bug; no specification     *)
(* uses it.                                                                *)
(***************************************************************************)
EXTENDS Naturals, SequencesExt

CONSTANTS
    Workers,      \* callers of the files API
    NoWorker,     \* not a worker
    Conns,        \* bound: the connections that can be dialled
    NoConn,       \* not a connection
    MaxIdle,      \* FILES_MAX_IDLE_CONNECTIONS
    MaxRequestId  \* the largest request id, 65535 in the code

Wire == INSTANCE FilesConnection WITH Ops <- Workers, NoOp <- NoWorker

ASSUME MaxIdleAssumption == MaxIdle \in Nat
ASSUME NoConnAssumption == NoConn \notin Conns
ASSUME NoWorkerAssumption == NoWorker \notin Workers
ASSUME MaxRequestIdAssumption == MaxRequestId \in Nat \ {0}

VARIABLES
    conns,     \* per connection: what FilesConnection says of it
    scopes,    \* per connection: the scope of its token
    idle,      \* #idleConnections
    timers,    \* connections whose idle timer is armed
    workers,   \* per caller: where its operation is
    noticed,   \* history: connections on which a request failed while it was leased to
               \* who made it
    unnoticed  \* history: those on which one failed that a cancelled read had left in
               \* flight when it gave its lease back

vars == <<conns, scopes, idle, timers, workers, noticed, unnoticed>>

history == <<noticed, unnoticed>>

Scopes == {"read", "read write"}

\* phase: none, dialing, leased, busy with a request, or cancelled: the lease is
\* released with the request still in flight. failed: the lease has seen a request
\* fail. over: the operation has thrown.
Idler == [phase |-> "none", conn |-> NoConn, scope |-> "read", stream |-> FALSE,
          failed |-> FALSE, over |-> FALSE, aborted |-> FALSE]

Init ==
    /\ conns = [c \in Conns |-> Wire!Unused]
    /\ scopes = [c \in Conns |-> "read"]
    /\ idle = <<>>
    /\ timers = {}
    /\ workers = [w \in Workers |-> Idler]
    /\ noticed = {} /\ unnoticed = {}

\* An rw-scoped token covers read-only operations too.
Covers(c, scope) == scopes[c] = scope \/ scopes[c] = "read write"

IsOpen(c) == Wire!IsOpen(conns[c])

CloseSocket(c) == [conns EXCEPT ![c] = Wire!CloseSocket(@)]

\* Requests in flight, as the workers know them.
InFlight(c) ==
    {w \in Workers : workers[w].conn = c /\ workers[w].phase \in {"busy", "cancelled"}}

Holds(w, c) == workers[w].conn = c /\ workers[w].phase \in {"leased", "busy"}

-----------------------------------------------------------------------------
(* Leasing.                                                                *)

\* Positions of the pool that the loop of #connect pops: those that cover the
\* scope, up to the first that is open.
Fitting(scope) == {i \in DOMAIN idle : Covers(idle[i], scope)}

Usable(scope) == {i \in Fitting(scope) : IsOpen(idle[i])}

Chosen(scope) == CHOOSE i \in Usable(scope) : \A j \in Usable(scope) : i <= j

Popped(scope) ==
    IF Usable(scope) = {} THEN Fitting(scope)
    ELSE {i \in Fitting(scope) : i <= Chosen(scope)}

PoppedConns(scope) == {idle[i] : i \in Popped(scope)}

\* The sequence s without the connections cs, element by element.
RemoveConns(s, cs) ==
    LET kept[n \in 0..Len(s)] ==
            IF n = 0 THEN <<>>
            ELSE IF s[n] \in cs THEN kept[n - 1] ELSE Append(kept[n - 1], s[n])
    IN  kept[Len(s)]

Connect_KeepsEntry(w, scope, stream) ==
    /\ workers[w].phase = "none"
    /\ workers' = [workers EXCEPT ![w] =
          [phase |-> IF Usable(scope) = {} THEN "dialing" ELSE "leased",
           conn |-> IF Usable(scope) = {} THEN NoConn ELSE idle[Chosen(scope)],
           scope |-> scope, stream |-> stream, failed |-> FALSE,
           over |-> FALSE, aborted |-> FALSE]]
    /\ timers' = timers \ PoppedConns(scope)
    /\ UNCHANGED <<conns, scopes, idle, history>>

\* #connect(): a pooled connection that covers the scope, else a dial. The idle
\* timer of every entry popped is cleared, and the dead ones are closed.
Connect(w, scope, stream) ==
    /\ workers[w].phase = "none"
    /\ workers' = [workers EXCEPT ![w] =
          [phase |-> IF Usable(scope) = {} THEN "dialing" ELSE "leased",
           conn |-> IF Usable(scope) = {} THEN NoConn ELSE idle[Chosen(scope)],
           scope |-> scope, stream |-> stream, failed |-> FALSE,
           over |-> FALSE, aborted |-> FALSE]]
    /\ idle' = RemoveConns(idle, PoppedConns(scope))
    /\ timers' = timers \ PoppedConns(scope)
    /\ UNCHANGED <<conns, scopes, history>>

\* #dial() mints a token and opens a connection, which is leased.
DialDone(w) ==
    /\ workers[w].phase = "dialing"
    /\ \E c \in Conns :
          /\ conns[c].state = "unused"
          /\ conns' = [conns EXCEPT ![c] = Wire!Opened]
          /\ scopes' = [scopes EXCEPT ![c] = workers[w].scope]
          /\ workers' = [workers EXCEPT ![w].phase = "leased", ![w].conn = c]
    /\ UNCHANGED <<idle, timers, history>>

DialFails(w) ==
    /\ workers[w].phase = "dialing"
    /\ workers' = [workers EXCEPT ![w] = Idler]
    /\ UNCHANGED <<conns, scopes, idle, timers, history>>

\* #release(): back to the pool with its idle timer armed, unless it is dead or
\* the pool is full.
Pool(c) ==
    IF IsOpen(c) /\ Len(idle) < MaxIdle
    THEN /\ idle' = Append(idle, c)
         /\ timers' = timers \cup {c}
         /\ UNCHANGED conns
    ELSE conns' = CloseSocket(c) /\ UNCHANGED <<idle, timers>>

GiveBack_IgnoresFailure(w) == Pool(workers[w].conn)

GiveBack_Forgets(w) ==
    IF workers[w].failed THEN UNCHANGED <<conns, idle, timers>> ELSE Pool(workers[w].conn)

\* close() of the lease: a lease on which an operation failed is not pooled.
GiveBack(w) ==
    IF workers[w].failed
    THEN conns' = CloseSocket(workers[w].conn) /\ UNCHANGED <<idle, timers>>
    ELSE Pool(workers[w].conn)

\* The finally of an operation, once its requests are done.
Release(w) ==
    /\ workers[w].phase = "leased"
    /\ GiveBack(w)
    /\ workers' = [workers EXCEPT ![w] = Idler]
    /\ UNCHANGED <<scopes, history>>

-----------------------------------------------------------------------------
(* Requests.                                                               *)

\* call(), read() or write() on the leased connection, open or not.
Request(w) ==
    /\ workers[w].phase = "leased" /\ ~workers[w].over /\ ~workers[w].aborted
    /\ workers' = [workers EXCEPT ![w].phase = "busy"]
    /\ conns' = [conns EXCEPT ![workers[w].conn] = Wire!Register(@, w)]
    /\ UNCHANGED <<scopes, idle, timers, history>>

\* What a failed request leaves of its worker: the guard of the lease notes it,
\* a released lease does not matter any more.
Failed(r, over) ==
    IF r.phase = "busy" THEN [r EXCEPT !.phase = "leased", !.failed = TRUE, !.over = over]
    ELSE Idler

\* A write is refused for want of the parent directory, which is made on the same
\* connection before the write is tried again. Nothing else goes on after a failure.
MissingParent(r) == r.scope = "read write" /\ ~r.failed

\* What a request that ended well leaves of it: it goes on from its await.
Succeeded(r) == IF r.phase = "busy" THEN [r EXCEPT !.phase = "leased"] ELSE Idler

Noticed(ws) == {workers[w].conn : w \in {v \in ws : workers[v].phase = "busy"}}

Unnoticed(ws) == {workers[w].conn : w \in {v \in ws : workers[v].phase = "cancelled"}}

NoteFailures(ws) ==
    /\ noticed' = noticed \cup Noticed(ws)
    /\ unnoticed' = unnoticed \cup Unnoticed(ws)

\* The bridge has a request of this connection to serve, and its frames arrive.
Serving(c) == conns[c].state \in {"open", "closing"} /\ conns[c].queue # <<>>

\* The last frame of an answer, or an error: the socket stays open either way. Of
\* a request that is no longer registered nobody takes notice.
Reply(c) ==
    /\ Serving(c)
    /\ conns' = [conns EXCEPT ![c] = Wire!Answered(@)]
    /\ LET w == Wire!Addressee(conns[c]) IN
       \/ /\ w = NoWorker
          /\ UNCHANGED <<workers, history>>
       \/ /\ w # NoWorker
          /\ workers' = [workers EXCEPT ![w] = Succeeded(@)]
          /\ UNCHANGED history
       \/ /\ w # NoWorker
          /\ \E over \in {TRUE, ~MissingParent(workers[w])} :
                workers' = [workers EXCEPT ![w] = Failed(@, over)]
          /\ NoteFailures({w})
    /\ UNCHANGED <<scopes, idle, timers>>

\* A request fails and closes the socket with it: its inactivity timer fires, or a
\* data frame comes for a read whose stream was cancelled, where enqueueing throws.
RequestFails(w) ==
    /\ workers[w].phase \in {"busy", "cancelled"}
    /\ workers' = [workers EXCEPT ![w] = Failed(@, TRUE)]
    /\ NoteFailures({w})
    /\ conns' = [conns EXCEPT ![workers[w].conn] = Wire!CloseSocket(Wire!Deleted(@, w))]
    /\ UNCHANGED <<scopes, idle, timers>>

\* socket.onclose, for a socket this side closed or lost: every request pending
\* on it fails.
SocketClosed(c) ==
    /\ conns[c].state \in {"open", "closing"}
    /\ conns' = [conns EXCEPT ![c] = Wire!Lost]
    /\ LET lost == Wire!Registered(conns[c]) IN
       /\ workers' =
             [w \in Workers |-> IF w \in lost THEN Failed(workers[w], TRUE) ELSE workers[w]]
       /\ NoteFailures(lost)
    /\ UNCHANGED <<scopes, idle, timers>>

-----------------------------------------------------------------------------

\* The idle timer removes the entry from the pool, if it is there, and closes.
IdleTimer(c) ==
    /\ c \in timers
    /\ timers' = timers \ {c}
    /\ idle' = RemoveConns(idle, {c})
    /\ conns' = CloseSocket(c)
    /\ UNCHANGED <<scopes, workers, history>>

\* The consumer cancels its stream. abort() closes the lease at once, whether a
\* read is in flight or not; before there is a lease, startPull releases it.
Cancel(w) ==
    /\ workers[w].stream /\ ~workers[w].aborted
    /\ workers[w].phase \in {"dialing", "leased", "busy"}
    /\ IF workers[w].phase = "dialing"
       THEN /\ workers' = [workers EXCEPT ![w].aborted = TRUE]
            /\ UNCHANGED <<conns, idle, timers>>
       ELSE /\ GiveBack(w)
            /\ workers' = [workers EXCEPT ![w] =
                 IF @.phase = "busy" THEN [@ EXCEPT !.phase = "cancelled", !.aborted = TRUE]
                 ELSE Idler]
    /\ UNCHANGED <<scopes, history>>

-----------------------------------------------------------------------------
Next ==
    \/ \E w \in Workers :
          \/ \E scope \in Scopes, stream \in BOOLEAN :
                (stream => scope = "read") /\ Connect(w, scope, stream)
          \/ DialDone(w) \/ DialFails(w) \/ Release(w)
          \/ Request(w) \/ RequestFails(w) \/ Cancel(w)
    \/ \E c \in Conns : Reply(c) \/ SocketClosed(c) \/ IdleTimer(c)

Spec == Init /\ [][Next]_vars

-----------------------------------------------------------------------------
(* Properties.                                                             *)

\* A connection is leased to one caller at a time, and a leased one is not in
\* the pool, where another caller would find it.
LeaseExclusive ==
    \A w \in Workers, c \in Conns : Holds(w, c) =>
        /\ c \notin ToSet(idle)
        /\ \A v \in Workers \ {w} : ~Holds(v, c)

\* A connection on which a request failed while its lease was held is not handed to
\* anyone again, so the retries of reads and writes get a fresh session. (Not so if
\* the request fails when a cancelled read has given the lease back: the connection
\* has been pooled by then, and stays.)
FailedNotPooled ==
    \A c \in noticed : c \notin ToSet(idle)

\* Every open connection is accounted for: in the pool once, under a timer that
\* will close it, or in the hands of a caller, and then no timer closes it.
Accounted ==
    \A c \in Conns : IsOpen(c) =>
        \/ c \in ToSet(idle) /\ c \in timers
        \/ c \notin timers /\ \E w \in Workers : Holds(w, c)

\* What the bridge says in answer to a request is heard by the operation that made
\* it or by nobody, and by that operation as long as it waits: over cancelled
\* reads still in flight, failures, and the wrap of the request id.
RepliesReachOwner ==
    \A c \in Conns : \A i \in DOMAIN conns[c].queue :
        LET r == conns[c].queue[i] IN
        conns[c].pending[r.id] = IF r.op \in InFlight(c) THEN r.op ELSE NoWorker

\* What of the pool its callers can tell.
FreshConns == {c \in Conns : conns[c].state = "unused"}

OpenConns == {c \in Conns : IsOpen(c)}

Holders == {w \in Workers : workers[w].phase \in {"leased", "busy"}}

Adrift == {workers[w].conn : w \in {v \in Workers : workers[v].phase = "cancelled"}}

LeaseOf(w) == [worker |-> w, conn |-> workers[w].conn, scope |-> workers[w].scope]

Held == {LeaseOf(w) : w \in Holders}

Leases == INSTANCE FilesLeases WITH
    fresh <- FreshConns, open <- OpenConns, tokens <- scopes, pool <- ToSet(idle),
    leases <- Held, adrift <- Adrift, failed <- noticed, spoiled <- unnoticed

\* The pool gives its callers what FilesLeases promises: a connection of their own,
\* open, under a token that covers what they asked for, on which no request of a lease
\* has failed, and of other requests only such as a cancelled read had left in flight;
\* and it keeps every connection fit for this that it has room for and closes all others.
LeasesHold == Leases!Spec

\* files-ws-client.ts: "callers run one operation at a time", "Requests on a
\* connection are sequential".
Sequential ==
    \A c \in Conns, v, w \in Workers : {v, w} \subseteq InFlight(c) => v = w
=============================================================================
