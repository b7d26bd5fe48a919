--------------------------- MODULE FilesPoolProofs ---------------------------
(***************************************************************************)
(* The connection pool, for any callers, connections, size of the pool and *)
(* range of request ids: a lease is exclusive, a connection on which a     *)
(* leased request failed is never pooled, no open connection is forgotten, *)
(* and - as long as there are at least as many ids as callers - an answer  *)
(* reaches the operation that asked, over cancelled reads and the wrap of  *)
(* the ids.                                                                *)
(***************************************************************************)
EXTENDS FilesPool, FiniteSetTheorems, WellFoundedInduction, TLAPS

-----------------------------------------------------------------------------
(* The inductive invariant.                                                *)

Conn == [state: {"unused", "open", "closing", "closed"}, nextId: 1..MaxRequestId,
         pending: [1..MaxRequestId -> Workers \cup {NoWorker}],
         queue: Seq([id: 1..MaxRequestId, op: Workers])]

Worker == [phase: {"none", "dialing", "leased", "busy", "cancelled"},
           conn: Conns \cup {NoConn}, scope: Scopes, stream: BOOLEAN, failed: BOOLEAN,
           over: BOOLEAN, aborted: BOOLEAN]

PoolTypeOK ==
    /\ conns \in [Conns -> Conn]
    /\ scopes \in [Conns -> Scopes]
    /\ idle \in Seq(Conns)
    /\ timers \in SUBSET Conns
    /\ workers \in [Workers -> Worker]
    /\ noticed \in SUBSET Conns /\ unnoticed \in SUBSET Conns

Injective(s) == \A i, j \in 1..Len(s) : s[i] = s[j] => i = j

Members(s) == {s[i] : i \in 1..Len(s)}

\* The pool and the idle timers are about the same connections.
IdleInv ==
    /\ Injective(idle)
    /\ timers = Members(idle)

\* A connection in use, or in the pool, has been dialled; one in use by nobody has
\* nobody's name on it.
UseInv ==
    /\ \A w \in Workers :
          /\ workers[w].phase \in {"none", "dialing"} <=> workers[w].conn = NoConn
          /\ workers[w].phase = "dialing" => ~workers[w].failed
          /\ workers[w].conn \in Conns => conns[workers[w].conn].state # "unused"
    /\ \A c \in Members(idle) \cup noticed : conns[c].state # "unused"

LeaseInv ==
    \A w \in Workers, c \in Conns : Holds(w, c) =>
        /\ c \notin Members(idle)
        /\ \A v \in Workers \ {w} : ~Holds(v, c)

\* A connection on which a leased request failed is not pooled, nor will its holder
\* pool it.
PoisonInv ==
    \A c \in noticed :
        /\ c \notin Members(idle)
        /\ \A w \in Workers : Holds(w, c) => workers[w].failed

AccountInv ==
    \A c \in Conns : IsOpen(c) =>
        c \in Members(idle) \/ \E w \in Workers : Holds(w, c)

\* The id given out d requests before n is.
Back(n, d) == IF n > d THEN n - d ELSE n - d + MaxRequestId

\* The requests the bridge has not answered bear the ids given out last, and are of
\* different operations.
QueueInv(c) ==
    LET q == conns[c].queue IN
    /\ \A k \in 1..Len(q) : q[k].id = Back(conns[c].nextId, Len(q) + 1 - k)
    /\ \A j, k \in 1..Len(q) : q[j].op = q[k].op => j = k

\* An operation whose request is queued waits for it, or has failed on a connection
\* that is no longer open; and who waits has a request in the queue.
WaitInv(c) ==
    LET q == conns[c].queue IN
    /\ \A k \in 1..Len(q) :
          \/ q[k].op \in InFlight(c)
          \/ ~IsOpen(c) /\ \A v \in Workers : v = q[k].op /\ Holds(v, c) => workers[v].over
    /\ \A w \in InFlight(c) : \E k \in 1..Len(q) : q[k].op = w

\* Whoever is registered under an id is registered for a request in the queue, and
\* all who wait are registered.
PendingInv(c) ==
    LET q == conns[c].queue IN
    /\ \A i \in 1..MaxRequestId : conns[c].pending[i] # NoWorker =>
          \E k \in 1..Len(q) : q[k].id = i /\ q[k].op = conns[c].pending[i]
    /\ \A k \in 1..Len(q) : conns[c].pending[q[k].id] =
          IF q[k].op \in InFlight(c) THEN q[k].op ELSE NoWorker

\* Only who waits is registered, and under one id: even when ids are so few that a
\* request takes the id of another one.
RegisteredInv(c) ==
    \A i \in 1..MaxRequestId : conns[c].pending[i] # NoWorker =>
        /\ conns[c].pending[i] \in InFlight(c)
        /\ \A j \in 1..MaxRequestId : conns[c].pending[j] = conns[c].pending[i] => j = i

LeasesInv == PoolTypeOK /\ IdleInv /\ UseInv /\ LeaseInv /\ PoisonInv /\ AccountInv

LeasesFullInv == LeasesInv /\ \A c \in Conns : RegisteredInv(c)

-----------------------------------------------------------------------------
(* Taking connections out of the pool.                                     *)

\* history only names what most steps leave alone.
USE DEF history

Less == {ss \in Nat \X Nat : ss[1] < ss[2]}

\* A set of numbers has a least one: the induction of what follows.
LEMMA NatMin ==
    ASSUME NEW S \in SUBSET Nat, S # {}
    PROVE  \E n \in S : \A m \in S : n <= m
<1>1. IsWellFoundedOn(Less, Nat)
  BY NatLessThanWellFounded DEF OpToRel, Less
<1>2. PICK x \in S : \A y \in S : <<y, x>> \notin Less
  BY <1>1, WFMin
<1>3. ASSUME NEW y \in S
      PROVE  x <= y
  <2>1. <<y, x>> \notin Less
    BY <1>2
  <2>2. y \in Nat /\ x \in Nat
    OBVIOUS
  <2>3. QED
    BY <2>1, <2>2 DEF Less
<1>4. QED
  BY <1>3

\* What RemoveConns has kept of the first n elements, from what it kept before.
Keeps(f, s, cs, n) == f[n] = IF s[n] \in cs THEN f[n - 1] ELSE Append(f[n - 1], s[n])

Partial(s, cs, n) ==
    {f \in [0..n -> Seq(Conns)] : f[0] = <<>> /\ \A i \in 1..n : Keeps(f, s, cs, i)}

LEMMA PartialExists ==
    ASSUME NEW s \in Seq(Conns), NEW cs
    PROVE  Partial(s, cs, Len(s)) # {}
<1> DEFINE Bad == {n \in 0..Len(s) : Partial(s, cs, n) = {}}
<1>1. Len(s) \in Nat /\ \A i \in 1..Len(s) : s[i] \in Conns
  OBVIOUS
<1>2. SUFFICES Bad = {}
  BY <1>1
<1>3. SUFFICES ASSUME Bad # {}
               PROVE  FALSE
  OBVIOUS
<1>4. PICK n \in Bad : \A m \in Bad : n <= m
  <2>1. Bad \in SUBSET Nat
    BY <1>1
  <2> HIDE DEF Bad
  <2>2. QED
    BY <1>3, <2>1, NatMin
<1>5. n # 0
  <2>1. [i \in 0..0 |-> <<>>] \in Partial(s, cs, 0)
    BY DEF Partial
  <2>2. QED
    BY <2>1, <1>4
<1>6. PICK f \in [0..n - 1 -> Seq(Conns)] :
          f[0] = <<>> /\ \A i \in 1..n - 1 : Keeps(f, s, cs, i)
  <2>1. n - 1 \in 0..Len(s) /\ n - 1 \notin Bad
    BY <1>1, <1>4, <1>5
  <2>2. QED
    BY <2>1 DEF Partial
<1> DEFINE x == IF s[n] \in cs THEN f[n - 1] ELSE Append(f[n - 1], s[n])
           g == [i \in 0..n |-> IF i < n THEN f[i] ELSE x]
<1>7. n \in 1..Len(s) /\ x \in Seq(Conns)
  <2>1. n \in 1..Len(s) /\ n - 1 \in 0..n - 1
    BY <1>1, <1>4, <1>5
  <2>2. f[n - 1] \in Seq(Conns) /\ s[n] \in Conns
    BY <1>1, <1>6, <2>1
  <2>3. QED
    BY <2>1, <2>2
<1>8. g \in [0..n -> Seq(Conns)] /\ g[0] = <<>>
  <2>1. \A i \in 0..n : i < n => f[i] \in Seq(Conns)
    BY <1>6, <1>7
  <2> HIDE DEF x
  <2>2. QED
    BY <1>6, <1>7, <2>1
<1>9. ASSUME NEW i \in 1..n
      PROVE  Keeps(g, s, cs, i)
  <2>1. CASE i = n
    <3>1. g[n] = x /\ g[n - 1] = f[n - 1]
      BY <1>7
    <3>2. QED
      BY <2>1, <3>1 DEF Keeps
  <2>2. CASE i # n
    <3>1. i \in 1..n - 1 /\ g[i] = f[i] /\ g[i - 1] = f[i - 1]
      BY <1>7, <2>2
    <3>2. Keeps(f, s, cs, i)
      BY <1>6, <3>1
    <3>3. QED
      BY <3>1, <3>2 DEF Keeps
  <2>3. QED
    BY <2>1, <2>2
<1> HIDE DEF g
<1>10. g \in Partial(s, cs, n)
  BY <1>8, <1>9 DEF Partial
<1>11. QED
  BY <1>4, <1>10

\* The pool without some connections: the others, each once if it was there once.
LEMMA Removed ==
    ASSUME NEW s \in Seq(Conns), NEW cs
    PROVE  /\ RemoveConns(s, cs) \in Seq(Conns)
           /\ Members(RemoveConns(s, cs)) = Members(s) \ cs
           /\ Injective(s) => Injective(RemoveConns(s, cs))
<1> DEFINE IsKept(f) ==
        f = [n \in 0..Len(s) |-> IF n = 0 THEN <<>>
                                 ELSE IF s[n] \in cs THEN f[n - 1]
                                 ELSE Append(f[n - 1], s[n])]
           kept == CHOOSE f : IsKept(f)
<1>1. Len(s) \in Nat /\ \A i \in 1..Len(s) : s[i] \in Conns
  OBVIOUS
<1>2. IsKept(kept)
  <2>1. PICK f \in [0..Len(s) -> Seq(Conns)] :
            f[0] = <<>> /\ \A i \in 1..Len(s) : Keeps(f, s, cs, i)
    BY PartialExists DEF Partial
  <2>2. \A n \in 0..Len(s) : f[n] = IF n = 0 THEN <<>>
                                    ELSE IF s[n] \in cs THEN f[n - 1]
                                    ELSE Append(f[n - 1], s[n])
    <3>1. ASSUME NEW n \in 0..Len(s), n # 0
          PROVE  n \in 1..Len(s) /\ Keeps(f, s, cs, n)
      BY <1>1, <2>1, <3>1
    <3>2. QED
      BY <2>1, <3>1 DEF Keeps
  <2>3. IsKept(f)
    BY <2>1, <2>2
  <2> HIDE DEF IsKept
  <2>4. QED
    BY <2>3
<1>3. RemoveConns(s, cs) = kept[Len(s)]
  BY DEF RemoveConns
<1>4. kept[0] = <<>> /\ \A i \in 1..Len(s) : Keeps(kept, s, cs, i)
  <2> HIDE DEF kept
  <2>1. \A n \in 0..Len(s) : kept[n] = IF n = 0 THEN <<>>
                                       ELSE IF s[n] \in cs THEN kept[n - 1]
                                       ELSE Append(kept[n - 1], s[n])
    BY <1>2
  <2>2. QED
    BY <1>1, <2>1 DEF Keeps
<1> HIDE DEF kept, IsKept
<1> DEFINE Fine(n) == /\ kept[n] \in Seq(Conns)
                      /\ Members(kept[n]) = {s[i] : i \in 1..n} \ cs
                      /\ Injective(s) => Injective(kept[n])
           Bad == {n \in 0..Len(s) : ~Fine(n)}
<1>5. Bad = {}
  <2>1. SUFFICES ASSUME Bad # {}
                 PROVE  FALSE
    OBVIOUS
  <2>2. PICK n \in Bad : \A m \in Bad : n <= m
    <3>1. Bad \in SUBSET Nat
      BY <1>1
    <3> HIDE DEF Bad
    <3>2. QED
      BY <2>1, <3>1, NatMin
  <2>3. n # 0
    <3>1. Fine(0)
      BY <1>4 DEF Members, Injective
    <3>2. QED
      BY <2>2, <3>1
  <2>4. n \in 1..Len(s) /\ n - 1 \in 0..Len(s) /\ n - 1 \notin Bad
    <3>1. n \in 0..Len(s)
      OBVIOUS
    <3>2. ~(n <= n - 1) /\ n - 1 \in 0..Len(s) /\ n \in 1..Len(s)
      BY <1>1, <2>3, <3>1
    <3> HIDE DEF Bad
    <3>3. QED
      BY <2>2, <3>2
  <2>5. /\ kept[n - 1] \in Seq(Conns)
        /\ Members(kept[n - 1]) = {s[i] : i \in 1..n - 1} \ cs
        /\ Injective(s) => Injective(kept[n - 1])
    BY <2>4
  <2>6. {s[i] : i \in 1..n} = {s[i] : i \in 1..n - 1} \cup {s[n]}
    BY <1>1, <2>4
  <2>7. CASE s[n] \in cs
    <3>1. kept[n] = kept[n - 1]
      BY <1>4, <2>4, <2>7 DEF Keeps
    <3>2. Fine(n)
      BY <2>5, <2>6, <2>7, <3>1
    <3>3. QED
      BY <2>2, <3>2
  <2>8. CASE s[n] \notin cs
    <3> DEFINE t == kept[n - 1]
               u == Append(t, s[n])
    <3>1. kept[n] = u
      BY <1>4, <2>4, <2>8 DEF Keeps
    <3>2. t \in Seq(Conns) /\ s[n] \in Conns
      BY <1>1, <2>4, <2>5
    <3>3. /\ u \in Seq(Conns) /\ Len(t) \in Nat /\ Len(u) = Len(t) + 1
          /\ \A i \in 1..Len(t) : u[i] = t[i]
          /\ u[Len(t) + 1] = s[n]
      <4> HIDE DEF t
      <4>1. QED
        BY <3>2
    <3> HIDE DEF u
    <3>4. Members(u) = Members(t) \cup {s[n]}
      <4> HIDE DEF t
      <4>1. ASSUME NEW y \in Members(u)
            PROVE  y \in Members(t) \cup {s[n]}
        <5>1. PICK i \in 1..Len(u) : y = u[i]
          BY DEF Members
        <5>2. i \in 1..Len(t) \/ i = Len(t) + 1
          BY <3>3
        <5>3. QED
          BY <3>3, <5>1, <5>2 DEF Members
      <4>2. ASSUME NEW y \in Members(t) \cup {s[n]}
            PROVE  y \in Members(u)
        <5>1. \A i \in 1..Len(t) + 1 : u[i] \in Members(u)
          BY <3>3 DEF Members
        <5>2. Len(t) + 1 \in 1..Len(t) + 1 /\ \A i \in 1..Len(t) : i \in 1..Len(t) + 1
          BY <3>3
        <5>3. QED
          BY <3>3, <5>1, <5>2 DEF Members
      <4>3. QED
        BY <4>1, <4>2
    <3>5. Injective(s) => s[n] \notin Members(t)
      <4>1. Injective(s) => s[n] \notin {s[i] : i \in 1..n - 1}
        BY <1>1, <2>4 DEF Injective
      <4>2. QED
        BY <2>5, <4>1
    <3>6. Injective(s) => Injective(u)
      <4>1. SUFFICES ASSUME Injective(s), NEW i \in 1..Len(u), NEW j \in 1..Len(u), u[i] = u[j]
                     PROVE  i = j
        BY DEF Injective
      <4>2. \A k \in 1..Len(t) : t[k] # s[n]
        BY <3>5, <4>1 DEF Members
      <4>3. Injective(t)
        BY <2>5, <4>1
      <4> HIDE DEF t
      <4>4. \A k \in 1..Len(u) : k \in 1..Len(t) \/ k = Len(t) + 1
        BY <3>3
      <4>5. QED
        BY <3>3, <4>1, <4>2, <4>3, <4>4 DEF Injective
    <3>7. Fine(n)
      BY <2>5, <2>6, <2>8, <3>1, <3>3, <3>4, <3>6
    <3>8. QED
      BY <2>2, <3>7
  <2>9. QED
    BY <2>7, <2>8
<1>6. Fine(Len(s))
  <2> HIDE DEF Fine
  <2>1. Len(s) \in 0..Len(s)
    BY <1>1
  <2>2. QED
    BY <1>5, <2>1
<1>7. QED
  BY <1>3, <1>6 DEF Members

\* A connection added to the pool.
LEMMA Added ==
    ASSUME NEW s \in Seq(Conns), NEW c \in Conns
    PROVE  /\ Append(s, c) \in Seq(Conns)
           /\ Members(Append(s, c)) = Members(s) \cup {c}
           /\ Injective(s) /\ c \notin Members(s) => Injective(Append(s, c))
<1> DEFINE u == Append(s, c)
<1>1. /\ u \in Seq(Conns) /\ Len(s) \in Nat /\ Len(u) = Len(s) + 1
      /\ \A i \in 1..Len(s) : u[i] = s[i]
      /\ u[Len(s) + 1] = c
  OBVIOUS
<1> HIDE DEF u
<1>2. \A k \in 1..Len(u) : k \in 1..Len(s) \/ k = Len(s) + 1
  BY <1>1
<1>3. Members(u) = Members(s) \cup {c}
  <2>1. Members(u) \subseteq Members(s) \cup {c}
    BY <1>1, <1>2 DEF Members
  <2>2. Len(s) + 1 \in 1..Len(u) /\ \A i \in 1..Len(s) : i \in 1..Len(u)
    BY <1>1
  <2>3. Members(s) \cup {c} \subseteq Members(u)
    BY <1>1, <2>2 DEF Members
  <2>4. QED
    BY <2>1, <2>3
<1>4. ASSUME Injective(s), c \notin Members(s)
      PROVE  Injective(u)
  <2>1. \A k \in 1..Len(s) : s[k] # c
    BY <1>4 DEF Members
  <2>2. QED
    BY <1>1, <1>2, <1>4, <2>1 DEF Injective
<1>5. QED
  BY <1>1, <1>3, <1>4 DEF u

-----------------------------------------------------------------------------
(* What the operations of a connection do to it.                           *)

ConnIds == 1..MaxRequestId

Entries == [id: ConnIds, op: Workers]

LEMMA EntryForm ==
    ASSUME NEW x \in Conn
    PROVE  /\ x.queue \in Seq(Entries) /\ Len(x.queue) \in Nat
           /\ \A k \in 1..Len(x.queue) : x.queue[k] \in Entries
           /\ \A k \in 1..Len(x.queue) : x.queue[k].id \in ConnIds /\ x.queue[k].op \in Workers
           /\ x.nextId \in ConnIds /\ x.pending \in [ConnIds -> Workers \cup {NoWorker}]
<1>1. /\ x.queue \in Seq(Entries) /\ x.nextId \in ConnIds
      /\ x.pending \in [ConnIds -> Workers \cup {NoWorker}]
  BY DEF Conn, ConnIds, Entries
<1>2. Len(x.queue) \in Nat /\ \A k \in 1..Len(x.queue) : x.queue[k] \in Entries
  BY <1>1
<1>3. \A e \in Entries : e.id \in ConnIds /\ e.op \in Workers
  BY DEF Entries
<1>4. QED
  BY <1>1, <1>2, <1>3

LEMMA ClosedForm ==
    ASSUME NEW x \in Conn
    PROVE  /\ Wire!CloseSocket(x) \in Conn
           /\ Wire!CloseSocket(x).state = IF x.state = "open" THEN "closing" ELSE x.state
           /\ Wire!CloseSocket(x).nextId = x.nextId
           /\ Wire!CloseSocket(x).pending = x.pending
           /\ Wire!CloseSocket(x).queue = x.queue
BY DEF Wire!CloseSocket, Conn

\* A connection that is new, or lost.
LEMMA EmptyForm ==
    /\ Wire!Unused \in Conn /\ Wire!Opened \in Conn /\ Wire!Lost \in Conn
    /\ \A x \in {Wire!Unused, Wire!Opened, Wire!Lost} :
          /\ x.queue = <<>> /\ Len(x.queue) = 0
          /\ \A i \in ConnIds : x.pending[i] = NoWorker
    /\ Wire!Unused.state = "unused"
    /\ Wire!Opened.state = "open"
    /\ Wire!Lost.state = "closed"
<1> USE MaxRequestIdAssumption
<1>1. Wire!Unused \in Conn
  BY DEF Wire!Unused, Wire!Ids, Conn
<1>2. /\ Wire!Unused.state = "unused" /\ Wire!Unused.queue = <<>>
      /\ \A i \in ConnIds : Wire!Unused.pending[i] = NoWorker
  BY DEF Wire!Unused, Wire!Ids, ConnIds
<1>3. /\ Wire!Opened \in Conn /\ Wire!Opened.state = "open"
      /\ Wire!Opened.queue = Wire!Unused.queue /\ Wire!Opened.pending = Wire!Unused.pending
  BY <1>1 DEF Wire!Opened, Conn
<1>4. /\ Wire!Lost \in Conn /\ Wire!Lost.state = "closed"
      /\ Wire!Lost.queue = Wire!Unused.queue /\ Wire!Lost.pending = Wire!Unused.pending
  BY <1>1 DEF Wire!Lost, Conn
<1>5. Len(<<>>) = 0
  OBVIOUS
<1>6. QED
  BY <1>1, <1>2, <1>3, <1>4, <1>5

LEMMA RegisterForm ==
    ASSUME NEW x \in Conn, NEW w \in Workers
    PROVE  LET y == Wire!Register(x, w)
           IN  /\ y \in Conn
               /\ y.state = x.state
               /\ y.nextId = IF x.nextId >= MaxRequestId THEN 1 ELSE x.nextId + 1
               /\ y.pending = [x.pending EXCEPT ![x.nextId] = w]
               /\ y.queue = Append(x.queue, [id |-> x.nextId, op |-> w])
<1> USE MaxRequestIdAssumption
<1> DEFINE y == Wire!Register(x, w)
<1>1. y = [x EXCEPT !.nextId = Wire!SuccessorId(x.nextId),
                    !.pending = [x.pending EXCEPT ![x.nextId] = w],
                    !.queue = Append(x.queue, [id |-> x.nextId, op |-> w])]
  BY DEF Wire!Register, Conn
<1>2. /\ x.nextId \in ConnIds /\ x.pending \in [ConnIds -> Workers \cup {NoWorker}]
      /\ x.queue \in Seq(Entries)
  BY DEF Conn, ConnIds, Entries
<1>3. /\ Wire!SuccessorId(x.nextId) = IF x.nextId >= MaxRequestId THEN 1 ELSE x.nextId + 1
      /\ Wire!SuccessorId(x.nextId) \in ConnIds
  BY <1>2 DEF Wire!SuccessorId, ConnIds
<1>4. [x.pending EXCEPT ![x.nextId] = w] \in [ConnIds -> Workers \cup {NoWorker}]
  BY <1>2
<1>5. Append(x.queue, [id |-> x.nextId, op |-> w]) \in Seq(Entries)
  BY <1>2 DEF Entries
<1>6. y.nextId = Wire!SuccessorId(x.nextId) /\ y.state = x.state
  BY <1>1 DEF Conn
<1>7. y.pending = [x.pending EXCEPT ![x.nextId] = w]
  BY <1>1 DEF Conn
<1>8. y.queue = Append(x.queue, [id |-> x.nextId, op |-> w])
  BY <1>1 DEF Conn
<1>9. y \in Conn
  BY <1>1, <1>3, <1>4, <1>5 DEF Conn, ConnIds, Entries
<1>10. QED
  BY <1>3, <1>6, <1>7, <1>8, <1>9

LEMMA DeletedForm ==
    ASSUME NEW x \in Conn, NEW w \in Workers
    PROVE  LET y == Wire!Deleted(x, w)
           IN  /\ y \in Conn
               /\ y.state = x.state /\ y.nextId = x.nextId /\ y.queue = x.queue
               /\ y.pending = [i \in ConnIds |-> IF x.pending[i] = w THEN NoWorker
                                                 ELSE x.pending[i]]
BY DEF Wire!Deleted, Wire!Ids, Conn, ConnIds

LEMMA AnsweredForm ==
    ASSUME NEW x \in Conn, x.queue # <<>>
    PROVE  LET y == Wire!Answered(x)
           IN  /\ y \in Conn
               /\ y.state = x.state /\ y.nextId = x.nextId /\ y.queue = Tail(x.queue)
               /\ y.pending = [x.pending EXCEPT ![x.queue[1].id] = NoWorker]
               /\ x.queue[1] \in Entries
<1>1. /\ x.pending \in [ConnIds -> Workers \cup {NoWorker}]
      /\ x.queue \in Seq(Entries)
  BY DEF Conn, ConnIds, Entries
<1>2. x.queue[1] \in Entries /\ Tail(x.queue) \in Seq(Entries) /\ Head(x.queue) = x.queue[1]
  BY <1>1
<1> DEFINE y == Wire!Answered(x)
<1>3. y = [x EXCEPT !.queue = Tail(x.queue),
                    !.pending = [x.pending EXCEPT ![x.queue[1].id] = NoWorker]]
  BY <1>2 DEF Wire!Answered, Conn
<1>4. [x.pending EXCEPT ![x.queue[1].id] = NoWorker] \in [ConnIds -> Workers \cup {NoWorker}]
  BY <1>1
<1>5. y.state = x.state /\ y.nextId = x.nextId /\ y.queue = Tail(x.queue)
  BY <1>3 DEF Conn
<1>6. y.pending = [x.pending EXCEPT ![x.queue[1].id] = NoWorker]
  BY <1>3 DEF Conn
<1>7. y \in Conn
  BY <1>2, <1>3, <1>4 DEF Conn, ConnIds, Entries
<1>8. QED
  BY <1>2, <1>5, <1>6, <1>7

-----------------------------------------------------------------------------
(* Leases.                                                                 *)

\* No socket is opened, and none becomes unused.
SocketsAge ==
    /\ conns' \in [Conns -> Conn]
    /\ \A c \in Conns :
          /\ IsOpen(c)' => IsOpen(c)
          /\ conns'[c].state = "unused" <=> conns[c].state = "unused"

LEMMA IdlerForm ==
    /\ Idler \in Worker
    /\ Idler.phase = "none" /\ Idler.conn = NoConn /\ ~Idler.failed
BY DEF Idler, Worker, Scopes

\* What becomes of a worker whose request ends.
LEMMA SettledForm ==
    ASSUME NEW r \in Worker, r.phase \in {"busy", "cancelled"}, NEW t \in BOOLEAN
    PROVE  /\ Failed(r, t) \in Worker /\ Succeeded(r) \in Worker
           /\ IF r.phase = "busy"
              THEN /\ Failed(r, t).phase = "leased" /\ Failed(r, t).conn = r.conn
                   /\ Failed(r, t).failed /\ Failed(r, t).over = t
                   /\ Succeeded(r).phase = "leased" /\ Succeeded(r).conn = r.conn
                   /\ Succeeded(r).failed = r.failed /\ Succeeded(r).over = r.over
              ELSE Failed(r, t) = Idler /\ Succeeded(r) = Idler
<1>1. CASE r.phase = "busy"
  <2>1. Failed(r, t) = [r EXCEPT !.phase = "leased", !.failed = TRUE, !.over = t]
    BY <1>1 DEF Failed
  <2>2. Succeeded(r) = [r EXCEPT !.phase = "leased"]
    BY <1>1 DEF Succeeded
  <2>3. QED
    BY <1>1, <2>1, <2>2 DEF Worker
<1>2. CASE r.phase = "cancelled"
  BY <1>2, IdlerForm DEF Failed, Succeeded
<1>3. QED
  BY <1>1, <1>2

Waiting == {w \in Workers : workers[w].phase \in {"busy", "cancelled"}}

\* What the holders and the connections of the workers say of an invariant state.
LEMMA HolderFacts ==
    ASSUME LeasesInv, NEW w \in Workers
    PROVE  /\ workers[w] \in Worker
           /\ workers[w].phase \in {"leased", "busy", "cancelled"} =>
                 workers[w].conn \in Conns /\ conns[workers[w].conn].state # "unused"
           /\ workers[w].phase \in {"none", "dialing"} => workers[w].conn = NoConn
           /\ \A c \in Conns : Holds(w, c) => workers[w].conn = c
<1>1. workers[w] \in Worker
  BY DEF LeasesInv, PoolTypeOK
<1>2. workers[w].conn \in Conns \cup {NoConn}
      /\ workers[w].phase \in {"none", "dialing", "leased", "busy", "cancelled"}
  BY <1>1 DEF Worker
<1>3. /\ workers[w].phase \in {"none", "dialing"} <=> workers[w].conn = NoConn
      /\ workers[w].conn \in Conns => conns[workers[w].conn].state # "unused"
  BY DEF LeasesInv, UseInv
<1>4. QED
  BY <1>1, <1>2, <1>3 DEF Holds

\* Requests that end: of some workers they fail, of others they succeed.
LEMMA SettlingKeepsLeases ==
    ASSUME LeasesInv, SocketsAge, UNCHANGED <<scopes, idle, timers>>,
           NEW F \in SUBSET Waiting, NEW G \in SUBSET Waiting,
           NEW t \in BOOLEAN,
           workers' = [w \in Workers |-> IF w \in F THEN Failed(workers[w], t)
                                         ELSE IF w \in G THEN Succeeded(workers[w])
                                         ELSE workers[w]],
           NoteFailures(F)
    PROVE  LeasesInv'
<1> USE NoConnAssumption
<1>1. noticed' = noticed \cup Noticed(F) /\ unnoticed' = unnoticed \cup Unnoticed(F)
  BY DEF NoteFailures
<1>2. ASSUME NEW w \in Workers
      PROVE  /\ workers'[w] \in Worker
             /\ \/ workers'[w] = workers[w] /\ w \notin F
                \/ workers'[w] = Idler /\ workers[w].phase = "cancelled"
                \/ /\ workers[w].phase = "busy" /\ workers'[w].phase = "leased"
                   /\ workers'[w].conn = workers[w].conn
                   /\ workers'[w].failed = (w \in F \/ workers[w].failed)
  <2>1. workers[w] \in Worker
    BY HolderFacts
  <2>2. CASE w \in F
    BY <2>1, <2>2, SettledForm DEF Waiting
  <2>3. CASE w \notin F /\ w \in G
    <3>1. workers'[w] = Succeeded(workers[w])
      BY <2>3
    <3>2. workers[w].phase \in {"busy", "cancelled"} /\ workers[w].failed \in BOOLEAN
      BY <2>1, <2>3 DEF Waiting, Worker
    <3>3. QED
      BY <2>1, <2>3, <3>1, <3>2, SettledForm
  <2>4. CASE w \notin F /\ w \notin G
    BY <2>1, <2>4
  <2>5. QED
    BY <2>2, <2>3, <2>4
<1>3. ASSUME NEW w \in Workers, NEW c \in Conns
      PROVE  /\ Holds(w, c)' <=> Holds(w, c)
             /\ Holds(w, c) => /\ workers[w].failed => workers'[w].failed
                               /\ w \in F => workers'[w].failed
  <2>1. CASE workers'[w] = workers[w] /\ w \notin F
    BY <2>1 DEF Holds
  <2>2. CASE workers'[w] = Idler /\ workers[w].phase = "cancelled"
    BY <2>2, IdlerForm DEF Holds
  <2>3. CASE /\ workers[w].phase = "busy" /\ workers'[w].phase = "leased"
             /\ workers'[w].conn = workers[w].conn
             /\ workers'[w].failed = (w \in F \/ workers[w].failed)
    BY <2>3 DEF Holds
  <2>4. QED
    BY <1>2, <2>1, <2>2, <2>3
<1>4. Noticed(F) \subseteq Conns /\ \A c \in Noticed(F) : \E w \in F : Holds(w, c)
  <2>1. ASSUME NEW c \in Noticed(F)
        PROVE  c \in Conns /\ \E w \in F : Holds(w, c)
    <3>1. PICK w \in F : workers[w].phase = "busy" /\ workers[w].conn = c
      BY DEF Noticed
    <3>2. w \in Workers
      BY DEF Waiting
    <3>3. c \in Conns
      BY <3>1, <3>2, HolderFacts
    <3>4. QED
      BY <3>1, <3>3 DEF Holds
  <2>2. QED
    BY <2>1
<1>5. PoolTypeOK'
  <2>1. workers' \in [Workers -> Worker]
    BY <1>2
  <2>2. Unnoticed(F) \subseteq Conns
    BY HolderFacts DEF Unnoticed, Waiting
  <2>3. QED
    BY <1>4, <1>1, <2>1, <2>2 DEF LeasesInv, PoolTypeOK, SocketsAge
<1>6. IdleInv'
  BY DEF LeasesInv, IdleInv
<1>7. UseInv'
  <2>1. ASSUME NEW w \in Workers
        PROVE  /\ workers'[w].phase \in {"none", "dialing"} <=> workers'[w].conn = NoConn
               /\ workers'[w].phase = "dialing" => ~workers'[w].failed
               /\ workers'[w].conn \in Conns => conns'[workers'[w].conn].state # "unused"
    <3>1. /\ workers[w].phase \in {"none", "dialing"} <=> workers[w].conn = NoConn
          /\ workers[w].phase = "dialing" => ~workers[w].failed
          /\ workers[w].conn \in Conns => conns[workers[w].conn].state # "unused"
      BY DEF LeasesInv, UseInv
    <3>2. QED
      BY <1>2, <3>1, IdlerForm DEF SocketsAge
  <2>2. ASSUME NEW c \in Members(idle) \cup noticed \cup Noticed(F)
        PROVE  conns'[c].state # "unused"
    <3>1. c \in Conns
      BY <1>4 DEF LeasesInv, PoolTypeOK, Members
    <3>2. conns[c].state # "unused"
      <4>1. CASE c \in Noticed(F)
        <5>1. PICK w \in F : Holds(w, c)
          BY <1>4, <4>1
        <5>2. w \in Workers
          BY DEF Waiting
        <5>3. QED
          BY <3>1, <5>1, <5>2, HolderFacts DEF Holds
      <4>2. QED
        BY <4>1 DEF LeasesInv, UseInv
    <3>3. QED
      BY <3>1, <3>2 DEF SocketsAge
  <2>3. QED
    BY <1>1, <2>1, <2>2 DEF UseInv
<1>8. LeaseInv'
  BY <1>3 DEF LeasesInv, LeaseInv
<1>9. PoisonInv'
  <2>1. ASSUME NEW c \in noticed'
        PROVE  c \in Conns /\ c \notin Members(idle)
               /\ \A w \in Workers : Holds(w, c) => workers'[w].failed
    <3>1. CASE c \in noticed
      <4>1. c \in Conns
        BY <3>1 DEF LeasesInv, PoolTypeOK
      <4>2. QED
        BY <1>3, <3>1, <4>1 DEF LeasesInv, PoisonInv
    <3>2. CASE c \in Noticed(F)
      <4>1. PICK v \in F : Holds(v, c)
        BY <1>4, <3>2
      <4>2. v \in Workers /\ c \in Conns
        BY <1>4, <3>2 DEF Waiting
      <4>3. c \notin Members(idle) /\ \A w \in Workers : Holds(w, c) => w = v
        BY <4>1, <4>2 DEF LeasesInv, LeaseInv
      <4>4. QED
        BY <1>3, <4>1, <4>2, <4>3
    <3>3. QED
      BY <1>1, <2>1, <3>1, <3>2
  <2>2. QED
    BY <1>3, <2>1 DEF PoisonInv
<1>10. AccountInv'
  BY <1>3 DEF LeasesInv, AccountInv, SocketsAge
<1>11. QED
  BY <1>5, <1>6, <1>7, <1>8, <1>9, <1>10 DEF LeasesInv

\* No request is made or answered.
SameRequests ==
    \A c \in Conns : /\ conns'[c].queue = conns[c].queue
                     /\ conns'[c].nextId = conns[c].nextId
                     /\ conns'[c].pending = conns[c].pending

LEMMA ClosingForm ==
    ASSUME conns \in [Conns -> Conn], NEW c \in Conns, conns' = CloseSocket(c)
    PROVE  /\ SocketsAge /\ SameRequests /\ ~IsOpen(c)'
           /\ \A d \in Conns \ {c} : conns'[d] = conns[d]
<1>1. /\ \A d \in Conns : conns[d] \in Conn
      /\ \A d \in Conns : conns'[d] = IF d = c THEN Wire!CloseSocket(conns[c]) ELSE conns[d]
  BY DEF CloseSocket
<1>2. conns' \in [Conns -> Conn]
  BY <1>1, ClosedForm DEF CloseSocket
<1>3. SameRequests
  BY <1>1, ClosedForm DEF SameRequests
<1>4. conns'[c].state = IF conns[c].state = "open" THEN "closing" ELSE conns[c].state
  BY <1>1, ClosedForm
<1>5. QED
  BY <1>1, <1>2, <1>3, <1>4 DEF SocketsAge, IsOpen, Wire!IsOpen

LEMMA SameForm ==
    ASSUME conns \in [Conns -> Conn], UNCHANGED conns
    PROVE  SocketsAge /\ SameRequests
BY DEF SocketsAge, SameRequests, IsOpen

\* A lease is given up, to the pool or with its socket.
LEMMA GivingBackKeepsLeases ==
    ASSUME LeasesInv, NEW w \in Workers, NEW c \in Conns, Holds(w, c),
           GiveBack(w), UNCHANGED <<scopes, noticed, unnoticed>>,
           NEW r \in Worker, workers' = [workers EXCEPT ![w] = r],
           (r.phase = "none" /\ r.conn = NoConn) \/ (r.phase = "cancelled" /\ r.conn = c)
    PROVE  LeasesInv' /\ SocketsAge /\ SameRequests
<1> USE NoConnAssumption
<1>1. /\ conns \in [Conns -> Conn] /\ idle \in Seq(Conns) /\ timers \in SUBSET Conns
      /\ workers \in [Workers -> Worker] /\ noticed \in SUBSET Conns
  BY DEF LeasesInv, PoolTypeOK
<1>2. workers[w].conn = c /\ c \notin Members(idle) /\ \A v \in Workers \ {w} : ~Holds(v, c)
  BY DEF Holds, LeasesInv, LeaseInv
<1>3. \/ /\ ~workers[w].failed /\ IsOpen(c) /\ UNCHANGED conns
         /\ idle' = Append(idle, c) /\ timers' = timers \cup {c}
      \/ conns' = CloseSocket(c) /\ UNCHANGED <<idle, timers>>
  BY <1>2 DEF GiveBack, Pool
<1>4. SocketsAge /\ SameRequests
  BY <1>1, <1>3, ClosingForm, SameForm
<1>5. /\ workers'[w] = r /\ \A v \in Workers \ {w} : workers'[v] = workers[v]
      /\ workers' \in [Workers -> Worker]
  BY <1>1
<1>6. \A v \in Workers, d \in Conns : Holds(v, d)' <=> v # w /\ Holds(v, d)
  BY <1>5 DEF Holds
<1>7. /\ \/ /\ Members(idle') = Members(idle) \cup {c} /\ IsOpen(c)' /\ ~workers[w].failed
            /\ c \notin Members(idle)
         \/ Members(idle') = Members(idle) /\ ~IsOpen(c)'
      /\ idle' \in Seq(Conns) /\ Injective(idle') /\ timers' = Members(idle')
  <2>1. Injective(idle) /\ timers = Members(idle)
    BY DEF LeasesInv, IdleInv
  <2>2. CASE conns' = CloseSocket(c) /\ UNCHANGED <<idle, timers>>
    BY <1>1, <2>1, <2>2, ClosingForm
  <2>3. CASE /\ ~workers[w].failed /\ IsOpen(c) /\ UNCHANGED conns
             /\ idle' = Append(idle, c) /\ timers' = timers \cup {c}
    <3>1. IsOpen(c)'
      BY <2>3 DEF IsOpen
    <3>2. idle' \in Seq(Conns) /\ Members(idle') = Members(idle) \cup {c} /\ Injective(idle')
      BY <1>1, <1>2, <2>1, <2>3, Added
    <3>3. QED
      BY <1>2, <2>1, <2>3, <3>1, <3>2
  <2>4. QED
    BY <1>3, <2>2, <2>3
<1>8. PoolTypeOK'
  <2>1. timers' \in SUBSET Conns
    BY <1>1, <1>3
  <2>2. QED
    BY <1>4, <1>5, <1>7, <2>1 DEF LeasesInv, PoolTypeOK, SocketsAge
<1>9. IdleInv'
  BY <1>7 DEF IdleInv
<1>10. conns[c].state # "unused"
  BY <1>2, HolderFacts DEF Holds
<1>11. UseInv'
  <2>1. ASSUME NEW v \in Workers
        PROVE  /\ workers'[v].phase \in {"none", "dialing"} <=> workers'[v].conn = NoConn
               /\ workers'[v].phase = "dialing" => ~workers'[v].failed
               /\ workers'[v].conn \in Conns => conns'[workers'[v].conn].state # "unused"
    <3>1. CASE v = w
      BY <1>4, <1>5, <1>10, <3>1 DEF SocketsAge
    <3>2. CASE v # w
      BY <1>4, <1>5, <3>2 DEF SocketsAge, LeasesInv, UseInv
    <3>3. QED
      BY <3>1, <3>2
  <2>2. ASSUME NEW d \in Members(idle') \cup noticed
        PROVE  conns'[d].state # "unused"
    <3>1. d \in Conns
      BY <1>1, <1>7 DEF Members
    <3>2. conns[d].state # "unused"
      BY <1>7, <1>10 DEF LeasesInv, UseInv
    <3>3. QED
      BY <1>4, <3>1, <3>2 DEF SocketsAge
  <2>3. QED
    BY <2>1, <2>2 DEF UseInv
<1>12. LeaseInv'
  <2>1. ASSUME NEW v \in Workers, NEW d \in Conns, v # w, Holds(v, d)
        PROVE  d \notin Members(idle') /\ \A u \in Workers \ {v} : ~Holds(u, d)
    <3>1. d # c
      BY <1>2, <2>1
    <3>2. QED
      BY <1>7, <2>1, <3>1 DEF LeasesInv, LeaseInv
  <2>2. QED
    BY <1>6, <2>1 DEF LeaseInv
<1>13. PoisonInv'
  <2>1. ASSUME NEW d \in noticed
        PROVE  d \notin Members(idle') /\ d \in Conns
               /\ \A v \in Workers : Holds(v, d)' => workers'[v].failed
    <3>1. /\ d \in Conns /\ d \notin Members(idle)
          /\ \A v \in Workers : Holds(v, d) => workers[v].failed
      BY <1>1, <2>1 DEF LeasesInv, PoisonInv
    <3>2. d \notin Members(idle')
      BY <1>7, <3>1
    <3>3. QED
      BY <1>5, <1>6, <3>1, <3>2
  <2>2. QED
    BY <2>1 DEF PoisonInv
<1>14. AccountInv'
  <2>1. ASSUME NEW d \in Conns, IsOpen(d)'
        PROVE  d \in Members(idle') \/ \E v \in Workers : Holds(v, d)'
    <3>1. CASE d = c
      BY <1>7, <2>1, <3>1
    <3>2. CASE d # c
      <4>1. d \in Members(idle) \/ \E v \in Workers : Holds(v, d)
        BY <1>4, <2>1 DEF SocketsAge, LeasesInv, AccountInv
      <4>2. ~Holds(w, d)
        BY <1>2, <3>2 DEF Holds
      <4>3. QED
        BY <1>6, <1>7, <4>1, <4>2
    <3>3. QED
      BY <3>1, <3>2
  <2>2. QED
    BY <2>1 DEF AccountInv
<1>15. QED
  BY <1>4, <1>8, <1>9, <1>11, <1>12, <1>13, <1>14 DEF LeasesInv

\* What #connect takes from the pool: dead connections, and at most one open one, the
\* one it leases.
LEMMA PoppedForm ==
    ASSUME LeasesInv, NEW scope \in Scopes
    PROVE  /\ PoppedConns(scope) \subseteq Members(idle)
           /\ IF Usable(scope) = {} THEN \A c \in PoppedConns(scope) : ~IsOpen(c)
              ELSE /\ idle[Chosen(scope)] \in PoppedConns(scope)
                   /\ IsOpen(idle[Chosen(scope)]) /\ Covers(idle[Chosen(scope)], scope)
                   /\ \A c \in PoppedConns(scope) : c = idle[Chosen(scope)] \/ ~IsOpen(c)
<1>1. idle \in Seq(Conns) /\ DOMAIN idle = 1..Len(idle) /\ Len(idle) \in Nat
  BY DEF LeasesInv, PoolTypeOK
<1>2. PoppedConns(scope) \subseteq Members(idle)
  BY <1>1 DEF PoppedConns, Popped, Fitting, Members
<1>3. CASE Usable(scope) = {}
  BY <1>2, <1>3 DEF PoppedConns, Popped, Usable
<1>4. CASE Usable(scope) # {}
  <2>1. Usable(scope) \in SUBSET Nat
    BY <1>1 DEF Usable, Fitting
  <2>2. \E i \in Usable(scope) : \A j \in Usable(scope) : i <= j
    BY <1>4, <2>1, NatMin
  <2>3. Chosen(scope) \in Usable(scope) /\ \A j \in Usable(scope) : Chosen(scope) <= j
    BY <2>2 DEF Chosen
  <2> DEFINE m == Chosen(scope)
  <2>4. m \in Nat /\ m \in Fitting(scope) /\ IsOpen(idle[m]) /\ Covers(idle[m], scope)
    BY <2>1, <2>3 DEF Usable, Fitting
  <2>5. idle[m] \in PoppedConns(scope)
    BY <1>4, <2>4 DEF PoppedConns, Popped
  <2>6. ASSUME NEW i \in Popped(scope)
        PROVE  i = m \/ ~IsOpen(idle[i])
    <3>1. i \in Fitting(scope) /\ i <= m /\ i \in Nat
      BY <1>1, <1>4 DEF Popped, Fitting
    <3>2. i \in Usable(scope) => m <= i
      BY <2>3
    <3>3. i \in Usable(scope) => i = m
      BY <2>4, <3>1, <3>2
    <3>4. QED
      BY <3>1, <3>3 DEF Usable
  <2>7. QED
    BY <1>2, <1>4, <2>4, <2>5, <2>6 DEF PoppedConns
<1>5. QED
  BY <1>3, <1>4

-----------------------------------------------------------------------------
(* Steps in which no request begins or ends.                               *)

Quiet ==
    /\ SocketsAge /\ SameRequests
    /\ \A c \in Conns : InFlight(c)' = InFlight(c)
    /\ \A w \in Workers, c \in Conns : Holds(w, c)' =>
          IsOpen(c) \/ (Holds(w, c) /\ workers'[w].over = workers[w].over)

QuietOn(c) ==
    /\ conns'[c].queue = conns[c].queue
    /\ conns'[c].nextId = conns[c].nextId
    /\ conns'[c].pending = conns[c].pending
    /\ InFlight(c)' = InFlight(c)
    /\ IsOpen(c)' => IsOpen(c)
    /\ \A w \in Workers : Holds(w, c)' =>
          IsOpen(c) \/ (Holds(w, c) /\ workers'[w].over = workers[w].over)

Requests(c) == QueueInv(c) /\ WaitInv(c) /\ PendingInv(c)

LEMMA QuietKeepsRequests ==
    ASSUME NEW c \in Conns, QuietOn(c), conns[c] \in Conn
    PROVE  /\ RegisteredInv(c) => RegisteredInv(c)'
           /\ Requests(c) => Requests(c)'
<1>1. /\ conns'[c].queue = conns[c].queue /\ conns'[c].nextId = conns[c].nextId
      /\ conns'[c].pending = conns[c].pending
      /\ InFlight(c)' = InFlight(c)
  BY DEF QuietOn
<1>2. RegisteredInv(c) => RegisteredInv(c)'
  BY <1>1 DEF RegisteredInv
<1>3. QueueInv(c) => QueueInv(c)'
  BY <1>1 DEF QueueInv
<1>4. PendingInv(c) => PendingInv(c)'
  BY <1>1 DEF PendingInv
<1>5. ASSUME WaitInv(c)
      PROVE  WaitInv(c)'
  <2> DEFINE q == conns[c].queue
  <2>1. conns'[c].queue = q /\ \A k \in 1..Len(q) : q[k].op \in Workers
    BY <1>1, EntryForm
  <2>2. ASSUME NEW k \in 1..Len(q)
        PROVE  \/ q[k].op \in InFlight(c)'
               \/ ~IsOpen(c)' /\ \A v \in Workers : v = q[k].op /\ Holds(v, c)' => workers'[v].over
    <3>1. \/ q[k].op \in InFlight(c)
          \/ ~IsOpen(c) /\ \A v \in Workers : v = q[k].op /\ Holds(v, c) => workers[v].over
      BY <1>5 DEF WaitInv
    <3>2. ~IsOpen(c) => ~IsOpen(c)'
      BY DEF QuietOn
    <3>3. \A v \in Workers : Holds(v, c)' =>
              IsOpen(c) \/ (Holds(v, c) /\ workers'[v].over = workers[v].over)
      BY <2>1 DEF QuietOn
    <3>4. QED
      BY <1>1, <3>1, <3>2, <3>3
  <2>3. \A w \in InFlight(c)' : \E k \in 1..Len(q) : q[k].op = w
    BY <1>1, <1>5 DEF WaitInv
  <2>4. QED
    BY <2>1, <2>2, <2>3 DEF WaitInv
<1>6. QED
  BY <1>2, <1>3, <1>4, <1>5 DEF Requests

LEMMA QuietEverywhere ==
    ASSUME Quiet, NEW c \in Conns
    PROVE  QuietOn(c)
BY DEF Quiet, QuietOn, SocketsAge, SameRequests

\* A connection nobody has asked anything.
LEMMA NothingAsked ==
    ASSUME NEW c \in Conns, conns'[c].queue = <<>>, InFlight(c)' = {},
           \A i \in ConnIds : conns'[c].pending[i] = NoWorker
    PROVE  RegisteredInv(c)' /\ Requests(c)'
<1>1. Len(conns'[c].queue) = 0
  OBVIOUS
<1>2. QED
  BY <1>1 DEF RegisteredInv, Requests, QueueInv, WaitInv, PendingInv, ConnIds

\* A worker that waits for a dial goes on waiting, or no longer does.
LEMMA DialingKeeps ==
    ASSUME LeasesInv, NEW w \in Workers, workers[w].phase = "dialing",
           UNCHANGED <<conns, scopes, idle, timers, noticed, unnoticed>>,
           NEW r \in Worker, workers' = [workers EXCEPT ![w] = r],
           r.phase \in {"none", "dialing"}, r.conn = NoConn, ~r.failed
    PROVE  LeasesInv' /\ Quiet
<1>1. /\ workers \in [Workers -> Worker] /\ conns \in [Conns -> Conn]
      /\ workers' \in [Workers -> Worker]
      /\ workers'[w] = r /\ \A v \in Workers \ {w} : workers'[v] = workers[v]
  BY DEF LeasesInv, PoolTypeOK
<1>2. \A v \in Workers, d \in Conns :
          (Holds(v, d)' <=> Holds(v, d)) /\ (Holds(v, d) => v # w)
  BY <1>1 DEF Holds
<1>3. Quiet
  <2>1. \A c \in Conns : InFlight(c)' = InFlight(c)
    BY <1>1 DEF InFlight
  <2>2. QED
    BY <1>1, <1>2, <2>1, SameForm DEF Quiet
<1>4. \A c \in Conns : IsOpen(c)' = IsOpen(c)
  BY DEF IsOpen
<1>5. UseInv'
  BY <1>1, NoConnAssumption DEF LeasesInv, UseInv
<1>6. PoolTypeOK' /\ IdleInv'
  BY <1>1 DEF LeasesInv, PoolTypeOK, IdleInv
<1>7. LeaseInv' /\ AccountInv'
  BY <1>2, <1>4 DEF LeasesInv, LeaseInv, AccountInv
<1>8. PoisonInv'
  <2>1. noticed \in SUBSET Conns
    BY DEF LeasesInv, PoolTypeOK
  <2>2. QED
    BY <1>1, <1>2, <2>1 DEF LeasesInv, PoisonInv
<1>9. QED
  BY <1>3, <1>5, <1>6, <1>7, <1>8 DEF LeasesInv

LEMMA DialFailsKeeps ==
    ASSUME LeasesInv, NEW w \in Workers, DialFails(w)
    PROVE  LeasesInv' /\ Quiet
BY DialingKeeps, IdlerForm DEF DialFails

LEMMA ReleaseKeeps ==
    ASSUME LeasesInv, NEW w \in Workers, Release(w)
    PROVE  LeasesInv' /\ Quiet
<1> DEFINE c == workers[w].conn
<1>1. c \in Conns /\ Holds(w, c) /\ workers \in [Workers -> Worker]
  BY HolderFacts DEF Release, Holds, LeasesInv, PoolTypeOK
<1>2. GiveBack(w) /\ workers' = [workers EXCEPT ![w] = Idler] /\ UNCHANGED <<scopes, noticed, unnoticed>>
  BY DEF Release
<1> HIDE DEF c
<1>3. LeasesInv' /\ SocketsAge /\ SameRequests
  BY <1>1, <1>2, IdlerForm, GivingBackKeepsLeases
<1>4. workers'[w] = Idler /\ \A v \in Workers \ {w} : workers'[v] = workers[v]
  BY <1>1, <1>2
<1>5. \A d \in Conns : InFlight(d)' = InFlight(d)
  BY <1>4, IdlerForm DEF InFlight, Release
<1>6. \A v \in Workers, d \in Conns : Holds(v, d)' =>
          Holds(v, d) /\ workers'[v].over = workers[v].over
  BY <1>4, IdlerForm DEF Holds
<1>7. QED
  BY <1>3, <1>5, <1>6 DEF Quiet

LEMMA CancelKeeps ==
    ASSUME LeasesInv, NEW w \in Workers, Cancel(w)
    PROVE  LeasesInv' /\ Quiet
<1>1. workers \in [Workers -> Worker]
  BY DEF LeasesInv, PoolTypeOK
<1>2. CASE workers[w].phase = "dialing"
  <2> DEFINE r == [workers[w] EXCEPT !.aborted = TRUE]
  <2>1. workers' = [workers EXCEPT ![w] = r]
    BY <1>1, <1>2 DEF Cancel, Worker
  <2>2. /\ r \in Worker /\ r.phase = "dialing" /\ r.conn = workers[w].conn
        /\ r.failed = workers[w].failed
    BY <1>1, <1>2 DEF Worker
  <2>3. workers[w].conn = NoConn /\ ~workers[w].failed
    BY <1>2 DEF LeasesInv, UseInv
  <2>4. UNCHANGED <<conns, scopes, idle, timers, noticed, unnoticed>>
    BY <1>2 DEF Cancel
  <2> HIDE DEF r
  <2>5. QED
    BY <1>2, <2>1, <2>2, <2>3, <2>4, DialingKeeps
<1>3. CASE workers[w].phase \in {"leased", "busy"}
  <2> DEFINE c == workers[w].conn
             r == IF workers[w].phase = "busy"
                  THEN [workers[w] EXCEPT !.phase = "cancelled", !.aborted = TRUE] ELSE Idler
  <2>1. c \in Conns /\ Holds(w, c)
    BY <1>3, HolderFacts DEF Holds
  <2>2. GiveBack(w) /\ workers' = [workers EXCEPT ![w] = r] /\ UNCHANGED <<scopes, noticed, unnoticed>>
    BY <1>3 DEF Cancel
  <2>3. r \in Worker
        /\ IF workers[w].phase = "busy" THEN r.phase = "cancelled" /\ r.conn = c ELSE r = Idler
    <3>1. workers[w] \in Worker
      BY <1>1
    <3>2. QED
      BY <3>1, IdlerForm DEF Worker
  <2> HIDE DEF r
  <2>4. LeasesInv' /\ SocketsAge /\ SameRequests
    <3>1. (r.phase = "none" /\ r.conn = NoConn) \/ (r.phase = "cancelled" /\ r.conn = c)
      BY <2>3, IdlerForm
    <3> HIDE DEF c
    <3>2. QED
      BY <2>1, <2>2, <2>3, <3>1, GivingBackKeepsLeases
  <2>5. workers'[w] = r /\ \A v \in Workers \ {w} : workers'[v] = workers[v]
    BY <1>1, <2>2
  <2>6. ASSUME NEW d \in Conns
        PROVE  InFlight(d)' = InFlight(d)
    <3>1. /\ r.phase \in {"busy", "cancelled"} <=> workers[w].phase = "busy"
          /\ workers[w].phase = "busy" => r.conn = workers[w].conn
      BY <1>3, <2>3, IdlerForm
    <3>2. ASSUME NEW v \in Workers
          PROVE  v \in InFlight(d)' <=> v \in InFlight(d)
      BY <1>3, <2>5, <3>1 DEF InFlight
    <3>3. QED
      BY <3>2 DEF InFlight
  <2>7. \A v \in Workers, d \in Conns : Holds(v, d)' =>
            Holds(v, d) /\ workers'[v].over = workers[v].over
    BY <2>3, <2>5, IdlerForm DEF Holds
  <2>8. QED
    BY <2>4, <2>6, <2>7 DEF Quiet
<1>4. QED
  BY <1>2, <1>3 DEF Cancel

LEMMA IdleTimerKeeps ==
    ASSUME LeasesInv, NEW c \in Conns, IdleTimer(c)
    PROVE  LeasesInv' /\ Quiet
<1>1. /\ conns \in [Conns -> Conn] /\ idle \in Seq(Conns) /\ timers = Members(idle)
      /\ Injective(idle) /\ c \in Members(idle) /\ noticed \in SUBSET Conns
  BY DEF IdleTimer, LeasesInv, PoolTypeOK, IdleInv
<1>2. /\ idle' \in Seq(Conns) /\ Members(idle') = Members(idle) \ {c} /\ Injective(idle')
      /\ timers' = Members(idle')
  BY <1>1, Removed DEF IdleTimer
<1>3. SocketsAge /\ SameRequests /\ ~IsOpen(c)'
  BY <1>1, ClosingForm DEF IdleTimer
<1>4. /\ workers' = workers /\ scopes' = scopes /\ noticed' = noticed /\ unnoticed' = unnoticed
      /\ \A v \in Workers, d \in Conns : Holds(v, d)' = Holds(v, d)
      /\ \A d \in Conns : InFlight(d)' = InFlight(d)
  BY DEF IdleTimer, Holds, InFlight
<1>5. PoolTypeOK' /\ IdleInv'
  BY <1>2, <1>3, <1>4 DEF LeasesInv, PoolTypeOK, IdleInv, SocketsAge
<1>6. UseInv'
  <2>1. \A d \in Members(idle') \cup noticed : d \in Conns /\ conns[d].state # "unused"
    <3>1. Members(idle) \subseteq Conns
      BY <1>1 DEF Members
    <3>2. \A d \in Members(idle) \cup noticed : d \in Conns /\ conns[d].state # "unused"
      BY <1>1, <3>1 DEF LeasesInv, UseInv
    <3>3. QED
      BY <1>2, <3>2
  <2>2. QED
    BY <1>3, <1>4, <2>1 DEF LeasesInv, UseInv, SocketsAge
<1>7. LeaseInv'
  BY <1>2, <1>4 DEF LeasesInv, LeaseInv
<1>8. PoisonInv'
  BY <1>1, <1>2, <1>4 DEF LeasesInv, PoisonInv
<1>9. AccountInv'
  BY <1>2, <1>3, <1>4 DEF LeasesInv, AccountInv, SocketsAge
<1>10. QED
  BY <1>3, <1>4, <1>5, <1>6, <1>7, <1>8, <1>9 DEF LeasesInv, Quiet

LEMMA ConnectKeeps ==
    ASSUME LeasesInv, NEW w \in Workers, NEW scope \in Scopes, NEW stream \in BOOLEAN,
           Connect(w, scope, stream)
    PROVE  LeasesInv' /\ Quiet
<1> USE NoConnAssumption
<1> DEFINE dial == Usable(scope) = {}
           h == idle[Chosen(scope)]
           r == [phase |-> IF dial THEN "dialing" ELSE "leased",
                 conn |-> IF dial THEN NoConn ELSE h,
                 scope |-> scope, stream |-> stream, failed |-> FALSE,
                 over |-> FALSE, aborted |-> FALSE]
           out == PoppedConns(scope)
<1>1. /\ workers \in [Workers -> Worker] /\ conns \in [Conns -> Conn] /\ idle \in Seq(Conns)
      /\ timers = Members(idle) /\ Injective(idle) /\ noticed \in SUBSET Conns
  BY DEF LeasesInv, PoolTypeOK, IdleInv
<1>2. /\ workers[w].phase = "none" /\ workers' = [workers EXCEPT ![w] = r]
      /\ idle' = RemoveConns(idle, out) /\ timers' = timers \ out
      /\ UNCHANGED <<conns, scopes, noticed, unnoticed>>
  BY DEF Connect
<1>3. /\ out \subseteq Members(idle)
      /\ IF dial THEN \A c \in out : ~IsOpen(c)
         ELSE h \in out /\ IsOpen(h) /\ \A c \in out : c = h \/ ~IsOpen(c)
  BY PoppedForm
<1> HIDE DEF out, h, dial
<1>4. /\ idle' \in Seq(Conns) /\ Members(idle') = Members(idle) \ out /\ Injective(idle')
      /\ timers' = Members(idle')
  BY <1>1, <1>2, Removed
<1>5. Members(idle) \subseteq Conns /\ (~dial => h \in Conns /\ h \in Members(idle))
  BY <1>1, <1>3 DEF Members
<1>6. /\ r \in Worker /\ ~r.failed
      /\ IF dial THEN r.phase = "dialing" /\ r.conn = NoConn
         ELSE r.phase = "leased" /\ r.conn = h
  BY <1>5 DEF Worker
<1> HIDE DEF r
<1>7. /\ workers' \in [Workers -> Worker] /\ workers'[w] = r
      /\ \A v \in Workers \ {w} : workers'[v] = workers[v]
  BY <1>1, <1>2, <1>6
<1>8. \A v \in Workers, d \in Conns :
          /\ Holds(v, d)' <=> (v # w /\ Holds(v, d)) \/ (v = w /\ ~dial /\ d = h)
          /\ Holds(v, d) => v # w
  BY <1>2, <1>6, <1>7 DEF Holds
<1>9. \A d \in Conns : IsOpen(d)' = IsOpen(d)
  BY <1>2 DEF IsOpen
<1>10. Quiet
  <2>1. \A d \in Conns : InFlight(d)' = InFlight(d)
    BY <1>2, <1>6, <1>7 DEF InFlight
  <2>2. SocketsAge /\ SameRequests
    BY <1>1, <1>2, SameForm
  <2>3. \A v \in Workers, d \in Conns : Holds(v, d)' =>
            IsOpen(d) \/ (Holds(v, d) /\ workers'[v].over = workers[v].over)
    BY <1>3, <1>7, <1>8
  <2>4. QED
    BY <2>1, <2>2, <2>3 DEF Quiet
<1>11. PoolTypeOK' /\ IdleInv'
  <2>1. timers' \in SUBSET Conns
    BY <1>4, <1>5
  <2>2. QED
    BY <1>2, <1>4, <1>7, <2>1 DEF LeasesInv, PoolTypeOK, IdleInv
<1>12. UseInv'
  <2>1. ASSUME NEW v \in Workers
        PROVE  /\ workers'[v].phase \in {"none", "dialing"} <=> workers'[v].conn = NoConn
               /\ workers'[v].phase = "dialing" => ~workers'[v].failed
               /\ workers'[v].conn \in Conns => conns'[workers'[v].conn].state # "unused"
    <3>1. CASE v = w
      <4>1. ~dial => conns[h].state # "unused"
        BY <1>5 DEF LeasesInv, UseInv
      <4>2. QED
        BY <1>2, <1>5, <1>6, <1>7, <3>1, <4>1
    <3>2. CASE v # w
      BY <1>2, <1>7, <3>2 DEF LeasesInv, UseInv
    <3>3. QED
      BY <3>1, <3>2
  <2>2. \A c \in Members(idle') \cup noticed' : conns'[c].state # "unused"
    BY <1>2, <1>4 DEF LeasesInv, UseInv
  <2>3. QED
    BY <2>1, <2>2 DEF UseInv
<1>13. LeaseInv'
  <2>1. ASSUME NEW v \in Workers, NEW d \in Conns, Holds(v, d)'
        PROVE  d \notin Members(idle') /\ \A u \in Workers \ {v} : ~Holds(u, d)'
    <3>1. ~dial => \A u \in Workers : ~Holds(u, h)
      BY <1>5 DEF LeasesInv, LeaseInv
    <3>2. CASE v # w /\ Holds(v, d)
      <4>1. d \notin Members(idle) /\ \A u \in Workers \ {v} : ~Holds(u, d)
        BY <3>2 DEF LeasesInv, LeaseInv
      <4>2. QED
        BY <1>4, <1>8, <3>1, <3>2, <4>1
    <3>3. CASE v = w /\ ~dial /\ d = h
      BY <1>3, <1>4, <1>8, <3>1, <3>3
    <3>4. QED
      BY <1>8, <2>1, <3>2, <3>3
  <2>2. QED
    BY <2>1 DEF LeaseInv
<1>14. PoisonInv'
  <2>1. ASSUME NEW d \in noticed
        PROVE  d \notin Members(idle') /\ \A v \in Workers : Holds(v, d)' => workers'[v].failed
    <3>1. /\ d \in Conns /\ d \notin Members(idle)
          /\ \A v \in Workers : Holds(v, d) => workers[v].failed
      BY <1>1, <2>1 DEF LeasesInv, PoisonInv
    <3>2. QED
      BY <1>4, <1>5, <1>7, <1>8, <3>1
  <2>2. QED
    BY <1>2, <2>1 DEF PoisonInv
<1>15. AccountInv'
  <2>1. ASSUME NEW d \in Conns, IsOpen(d)
        PROVE  d \in Members(idle') \/ \E v \in Workers : Holds(v, d)'
    <3>1. CASE d \in out
      BY <1>3, <1>8, <2>1, <3>1
    <3>2. CASE d \notin out
      <4>1. d \in Members(idle) \/ \E v \in Workers : Holds(v, d)
        BY <2>1 DEF LeasesInv, AccountInv
      <4>2. QED
        BY <1>4, <1>8, <3>2, <4>1
    <3>3. QED
      BY <3>1, <3>2
  <2>2. QED
    BY <1>9, <2>1 DEF AccountInv
<1>16. QED
  BY <1>10, <1>11, <1>12, <1>13, <1>14, <1>15 DEF LeasesInv

-----------------------------------------------------------------------------
(* A dial, a request.                                                      *)

LEMMA DialDoneKeeps ==
    ASSUME LeasesInv, \A c \in Conns : RegisteredInv(c), NEW w \in Workers, DialDone(w)
    PROVE  /\ LeasesInv' /\ \A c \in Conns : RegisteredInv(c)'
           /\ (\A c \in Conns : Requests(c)) => \A c \in Conns : Requests(c)'
<1> USE NoConnAssumption
<1>1. PICK c \in Conns :
          /\ conns[c].state = "unused"
          /\ conns' = [conns EXCEPT ![c] = Wire!Opened]
          /\ scopes' = [scopes EXCEPT ![c] = workers[w].scope]
          /\ workers' = [workers EXCEPT ![w].phase = "leased", ![w].conn = c]
  BY DEF DialDone
<1>2. /\ workers \in [Workers -> Worker] /\ conns \in [Conns -> Conn]
      /\ scopes \in [Conns -> Scopes] /\ noticed \in SUBSET Conns
      /\ workers[w].phase = "dialing" /\ UNCHANGED <<idle, timers, noticed, unnoticed>>
  BY DEF LeasesInv, PoolTypeOK, DialDone
<1> DEFINE r == [workers[w] EXCEPT !.phase = "leased", !.conn = c]
<1>3. /\ r \in Worker /\ r.phase = "leased" /\ r.conn = c
      /\ workers'[w] = r /\ \A v \in Workers \ {w} : workers'[v] = workers[v]
      /\ workers' \in [Workers -> Worker]
  <2>1. workers[w] \in Worker
    BY <1>2
  <2>2. r \in Worker /\ r.phase = "leased" /\ r.conn = c
    BY <2>1 DEF Worker
  <2>3. workers' = [workers EXCEPT ![w] = r]
    BY <1>1, <1>2
  <2> HIDE DEF r
  <2>4. QED
    BY <1>2, <2>2, <2>3
<1> HIDE DEF r
<1>4. /\ conns'[c] = Wire!Opened /\ \A d \in Conns \ {c} : conns'[d] = conns[d]
      /\ conns' \in [Conns -> Conn]
  BY <1>1, <1>2, EmptyForm
<1>5. scopes' \in [Conns -> Scopes]
  BY <1>1, <1>2 DEF Worker
<1>6. /\ \A v \in Workers : workers[v].conn # c
      /\ c \notin Members(idle) /\ c \notin noticed
  BY <1>1 DEF LeasesInv, UseInv
<1>7. \A v \in Workers, d \in Conns :
          /\ Holds(v, d)' <=> (v # w /\ Holds(v, d)) \/ (v = w /\ d = c)
          /\ Holds(v, d) => v # w /\ d # c
  BY <1>2, <1>3, <1>6 DEF Holds
<1>8. /\ InFlight(c)' = {} /\ \A d \in Conns : InFlight(d)' = InFlight(d)
  <2>1. \A d \in Conns : InFlight(d)' = InFlight(d)
    BY <1>2, <1>3 DEF InFlight
  <2>2. InFlight(c) = {}
    BY <1>6 DEF InFlight
  <2>3. QED
    BY <2>1, <2>2
<1>9. \A d \in Conns \ {c} : IsOpen(d)' = IsOpen(d)
  BY <1>4 DEF IsOpen
<1>10. PoolTypeOK' /\ IdleInv'
  BY <1>2, <1>3, <1>4, <1>5 DEF LeasesInv, PoolTypeOK, IdleInv
<1>11. UseInv'
  <2>1. \A v \in Workers :
          /\ workers'[v].phase \in {"none", "dialing"} <=> workers'[v].conn = NoConn
          /\ workers'[v].phase = "dialing" => ~workers'[v].failed
          /\ workers'[v].conn \in Conns => conns'[workers'[v].conn].state # "unused"
    <3>1. conns'[c].state # "unused"
      BY <1>4, EmptyForm
    <3>2. ASSUME NEW v \in Workers \ {w}
          PROVE  /\ workers'[v].phase \in {"none", "dialing"} <=> workers'[v].conn = NoConn
                 /\ workers'[v].phase = "dialing" => ~workers'[v].failed
                 /\ workers'[v].conn \in Conns => conns'[workers'[v].conn].state # "unused"
      BY <1>3, <1>4, <1>6 DEF LeasesInv, UseInv
    <3>3. QED
      BY <1>3, <3>1, <3>2
  <2>2. \A d \in Members(idle) \cup noticed : conns'[d].state # "unused"
    <3>1. Members(idle) \subseteq Conns
      BY DEF LeasesInv, PoolTypeOK, Members
    <3>2. QED
      BY <1>2, <1>4, <1>6, <3>1 DEF LeasesInv, UseInv
  <2>3. QED
    BY <1>2, <2>1, <2>2 DEF UseInv
<1>12. LeaseInv'
  BY <1>2, <1>6, <1>7 DEF LeasesInv, LeaseInv
<1>13. PoisonInv'
  BY <1>2, <1>3, <1>6, <1>7 DEF LeasesInv, PoisonInv
<1>14. AccountInv'
  BY <1>2, <1>7, <1>9 DEF LeasesInv, AccountInv
<1>15. ASSUME NEW d \in Conns
       PROVE  /\ RegisteredInv(d)'
              /\ Requests(d) => Requests(d)'
  <2>1. CASE d = c
    BY <1>4, <1>8, <2>1, EmptyForm, NothingAsked
  <2>2. CASE d # c
    <3>1. QuietOn(d)
      BY <1>3, <1>4, <1>7, <1>8, <1>9, <2>2 DEF QuietOn
    <3>2. conns[d] \in Conn
      BY <1>2
    <3>3. QED
      BY <3>1, <3>2, QuietKeepsRequests
  <2>3. QED
    BY <2>1, <2>2
<1>16. QED
  BY <1>10, <1>11, <1>12, <1>13, <1>14, <1>15 DEF LeasesInv

\* What a request does, but to its connection.
LEMMA RequestEffect ==
    ASSUME LeasesInv, NEW w \in Workers, Request(w),
           NEW c \in Conns, c = workers[w].conn
    PROVE  /\ Holds(w, c) /\ w \notin InFlight(c)
           /\ ~workers[w].over
           /\ conns'[c] = Wire!Register(conns[c], w)
           /\ conns[c] \in Conn
           /\ \A d \in Conns \ {c} : conns'[d] = conns[d]
           /\ SocketsAge /\ IsOpen(c)' = IsOpen(c)
           /\ InFlight(c)' = InFlight(c) \cup {w}
           /\ \A d \in Conns \ {c} : InFlight(d)' = InFlight(d)
           /\ \A v \in Workers :
                 /\ workers'[v] \in Worker /\ workers'[v].conn = workers[v].conn
                 /\ workers'[v].failed = workers[v].failed /\ workers'[v].over = workers[v].over
                 /\ IF v = w THEN workers[v].phase = "leased" /\ workers'[v].phase = "busy"
                    ELSE workers'[v].phase = workers[v].phase
           /\ \A v \in Workers, d \in Conns : Holds(v, d)' = Holds(v, d)
<1>1. /\ workers \in [Workers -> Worker] /\ conns \in [Conns -> Conn]
      /\ workers[w].phase = "leased" /\ ~workers[w].over
      /\ workers' = [workers EXCEPT ![w].phase = "busy"]
      /\ conns' = [conns EXCEPT ![c] = Wire!Register(@, w)]
  BY DEF LeasesInv, PoolTypeOK, Request
<1>2. c \in Conns
  OBVIOUS
<1>3. /\ conns'[c] = Wire!Register(conns[c], w) /\ conns[c] \in Conn
      /\ \A d \in Conns \ {c} : conns'[d] = conns[d]
      /\ conns' \in [Conns -> Conn] /\ conns'[c].state = conns[c].state
  BY <1>1, <1>2, RegisterForm
<1>4. SocketsAge /\ IsOpen(c)' = IsOpen(c)
  <2>1. \A d \in Conns : conns'[d].state = conns[d].state
    BY <1>3
  <2>2. \A d \in Conns : IsOpen(d)' <=> IsOpen(d)
    BY <2>1 DEF IsOpen, Wire!IsOpen
  <2>3. IsOpen(c) \in BOOLEAN /\ IsOpen(c)' \in BOOLEAN
    BY DEF IsOpen, Wire!IsOpen
  <2>4. QED
    BY <1>2, <1>3, <2>1, <2>2, <2>3 DEF SocketsAge
<1>5. \A v \in Workers :
         /\ workers'[v] \in Worker /\ workers'[v].conn = workers[v].conn
         /\ workers'[v].failed = workers[v].failed /\ workers'[v].over = workers[v].over
         /\ IF v = w THEN workers[v].phase = "leased" /\ workers'[v].phase = "busy"
            ELSE workers'[v].phase = workers[v].phase
  <2>1. workers'[w] = [workers[w] EXCEPT !.phase = "busy"]
    BY <1>1
  <2>2. workers[w] \in Worker
    BY <1>1
  <2>3. /\ workers'[w] \in Worker /\ workers'[w].conn = workers[w].conn
        /\ workers'[w].failed = workers[w].failed /\ workers'[w].over = workers[w].over
        /\ workers'[w].phase = "busy"
    BY <2>1, <2>2 DEF Worker
  <2>4. QED
    BY <1>1, <2>3
<1>6. \A v \in Workers, d \in Conns : Holds(v, d)' = Holds(v, d)
  BY <1>5 DEF Holds
<1>7. InFlight(c)' = InFlight(c) \cup {w}
  BY <1>5 DEF InFlight
<1>8. \A d \in Conns \ {c} : InFlight(d)' = InFlight(d)
  BY <1>5 DEF InFlight
<1>9. Holds(w, c) /\ w \notin InFlight(c)
  BY <1>1 DEF Holds, InFlight
<1>10. QED
  BY <1>1, <1>3, <1>4, <1>5, <1>6, <1>7, <1>8, <1>9

LEMMA RequestKeepsLeases ==
    ASSUME LeasesInv, \A c \in Conns : RegisteredInv(c), NEW w \in Workers, Request(w)
    PROVE  LeasesInv' /\ \A c \in Conns : RegisteredInv(c)'
<1> PICK c \in Conns : c = workers[w].conn
  BY HolderFacts DEF Request
<1>1. /\ conns'[c] = Wire!Register(conns[c], w) /\ conns[c] \in Conn
      /\ \A d \in Conns \ {c} : conns'[d] = conns[d]
      /\ SocketsAge /\ w \notin InFlight(c)
      /\ InFlight(c)' = InFlight(c) \cup {w}
      /\ \A d \in Conns \ {c} : InFlight(d)' = InFlight(d)
  BY RequestEffect
<1>2. \A v \in Workers :
         /\ workers'[v] \in Worker /\ workers'[v].conn = workers[v].conn
         /\ workers'[v].failed = workers[v].failed
         /\ IF v = w THEN workers[v].phase = "leased" /\ workers'[v].phase = "busy"
            ELSE workers'[v].phase = workers[v].phase
  BY RequestEffect
<1>3. \A v \in Workers, d \in Conns : Holds(v, d)' = Holds(v, d)
  BY RequestEffect
<1>4. UNCHANGED <<scopes, idle, timers, noticed, unnoticed>>
  BY DEF Request
<1>5. PoolTypeOK' /\ IdleInv'
  <2>1. workers' \in [Workers -> Worker]
    BY <1>2 DEF LeasesInv, PoolTypeOK, Request
  <2>2. QED
    BY <1>1, <1>4, <2>1 DEF LeasesInv, PoolTypeOK, IdleInv, SocketsAge
<1>6. UseInv'
  <2>1. \A v \in Workers :
          /\ workers'[v].phase \in {"none", "dialing"} <=> workers'[v].conn = NoConn
          /\ workers'[v].phase = "dialing" => ~workers'[v].failed
          /\ workers'[v].conn \in Conns => conns'[workers'[v].conn].state # "unused"
    BY <1>1, <1>2 DEF LeasesInv, UseInv, SocketsAge
  <2>2. Members(idle) \cup noticed \subseteq Conns
    BY DEF LeasesInv, PoolTypeOK, Members
  <2>3. \A d \in Members(idle) \cup noticed : conns'[d].state # "unused"
    BY <1>1, <2>2 DEF LeasesInv, UseInv, SocketsAge
  <2>4. QED
    BY <1>4, <2>1, <2>3 DEF UseInv
<1>7. LeaseInv' /\ AccountInv'
  BY <1>1, <1>3, <1>4 DEF LeasesInv, LeaseInv, AccountInv, SocketsAge
<1>8. PoisonInv'
  <2>1. noticed \in SUBSET Conns
    BY DEF LeasesInv, PoolTypeOK
  <2>2. QED
    BY <1>2, <1>3, <1>4, <2>1 DEF LeasesInv, PoisonInv
<1>9. ASSUME NEW d \in Conns
      PROVE  RegisteredInv(d)'
  <2>1. CASE d = c
    <3>1. /\ conns'[c].pending = [conns[c].pending EXCEPT ![conns[c].nextId] = w]
          /\ conns[c].nextId \in ConnIds
          /\ conns[c].pending \in [ConnIds -> Workers \cup {NoWorker}]
      <4>1. conns'[c].pending = [conns[c].pending EXCEPT ![conns[c].nextId] = w]
        <5> DEFINE x == conns[c]
                   y == conns'[c]
        <5>1. x \in Conn /\ y = Wire!Register(x, w)
          BY <1>1
        <5> HIDE DEF x, y
        <5>2. y.pending = [x.pending EXCEPT ![x.nextId] = w]
          BY <5>1, RegisterForm
        <5>3. QED
          BY <5>2 DEF x, y
      <4>2. conns[c].nextId \in ConnIds /\ conns[c].pending \in [ConnIds -> Workers \cup {NoWorker}]
        BY <1>1, EntryForm
      <4>3. QED
        BY <4>1, <4>2
    <3>2. \A i \in ConnIds : conns[c].pending[i] # w
      BY <1>1, NoWorkerAssumption DEF RegisteredInv, ConnIds
    <3>3. ASSUME NEW i \in ConnIds, conns'[c].pending[i] # NoWorker
          PROVE  /\ conns'[c].pending[i] \in InFlight(c)'
                 /\ \A j \in ConnIds : conns'[c].pending[j] = conns'[c].pending[i] => j = i
      <4>1. CASE i = conns[c].nextId
        BY <1>1, <3>1, <3>2, <4>1
      <4>2. CASE i # conns[c].nextId
        <5>1. conns'[c].pending[i] = conns[c].pending[i]
          BY <3>1, <4>2
        <5>2. /\ conns[c].pending[i] \in InFlight(c)
              /\ \A j \in ConnIds : conns[c].pending[j] = conns[c].pending[i] => j = i
          BY <1>1, <3>3, <5>1 DEF RegisteredInv, ConnIds
        <5>3. QED
          BY <1>1, <3>1, <5>1, <5>2
      <4>3. QED
        BY <4>1, <4>2
    <3>4. QED
      BY <2>1, <3>3 DEF RegisteredInv, ConnIds
  <2>2. CASE d # c
    BY <1>1, <2>2 DEF RegisteredInv
  <2>3. QED
    BY <2>1, <2>2
<1>10. QED
  BY <1>5, <1>6, <1>7, <1>8, <1>9 DEF LeasesInv

-----------------------------------------------------------------------------
(* Requests that end.                                                      *)

\* Requests that end: those of F fail, those of G end well.
Settled(F, G, t) ==
    workers' = [w \in Workers |-> IF w \in F THEN Failed(workers[w], t)
                                  ELSE IF w \in G THEN Succeeded(workers[w])
                                  ELSE workers[w]]

\* On connection c the requests of F fail, and those of G end well.
Settling(c, F, G) ==
    /\ \E t \in BOOLEAN : Settled(F, G, t)
    /\ NoteFailures(F)
    /\ UNCHANGED <<scopes, idle, timers>>
    /\ SocketsAge
    /\ \A d \in Conns \ {c} : conns'[d] = conns[d]

LEMMA SettlingEffect ==
    ASSUME LeasesInv, NEW c \in Conns, NEW F \in SUBSET InFlight(c),
           NEW G \in SUBSET InFlight(c), Settling(c, F, G)
    PROVE  /\ LeasesInv'
           /\ InFlight(c)' = InFlight(c) \ (F \cup G)
           /\ \A d \in Conns \ {c} : QuietOn(d)
           /\ \A v \in Workers : Holds(v, c)' =>
                 /\ Holds(v, c)
                 /\ v \notin F => workers'[v].over = workers[v].over
<1> USE NoConnAssumption
<1> PICK t \in BOOLEAN : Settled(F, G, t)
  BY DEF Settling
<1>1. /\ F \in SUBSET Waiting /\ G \in SUBSET Waiting
      /\ \A v \in F \cup G : v \in Workers /\ workers[v].conn = c
  BY DEF InFlight, Waiting
<1>2. LeasesInv'
  BY <1>1, SettlingKeepsLeases DEF Settling, Settled
<1>3. ASSUME NEW v \in Workers
      PROVE  IF v \in F \cup G
             THEN /\ workers[v].phase \in {"busy", "cancelled"} /\ workers[v].conn = c
                  /\ workers'[v].phase \in {"none", "leased"}
                  /\ workers'[v].phase = "leased" => workers'[v].conn = c
                                                     /\ workers[v].phase = "busy"
                  /\ workers'[v].phase = "leased" /\ v \notin F =>
                        workers'[v].over = workers[v].over
             ELSE workers'[v] = workers[v]
  <2>1. workers[v] \in Worker
    BY HolderFacts
  <2>2. CASE v \in F
    <3>1. workers'[v] = Failed(workers[v], t) /\ workers[v].phase \in {"busy", "cancelled"}
      BY <1>1, <2>2 DEF Settled, Waiting
    <3>2. QED
      BY <1>1, <2>1, <2>2, <3>1, SettledForm, IdlerForm
  <2>3. CASE v \notin F /\ v \in G
    <3>1. workers'[v] = Succeeded(workers[v]) /\ workers[v].phase \in {"busy", "cancelled"}
      BY <1>1, <2>3 DEF Settled, Waiting
    <3>2. QED
      BY <1>1, <2>1, <2>3, <3>1, SettledForm, IdlerForm
  <2>4. CASE v \notin F \cup G
    BY <2>4 DEF Settled
  <2>5. QED
    BY <2>2, <2>3, <2>4
<1>4. InFlight(c)' = InFlight(c) \ (F \cup G)
  BY <1>3 DEF InFlight
<1>5. \A v \in Workers : Holds(v, c)' =>
          /\ Holds(v, c)
          /\ v \notin F => workers'[v].over = workers[v].over
  BY <1>3 DEF Holds
<1>6. ASSUME NEW d \in Conns \ {c}
      PROVE  QuietOn(d)
  <2>1. InFlight(d)' = InFlight(d)
    BY <1>3 DEF InFlight
  <2>2. \A v \in Workers : Holds(v, d)' =>
            Holds(v, d) /\ workers'[v].over = workers[v].over
    BY <1>3 DEF Holds
  <2>3. conns'[d] = conns[d] /\ (IsOpen(d)' => IsOpen(d))
    BY DEF Settling, SocketsAge
  <2>4. QED
    BY <2>1, <2>2, <2>3 DEF QuietOn
<1>7. QED
  BY <1>2, <1>4, <1>5, <1>6

\* The connections a settling step leaves alone.
LEMMA SettlingElsewhere ==
    ASSUME LeasesInv, NEW c \in Conns, NEW F \in SUBSET InFlight(c),
           NEW G \in SUBSET InFlight(c), Settling(c, F, G), NEW d \in Conns \ {c}
    PROVE  /\ RegisteredInv(d) => RegisteredInv(d)'
           /\ Requests(d) => Requests(d)'
<1>1. conns[d] \in Conn
  BY DEF LeasesInv, PoolTypeOK
<1>2. QED
  BY <1>1, SettlingEffect, QuietKeepsRequests

\* What a frame is about.
LEMMA ServingForm ==
    ASSUME LeasesInv, NEW c \in Conns, RegisteredInv(c), Serving(c)
    PROVE  LET x == conns[c]
           IN  /\ x \in Conn /\ x.queue # <<>> /\ Len(x.queue) \in Nat \ {0}
               /\ x.queue[1].id \in ConnIds
               /\ Wire!Addressee(x) = x.pending[x.queue[1].id]
               /\ x.pending[x.queue[1].id] \in InFlight(c) \cup {NoWorker}
<1> DEFINE x == conns[c]
<1>1. x \in Conn /\ x.queue # <<>>
  BY DEF LeasesInv, PoolTypeOK, Serving
<1>2. \A i \in ConnIds : x.pending[i] \in InFlight(c) \cup {NoWorker}
  BY DEF RegisteredInv, ConnIds
<1> HIDE DEF x
<1>3. x.queue \in Seq(Entries)
  BY <1>1, EntryForm
<1>4. Len(x.queue) \in Nat \ {0} /\ Head(x.queue) = x.queue[1]
  BY <1>1, <1>3
<1>5. x.queue[1].id \in ConnIds
  BY <1>1, <1>4, EntryForm
<1>6. QED
  BY <1>1, <1>2, <1>4, <1>5 DEF x, Wire!Addressee

LEMMA ReplyEffect ==
    ASSUME LeasesInv, NEW c \in Conns, RegisteredInv(c), Reply(c)
    PROVE  LET w == conns[c].pending[conns[c].queue[1].id]
           IN  \E F, G \in SUBSET InFlight(c) :
                  /\ Settling(c, F, G)
                  /\ F \cup G = IF w = NoWorker THEN {} ELSE {w}
<1> DEFINE w == conns[c].pending[conns[c].queue[1].id]
<1>1. Serving(c) /\ conns' = [conns EXCEPT ![c] = Wire!Answered(@)]
      /\ UNCHANGED <<scopes, idle, timers>>
  BY DEF Reply
<1>2. w = Wire!Addressee(conns[c]) /\ w \in InFlight(c) \cup {NoWorker}
  BY <1>1, ServingForm
<1>3. conns \in [Conns -> Conn] /\ workers \in [Workers -> Worker]
  BY DEF LeasesInv, PoolTypeOK
<1>4. conns[c] \in Conn /\ conns[c].queue # <<>>
  BY <1>1, ServingForm
<1>5. SocketsAge /\ \A d \in Conns \ {c} : conns'[d] = conns[d]
  <2>1. conns' \in [Conns -> Conn] /\ \A d \in Conns : conns'[d].state = conns[d].state
    BY <1>1, <1>3, <1>4, AnsweredForm
  <2>2. \A d \in Conns : IsOpen(d)' <=> IsOpen(d)
    BY <2>1 DEF IsOpen, Wire!IsOpen
  <2>3. QED
    BY <1>1, <1>3, <2>1, <2>2 DEF SocketsAge
<1> HIDE DEF w
<1>6. \/ w = NoWorker /\ UNCHANGED <<workers, noticed, unnoticed>>
      \/ w # NoWorker /\ workers' = [workers EXCEPT ![w] = Succeeded(@)] /\ UNCHANGED <<noticed, unnoticed>>
      \/ /\ w # NoWorker /\ NoteFailures({w})
         /\ \E t \in BOOLEAN : workers' = [workers EXCEPT ![w] = Failed(@, t)]
  BY <1>2 DEF Reply, MissingParent
<1>7. Noticed({}) = {} /\ Unnoticed({}) = {} /\ (w # NoWorker => w \in Workers /\ w \in InFlight(c))
  BY <1>2 DEF Noticed, Unnoticed, InFlight
<1>8. CASE w = NoWorker
  <2>1. UNCHANGED <<workers, noticed, unnoticed>>
    BY <1>6, <1>8
  <2>2. Settling(c, {}, {})
    BY <1>1, <1>3, <1>5, <1>7, <2>1 DEF Settling, Settled, NoteFailures
  <2>3. {} \in SUBSET InFlight(c)
    OBVIOUS
  <2>4. QED
    BY <1>8, <2>2, <2>3 DEF w
<1>9. CASE w # NoWorker /\ workers' = [workers EXCEPT ![w] = Succeeded(@)] /\ UNCHANGED <<noticed, unnoticed>>
  <2>1. Settling(c, {}, {w})
    BY <1>1, <1>3, <1>5, <1>7, <1>9 DEF Settling, Settled, NoteFailures
  <2>2. {} \in SUBSET InFlight(c) /\ {w} \in SUBSET InFlight(c)
    BY <1>7, <1>9
  <2>3. QED
    BY <1>9, <2>1, <2>2 DEF w
<1>10. CASE /\ w # NoWorker /\ NoteFailures({w})
            /\ \E t \in BOOLEAN : workers' = [workers EXCEPT ![w] = Failed(@, t)]
  <2> PICK t \in BOOLEAN : workers' = [workers EXCEPT ![w] = Failed(@, t)]
    BY <1>10
  <2>1. Settling(c, {w}, {})
    BY <1>1, <1>3, <1>5, <1>7, <1>10 DEF Settling, Settled
  <2>2. {} \in SUBSET InFlight(c) /\ {w} \in SUBSET InFlight(c)
    BY <1>7, <1>10
  <2>3. QED
    BY <1>10, <2>1, <2>2 DEF w
<1>11. QED
  BY <1>6, <1>8, <1>9, <1>10

LEMMA ReplyKeepsLeases ==
    ASSUME LeasesInv, \A d \in Conns : RegisteredInv(d), NEW c \in Conns, Reply(c)
    PROVE  LeasesInv' /\ \A d \in Conns : RegisteredInv(d)'
<1> DEFINE x == conns[c]
           y == conns'[c]
           id == x.queue[1].id
           w == x.pending[id]
<1>1. PICK F, G \in SUBSET InFlight(c) :
          Settling(c, F, G) /\ F \cup G = IF w = NoWorker THEN {} ELSE {w}
  BY ReplyEffect
<1>2. LeasesInv' /\ InFlight(c)' = InFlight(c) \ (F \cup G)
  BY <1>1, SettlingEffect
<1>3. \A d \in Conns \ {c} : RegisteredInv(d)'
  BY <1>1, SettlingElsewhere
<1>4. RegisteredInv(c)'
  <2>1. x \in Conn /\ x.queue # <<>> /\ id \in ConnIds
    BY ServingForm DEF Reply
  <2>2. y = Wire!Answered(x)
    BY DEF Reply, LeasesInv, PoolTypeOK
  <2>3. \A i \in ConnIds : x.pending[i] # NoWorker =>
            /\ x.pending[i] \in InFlight(c)
            /\ \A j \in ConnIds : x.pending[j] = x.pending[i] => j = i
    BY DEF RegisteredInv, ConnIds
  <2>4. RegisteredInv(c)' <=> \A i \in ConnIds : y.pending[i] # NoWorker =>
            /\ y.pending[i] \in InFlight(c)'
            /\ \A j \in ConnIds : y.pending[j] = y.pending[i] => j = i
    BY DEF RegisteredInv, ConnIds
  <2> HIDE DEF x, y
  <2>5. y.pending = [x.pending EXCEPT ![id] = NoWorker]
        /\ x.pending \in [ConnIds -> Workers \cup {NoWorker}]
    BY <2>1, <2>2, AnsweredForm, EntryForm
  <2> HIDE DEF id
  <2>6. QED
    BY <1>1, <1>2, <2>1, <2>3, <2>4, <2>5
<1>5. QED
  BY <1>2, <1>3, <1>4

LEMMA RequestFailsEffect ==
    ASSUME LeasesInv, NEW w \in Workers, RequestFails(w),
           NEW c \in Conns, c = workers[w].conn
    PROVE  /\ {w} \in SUBSET InFlight(c) /\ Settling(c, {w}, {})
           /\ conns[c] \in Conn
           /\ conns'[c] = Wire!CloseSocket(Wire!Deleted(conns[c], w))
           /\ ~IsOpen(c)' /\ (Holds(w, c)' => workers'[w].over)
<1>1. /\ conns \in [Conns -> Conn] /\ workers \in [Workers -> Worker]
      /\ conns' = [conns EXCEPT ![c] = Wire!CloseSocket(Wire!Deleted(@, w))]
      /\ workers' = [workers EXCEPT ![w] = Failed(@, TRUE)]
      /\ NoteFailures({w})
      /\ UNCHANGED <<scopes, idle, timers>>
      /\ workers[w].phase \in {"busy", "cancelled"}
  BY DEF LeasesInv, PoolTypeOK, RequestFails
<1>2. conns[c] \in Conn /\ conns'[c] = Wire!CloseSocket(Wire!Deleted(conns[c], w))
  BY <1>1
<1>3. /\ conns'[c] \in Conn
      /\ conns'[c].state = IF conns[c].state = "open" THEN "closing" ELSE conns[c].state
  <2> DEFINE x == conns[c]
             y == Wire!Deleted(x, w)
  <2>1. x \in Conn /\ conns'[c] = Wire!CloseSocket(y)
    BY <1>2
  <2> HIDE DEF x
  <2>2. y \in Conn /\ y.state = x.state
    BY <2>1, DeletedForm
  <2> HIDE DEF y
  <2>3. QED
    BY <2>1, <2>2, ClosedForm DEF x
<1>4. conns' \in [Conns -> Conn] /\ \A d \in Conns \ {c} : conns'[d] = conns[d]
  BY <1>1, <1>2, <1>3
<1>5. ~IsOpen(c)' /\ SocketsAge
  BY <1>3, <1>4 DEF SocketsAge, IsOpen, Wire!IsOpen
<1>6. Settling(c, {w}, {})
  BY <1>1, <1>4, <1>5 DEF Settling, Settled
<1>7. Holds(w, c)' => workers'[w].over
  <2>1. workers[w] \in Worker /\ workers'[w] = Failed(workers[w], TRUE)
    BY <1>1
  <2>2. QED
    BY <1>1, <2>1, SettledForm, IdlerForm DEF Holds
<1>8. QED
  BY <1>1, <1>2, <1>5, <1>6, <1>7 DEF InFlight

LEMMA RequestFailsKeepsLeases ==
    ASSUME LeasesInv, \A d \in Conns : RegisteredInv(d), NEW w \in Workers, RequestFails(w)
    PROVE  LeasesInv' /\ \A d \in Conns : RegisteredInv(d)'
<1> PICK c \in Conns : c = workers[w].conn
  BY HolderFacts DEF RequestFails
<1>1. /\ {w} \in SUBSET InFlight(c) /\ {} \in SUBSET InFlight(c)
      /\ Settling(c, {w}, {})
  BY RequestFailsEffect
<1>2. LeasesInv' /\ InFlight(c)' = InFlight(c) \ {w}
  <2> DEFINE F == {w}
             G == {}
  <2>1. F \in SUBSET InFlight(c) /\ G \in SUBSET InFlight(c) /\ Settling(c, F, G)
    BY <1>1
  <2> HIDE DEF F, G
  <2>2. LeasesInv'
    BY <2>1, SettlingEffect
  <2>3. InFlight(c)' = InFlight(c) \ (F \cup G)
    BY <2>1, SettlingEffect
  <2>4. QED
    BY <2>2, <2>3 DEF F, G
<1>3. \A d \in Conns \ {c} : RegisteredInv(d)'
  BY <1>1, SettlingElsewhere
<1>4. RegisteredInv(c)'
  <2> DEFINE x == conns[c]
             y == conns'[c]
  <2>1. x \in Conn /\ y = Wire!CloseSocket(Wire!Deleted(x, w))
    BY RequestFailsEffect
  <2>2. \A i \in ConnIds : x.pending[i] # NoWorker =>
            /\ x.pending[i] \in InFlight(c)
            /\ \A j \in ConnIds : x.pending[j] = x.pending[i] => j = i
    BY DEF RegisteredInv, ConnIds
  <2>3. RegisteredInv(c)' <=> \A i \in ConnIds : y.pending[i] # NoWorker =>
            /\ y.pending[i] \in InFlight(c)'
            /\ \A j \in ConnIds : y.pending[j] = y.pending[i] => j = i
    BY DEF RegisteredInv, ConnIds
  <2> HIDE DEF x, y
  <2>4. y.pending = [i \in ConnIds |-> IF x.pending[i] = w THEN NoWorker ELSE x.pending[i]]
    BY <2>1, DeletedForm, ClosedForm
  <2>5. QED
    BY <1>2, <2>2, <2>3, <2>4
<1>5. QED
  BY <1>2, <1>3, <1>4

LEMMA SocketClosedEffect ==
    ASSUME LeasesInv, NEW c \in Conns, RegisteredInv(c), SocketClosed(c)
    PROVE  \E F \in SUBSET InFlight(c) :
              /\ Settling(c, F, {}) /\ conns'[c] = Wire!Lost
              /\ F = {w \in Workers : \E i \in ConnIds : conns[c].pending[i] = w}
<1> DEFINE F == Wire!Registered(conns[c])
<1>1. F = {w \in Workers : \E i \in ConnIds : conns[c].pending[i] = w}
  BY DEF Wire!Registered, Wire!Ids, ConnIds
<1>2. F \in SUBSET InFlight(c)
  BY <1>1, NoWorkerAssumption DEF RegisteredInv, ConnIds
<1>3. /\ conns \in [Conns -> Conn] /\ workers \in [Workers -> Worker]
      /\ conns' = [conns EXCEPT ![c] = Wire!Lost]
      /\ workers' = [w \in Workers |-> IF w \in F THEN Failed(workers[w], TRUE) ELSE workers[w]]
      /\ NoteFailures(F)
      /\ UNCHANGED <<scopes, idle, timers>>
      /\ conns[c].state \in {"open", "closing"}
  BY DEF LeasesInv, PoolTypeOK, SocketClosed
<1> HIDE DEF F
<1>4. /\ conns' \in [Conns -> Conn] /\ conns'[c] = Wire!Lost /\ conns'[c].state = "closed"
      /\ \A d \in Conns \ {c} : conns'[d] = conns[d]
  BY <1>3, EmptyForm
<1>5. SocketsAge
  BY <1>3, <1>4 DEF SocketsAge, IsOpen, Wire!IsOpen
<1>6. Settling(c, F, {})
  BY <1>3, <1>4, <1>5 DEF Settling, Settled
<1>7. QED
  BY <1>1, <1>2, <1>4, <1>6

LEMMA SocketClosedKeepsLeases ==
    ASSUME LeasesInv, \A d \in Conns : RegisteredInv(d), NEW c \in Conns, SocketClosed(c)
    PROVE  LeasesInv' /\ \A d \in Conns : RegisteredInv(d)'
<1>1. PICK F \in SUBSET InFlight(c) : Settling(c, F, {}) /\ conns'[c] = Wire!Lost
  BY SocketClosedEffect
<1>2. {} \in SUBSET InFlight(c)
  OBVIOUS
<1>3. LeasesInv'
  BY <1>1, <1>2, SettlingEffect
<1>4. \A d \in Conns \ {c} : RegisteredInv(d)'
  BY <1>1, <1>2, SettlingElsewhere
<1>5. RegisteredInv(c)'
  BY <1>1, EmptyForm DEF RegisteredInv, ConnIds
<1>6. QED
  BY <1>3, <1>4, <1>5

-----------------------------------------------------------------------------
(* Leases, always.                                                         *)

LEMMA InitEstablishes ==
    ASSUME Init
    PROVE  LeasesInv /\ \A c \in Conns : RegisteredInv(c) /\ Requests(c)
<1> USE NoConnAssumption
<1>1. /\ \A w \in Workers : workers[w] = Idler
      /\ \A c \in Conns : conns[c] = Wire!Unused
      /\ idle = <<>> /\ timers = {} /\ noticed = {} /\ unnoticed = {}
  BY DEF Init
<1>2. Members(idle) = {}
  BY <1>1 DEF Members
<1>3. PoolTypeOK
  <2>1. idle \in Seq(Conns)
    BY <1>1
  <2>2. QED
    BY <1>1, <2>1, EmptyForm, IdlerForm DEF Init, PoolTypeOK, Scopes
<1>4. IdleInv /\ UseInv
  BY <1>1, <1>2, IdlerForm DEF IdleInv, UseInv, Injective
<1>5. \A w \in Workers, c \in Conns : ~Holds(w, c) /\ w \notin InFlight(c)
  BY <1>1, IdlerForm DEF Holds, InFlight
<1>6. \A c \in Conns : ~IsOpen(c) /\ InFlight(c) = {}
  BY <1>1, <1>5, EmptyForm DEF IsOpen, Wire!IsOpen, InFlight
<1>7. LeaseInv /\ PoisonInv /\ AccountInv
  BY <1>1, <1>5, <1>6 DEF LeaseInv, PoisonInv, AccountInv
<1>8. ASSUME NEW c \in Conns
      PROVE  RegisteredInv(c) /\ Requests(c)
  <2>1. /\ conns[c].queue = <<>> /\ Len(conns[c].queue) = 0 /\ InFlight(c) = {}
        /\ \A i \in ConnIds : conns[c].pending[i] = NoWorker
    BY <1>1, <1>6, EmptyForm
  <2>2. QED
    BY <2>1 DEF RegisteredInv, Requests, QueueInv, WaitInv, PendingInv, ConnIds
<1>9. QED
  BY <1>3, <1>4, <1>7, <1>8 DEF LeasesInv

LEMMA QuietStep ==
    ASSUME LeasesInv, Quiet, NEW c \in Conns
    PROVE  /\ RegisteredInv(c) => RegisteredInv(c)'
           /\ Requests(c) => Requests(c)'
<1>1. conns[c] \in Conn
  BY DEF LeasesInv, PoolTypeOK
<1>2. QED
  BY <1>1, QuietEverywhere, QuietKeepsRequests

\* The steps that begin or end no request, and no dial.
QuietActions ==
    \/ \E w \in Workers :
          \/ \E scope \in Scopes, stream \in BOOLEAN : Connect(w, scope, stream)
          \/ DialFails(w) \/ Release(w) \/ Cancel(w)
    \/ \E c \in Conns : IdleTimer(c)

LEMMA QuietActionsKeep ==
    ASSUME LeasesInv, QuietActions
    PROVE  LeasesInv' /\ Quiet
BY ConnectKeeps, DialFailsKeeps, ReleaseKeeps, CancelKeeps, IdleTimerKeeps DEF QuietActions

LEMMA NextCases ==
    ASSUME Next
    PROVE  \/ QuietActions
           \/ \E w \in Workers : DialDone(w) \/ Request(w) \/ RequestFails(w)
           \/ \E c \in Conns : Reply(c) \/ SocketClosed(c)
BY DEF Next, QuietActions

LEMMA NextKeepsLeases ==
    ASSUME LeasesFullInv, [Next]_vars
    PROVE  LeasesFullInv'
<1>1. LeasesInv /\ \A c \in Conns : RegisteredInv(c)
  BY DEF LeasesFullInv
<1>2. CASE QuietActions
  BY <1>1, <1>2, QuietActionsKeep, QuietStep DEF LeasesFullInv
<1>3. CASE \E w \in Workers : DialDone(w) \/ Request(w) \/ RequestFails(w)
  BY <1>1, <1>3, DialDoneKeeps, RequestKeepsLeases, RequestFailsKeepsLeases DEF LeasesFullInv
<1>4. CASE \E c \in Conns : Reply(c) \/ SocketClosed(c)
  BY <1>1, <1>4, ReplyKeepsLeases, SocketClosedKeepsLeases DEF LeasesFullInv
<1>5. CASE UNCHANGED vars
  BY <1>1, <1>5 DEF vars, LeasesFullInv, LeasesInv, PoolTypeOK, IdleInv, UseInv, LeaseInv,
                    PoisonInv, AccountInv, Holds, IsOpen, RegisteredInv, InFlight
<1>6. QED
  BY <1>2, <1>3, <1>4, <1>5, NextCases

LEMMA AlwaysLeases == Spec => []LeasesFullInv
<1>1. Init => LeasesFullInv
  BY InitEstablishes DEF LeasesFullInv
<1>2. QED
  BY <1>1, NextKeepsLeases, PTL DEF Spec

LEMMA MembersAreSet ==
    ASSUME LeasesInv
    PROVE  ToSet(idle) = Members(idle)
BY DEF LeasesInv, PoolTypeOK, ToSet, Members

\* The pool keeps its types: what #connect, #release and the requests of
\* files-ws-client.ts write is what the model says they hold.
THEOREM PoolTypes == Spec => []PoolTypeOK
<1>1. LeasesFullInv => PoolTypeOK
  BY DEF LeasesFullInv, LeasesInv
<1>2. QED
  BY <1>1, AlwaysLeases, PTL

\* #connect never hands a connection to two callers, and never leaves a leased one
\* where another caller finds it, whatever the callers do and in any order.
THEOREM LeasesAreExclusive == Spec => []LeaseExclusive
<1>1. LeasesFullInv => LeaseExclusive
  BY MembersAreSet DEF LeasesFullInv, LeasesInv, LeaseInv, LeaseExclusive
<1>2. QED
  BY <1>1, AlwaysLeases, PTL

\* The guard of the lease keeps a connection on which a request failed while it was
\* leased to who made it out of the pool for good, whatever the others do. It says
\* nothing of a request that a cancelled read leaves in flight as it gives its lease
\* back: when that one fails nobody minds.
THEOREM FailedStaysOut == Spec => []FailedNotPooled
<1>1. LeasesFullInv => FailedNotPooled
  BY MembersAreSet DEF LeasesFullInv, LeasesInv, PoisonInv, FailedNotPooled
<1>2. QED
  BY <1>1, AlwaysLeases, PTL

\* No open socket is forgotten: #release, the idle timers and #connect leave each in
\* the pool under its timer, or with its caller and under none.
THEOREM NoneForgotten == Spec => []Accounted
<1>1. ASSUME LeasesFullInv
      PROVE  Accounted
  <2>1. LeasesInv /\ timers = Members(idle) /\ ToSet(idle) = Members(idle)
    BY <1>1, MembersAreSet DEF LeasesFullInv, LeasesInv, IdleInv
  <2>2. ASSUME NEW c \in Conns, IsOpen(c)
        PROVE  \/ c \in ToSet(idle) /\ c \in timers
               \/ c \notin timers /\ \E w \in Workers : Holds(w, c)
    BY <2>1, <2>2 DEF LeasesInv, AccountInv
  <2>3. QED
    BY <2>2 DEF Accounted
<1>2. QED
  BY <1>1, AlwaysLeases, PTL

-----------------------------------------------------------------------------
(* Answers, when there is an id for every caller.                          *)

EnoughIds == IsFiniteSet(Workers) /\ Cardinality(Workers) <= MaxRequestId

\* Requests of different callers are no more than the ids.
LEMMA FewerThanIds ==
    ASSUME EnoughIds, NEW n \in Nat, NEW f \in [1..n -> Workers],
           \A i, j \in 1..n : f[i] = f[j] => i = j
    PROVE  n <= MaxRequestId
<1>1. f \in Injection(1..n, Workers)
  BY DEF Injection, IsInjective
<1>2. Cardinality(1..n) <= Cardinality(Workers)
  BY <1>1, FS_Injection DEF EnoughIds
<1>3. Cardinality(1..n) = n
  BY FS_Interval
<1>4. Cardinality(Workers) \in Nat
  BY FS_CardinalityType DEF EnoughIds
<1>5. QED
  BY <1>2, <1>3, <1>4, MaxRequestIdAssumption DEF EnoughIds

\* Ids given out by no more than MaxRequestId requests differ, and from the next.
LEMMA BackForm ==
    ASSUME NEW n \in ConnIds, NEW d \in ConnIds
    PROVE  /\ Back(n, d) \in ConnIds
           /\ d < MaxRequestId => Back(n, d) # n
           /\ \A e \in ConnIds : Back(n, d) = Back(n, e) => d = e
           /\ d < MaxRequestId =>
                 Back(IF n >= MaxRequestId THEN 1 ELSE n + 1, d + 1) = Back(n, d)
           /\ Back(IF n >= MaxRequestId THEN 1 ELSE n + 1, 1) = n
BY MaxRequestIdAssumption DEF Back, ConnIds

\* The queue of a connection: no longer than the ids, and with no id twice.
LEMMA QueueForm ==
    ASSUME EnoughIds, NEW c \in Conns, conns[c] \in Conn, QueueInv(c)
    PROVE  LET q == conns[c].queue
           IN  /\ Len(q) \in 0..MaxRequestId
               /\ \A k \in 1..Len(q) : Len(q) + 1 - k \in ConnIds
               /\ \A j, k \in 1..Len(q) : q[j].id = q[k].id => j = k
<1> DEFINE q == conns[c].queue
           n == conns[c].nextId
<1>1. /\ Len(q) \in Nat /\ n \in ConnIds
      /\ \A k \in 1..Len(q) : q[k].op \in Workers
  BY EntryForm
<1>2. /\ \A k \in 1..Len(q) : q[k].id = Back(n, Len(q) + 1 - k)
      /\ \A j, k \in 1..Len(q) : q[j].op = q[k].op => j = k
  BY DEF QueueInv
<1> HIDE DEF q, n
<1>3. Len(q) <= MaxRequestId
  <2> DEFINE f == [k \in 1..Len(q) |-> q[k].op]
  <2>1. f \in [1..Len(q) -> Workers] /\ \A i, j \in 1..Len(q) : f[i] = f[j] => i = j
    BY <1>1, <1>2
  <2> HIDE DEF f
  <2>2. QED
    BY <1>1, <2>1, FewerThanIds
<1>4. \A k \in 1..Len(q) : Len(q) + 1 - k \in ConnIds
  BY <1>1, <1>3, MaxRequestIdAssumption DEF ConnIds
<1>5. ASSUME NEW j \in 1..Len(q), NEW k \in 1..Len(q), q[j].id = q[k].id
      PROVE  j = k
  <2>1. Len(q) + 1 - j \in ConnIds /\ Len(q) + 1 - k \in ConnIds
    BY <1>4
  <2>2. Back(n, Len(q) + 1 - j) = Back(n, Len(q) + 1 - k)
    BY <1>2, <1>5
  <2>3. Len(q) + 1 - j = Len(q) + 1 - k
    <3> DEFINE d == Len(q) + 1 - j
               e == Len(q) + 1 - k
    <3>1. d \in ConnIds /\ e \in ConnIds /\ Back(n, d) = Back(n, e)
      BY <2>1, <2>2
    <3> HIDE DEF d, e
    <3>2. d = e
      BY <1>1, <3>1, BackForm
    <3>3. QED
      BY <3>2 DEF d, e
  <2>4. QED
    BY <1>1, <2>3
<1>6. QED
  BY <1>1, <1>3, <1>4, <1>5, MaxRequestIdAssumption DEF q, n

\* A new request takes an id that none in the queue has.
LEMMA RequestKeepsRequests ==
    ASSUME EnoughIds, LeasesInv, \A d \in Conns : Requests(d), NEW w \in Workers, Request(w)
    PROVE  \A d \in Conns : Requests(d)'
<1> PICK c \in Conns : c = workers[w].conn
  BY HolderFacts DEF Request
<1> DEFINE x == conns[c]
           y == conns'[c]
           q == x.queue
           u == y.queue
           n == x.nextId
           m == Len(q)
           e == [id |-> n, op |-> w]
<1>1. /\ Holds(w, c) /\ w \notin InFlight(c) /\ ~workers[w].over
      /\ y = Wire!Register(x, w) /\ x \in Conn
      /\ IsOpen(c)' = IsOpen(c) /\ InFlight(c)' = InFlight(c) \cup {w}
  BY RequestEffect
<1>2. \A v \in Workers : /\ Holds(v, c)' = Holds(v, c)
                         /\ workers'[v].over = workers[v].over
  BY RequestEffect
<1>3. ASSUME NEW d \in Conns \ {c}
      PROVE  Requests(d)'
  <2>1. /\ conns'[d] = conns[d] /\ InFlight(d)' = InFlight(d) /\ SocketsAge
        /\ \A v \in Workers : /\ Holds(v, d)' = Holds(v, d)
                              /\ workers'[v].over = workers[v].over
    BY RequestEffect
  <2>2. QuietOn(d)
    BY <2>1 DEF QuietOn, SocketsAge
  <2>3. conns[d] \in Conn
    BY DEF LeasesInv, PoolTypeOK
  <2>4. QED
    BY <2>2, <2>3, QuietKeepsRequests
<1>4. /\ \A k \in 1..m : q[k].id = Back(n, m + 1 - k)
      /\ \A j, k \in 1..m : q[j].op = q[k].op => j = k
  BY DEF Requests, QueueInv
<1>5. /\ \A k \in 1..m :
            \/ q[k].op \in InFlight(c)
            \/ ~IsOpen(c) /\ \A v \in Workers : v = q[k].op /\ Holds(v, c) => workers[v].over
      /\ \A v \in InFlight(c) : \E k \in 1..m : q[k].op = v
  BY DEF Requests, WaitInv
<1>6. /\ \A i \in ConnIds : x.pending[i] # NoWorker =>
            \E k \in 1..m : q[k].id = i /\ q[k].op = x.pending[i]
      /\ \A k \in 1..m : x.pending[q[k].id] =
            IF q[k].op \in InFlight(c) THEN q[k].op ELSE NoWorker
  BY DEF Requests, PendingInv, ConnIds
<1>7. /\ m \in Nat /\ n \in ConnIds /\ q \in Seq(Entries)
      /\ \A k \in 1..m : q[k].op \in Workers /\ q[k].id \in ConnIds
      /\ x.pending \in [ConnIds -> Workers \cup {NoWorker}]
  BY <1>1, EntryForm
<1>8. \A k \in 1..m : q[k].op # w
  BY <1>1, <1>5
<1>9. Requests(c)' <=>
        /\ \A k \in 1..Len(u) : u[k].id = Back(y.nextId, Len(u) + 1 - k)
        /\ \A j, k \in 1..Len(u) : u[j].op = u[k].op => j = k
        /\ \A k \in 1..Len(u) :
              \/ u[k].op \in InFlight(c)'
              \/ ~IsOpen(c)' /\ \A v \in Workers : v = u[k].op /\ Holds(v, c)' => workers'[v].over
        /\ \A v \in InFlight(c)' : \E k \in 1..Len(u) : u[k].op = v
        /\ \A i \in ConnIds : y.pending[i] # NoWorker =>
              \E k \in 1..Len(u) : u[k].id = i /\ u[k].op = y.pending[i]
        /\ \A k \in 1..Len(u) : y.pending[u[k].id] =
              IF u[k].op \in InFlight(c)' THEN u[k].op ELSE NoWorker
  BY DEF Requests, QueueInv, WaitInv, PendingInv, ConnIds
<1> HIDE DEF x, y
<1>10. /\ y.nextId = IF n >= MaxRequestId THEN 1 ELSE n + 1
       /\ y.pending = [x.pending EXCEPT ![n] = w]
       /\ u = Append(q, e)
  BY <1>1, RegisterForm
<1> HIDE DEF q, n
<1>11. e \in Entries /\ e.id = n /\ e.op = w
  BY <1>7 DEF Entries
<1> HIDE DEF e, u
<1>12. /\ Len(u) = m + 1 /\ u[m + 1] = e /\ \A k \in 1..m : u[k] = q[k]
       /\ \A k \in 1..Len(u) : k \in 1..m \/ k = m + 1
  BY <1>7, <1>10, <1>11
<1>13. m < MaxRequestId
  <2> DEFINE f == [k \in 1..m + 1 |-> IF k <= m THEN q[k].op ELSE w]
  <2>1. f \in [1..m + 1 -> Workers]
    BY <1>7
  <2>2. \A i, j \in 1..m + 1 : f[i] = f[j] => i = j
    BY <1>4, <1>7, <1>8
  <2>3. m + 1 \in Nat
    BY <1>7
  <2> HIDE DEF f, m
  <2>4. m + 1 <= MaxRequestId
    BY <2>1, <2>2, <2>3, FewerThanIds
  <2>5. QED
    BY <1>7, <2>4, MaxRequestIdAssumption
<1> HIDE DEF m
<1>14. \A k \in 1..m : m + 1 - k \in ConnIds /\ m + 1 - k < MaxRequestId
                       /\ q[k].id # n /\ q[k].id = Back(y.nextId, m + 1 + 1 - k)
  <2>1. ASSUME NEW k \in 1..m
        PROVE  m + 1 - k \in ConnIds /\ m + 1 - k < MaxRequestId
               /\ q[k].id # n /\ q[k].id = Back(y.nextId, m + 1 + 1 - k)
    <3> DEFINE d == m + 1 - k
    <3>1. d \in ConnIds /\ d < MaxRequestId /\ d + 1 = m + 1 + 1 - k
      BY <1>7, <1>13, MaxRequestIdAssumption DEF ConnIds
    <3>2. q[k].id = Back(n, d)
      BY <1>4
    <3> HIDE DEF d
    <3>3. Back(n, d) # n /\ Back(y.nextId, d + 1) = Back(n, d)
      BY <1>7, <1>10, <3>1, BackForm
    <3>4. QED
      BY <3>1, <3>2, <3>3 DEF d
  <2>2. QED
    BY <2>1
<1>15. ASSUME NEW k \in 1..Len(u)
       PROVE  u[k].id = Back(y.nextId, Len(u) + 1 - k)
  <2>1. CASE k \in 1..m
    BY <1>12, <1>14, <2>1
  <2>2. CASE k = m + 1
    <3>1. u[k].id = n /\ Len(u) + 1 - k = 1
      BY <1>7, <1>11, <1>12, <2>2
    <3>2. n = Back(y.nextId, 1)
      BY <1>7, <1>10, BackForm, MaxRequestIdAssumption DEF ConnIds
    <3>3. QED
      BY <3>1, <3>2
  <2>3. QED
    BY <1>12, <2>1, <2>2
<1>16. \A j, k \in 1..Len(u) : u[j].op = u[k].op => j = k
  BY <1>4, <1>8, <1>11, <1>12
<1>17. ASSUME NEW k \in 1..Len(u)
       PROVE  \/ u[k].op \in InFlight(c)'
              \/ ~IsOpen(c)' /\ \A v \in Workers : v = u[k].op /\ Holds(v, c)' => workers'[v].over
  <2>1. CASE k \in 1..m
    <3>1. u[k].op = q[k].op /\ q[k].op \in Workers
      BY <1>7, <1>12, <2>1
    <3>2. QED
      BY <1>1, <1>2, <1>5, <2>1, <3>1
  <2>2. CASE k = m + 1
    BY <1>1, <1>11, <1>12, <2>2
  <2>3. QED
    BY <1>12, <2>1, <2>2
<1>18. \A v \in InFlight(c)' : \E k \in 1..Len(u) : u[k].op = v
  <2>1. m + 1 \in 1..Len(u) /\ \A k \in 1..m : k \in 1..Len(u)
    BY <1>7, <1>12
  <2>2. QED
    BY <1>1, <1>5, <1>11, <1>12, <2>1
<1>19. \A i \in ConnIds : y.pending[i] # NoWorker =>
           \E k \in 1..Len(u) : u[k].id = i /\ u[k].op = y.pending[i]
  <2>1. m + 1 \in 1..Len(u) /\ \A k \in 1..m : k \in 1..Len(u)
    BY <1>7, <1>12
  <2>2. \A i \in ConnIds : y.pending[i] = IF i = n THEN w ELSE x.pending[i]
    BY <1>7, <1>10
  <2>3. QED
    BY <1>6, <1>11, <1>12, <2>1, <2>2
<1>20. ASSUME NEW k \in 1..Len(u)
       PROVE  y.pending[u[k].id] = IF u[k].op \in InFlight(c)' THEN u[k].op ELSE NoWorker
  <2>1. \A i \in ConnIds : y.pending[i] = IF i = n THEN w ELSE x.pending[i]
    BY <1>7, <1>10
  <2>2. CASE k \in 1..m
    <3>1. u[k] = q[k] /\ q[k].id \in ConnIds /\ q[k].id # n /\ q[k].op # w
      BY <1>7, <1>8, <1>12, <1>14, <2>2
    <3>2. x.pending[q[k].id] = IF q[k].op \in InFlight(c) THEN q[k].op ELSE NoWorker
      BY <1>6, <2>2
    <3>3. QED
      BY <1>1, <2>1, <3>1, <3>2
  <2>3. CASE k = m + 1
    BY <1>1, <1>7, <1>11, <1>12, <2>1, <2>3
  <2>4. QED
    BY <1>12, <2>2, <2>3
<1>21. Requests(c)'
  BY <1>9, <1>15, <1>16, <1>17, <1>18, <1>19, <1>20
<1>22. QED
  BY <1>3, <1>21

\* An answer takes the oldest request out of the queue, and settles whoever made it.
LEMMA ReplyKeepsRequests ==
    ASSUME EnoughIds, LeasesInv, \A d \in Conns : Requests(d) /\ RegisteredInv(d),
           NEW c \in Conns, Reply(c)
    PROVE  \A d \in Conns : Requests(d)'
<1> DEFINE x == conns[c]
           y == conns'[c]
           q == x.queue
           u == y.queue
           n == x.nextId
           m == Len(q)
           w == x.pending[q[1].id]
<1>1. PICK F, G \in SUBSET InFlight(c) :
          Settling(c, F, G) /\ F \cup G = IF w = NoWorker THEN {} ELSE {w}
  BY ReplyEffect
<1>2. /\ InFlight(c)' = InFlight(c) \ (F \cup G)
      /\ \A v \in Workers : Holds(v, c)' =>
            Holds(v, c) /\ (v \notin F => workers'[v].over = workers[v].over)
  BY <1>1, SettlingEffect
<1>3. \A d \in Conns \ {c} : Requests(d)'
  BY <1>1, SettlingElsewhere
<1>4. /\ \A k \in 1..m : q[k].id = Back(n, m + 1 - k)
      /\ \A j, k \in 1..m : q[j].op = q[k].op => j = k
  BY DEF Requests, QueueInv
<1>5. /\ \A k \in 1..m :
            \/ q[k].op \in InFlight(c)
            \/ ~IsOpen(c) /\ \A v \in Workers : v = q[k].op /\ Holds(v, c) => workers[v].over
      /\ \A v \in InFlight(c) : \E k \in 1..m : q[k].op = v
  BY DEF Requests, WaitInv
<1>6. /\ \A i \in ConnIds : x.pending[i] # NoWorker =>
            \E k \in 1..m : q[k].id = i /\ q[k].op = x.pending[i]
      /\ \A k \in 1..m : x.pending[q[k].id] =
            IF q[k].op \in InFlight(c) THEN q[k].op ELSE NoWorker
  BY DEF Requests, PendingInv, ConnIds
<1>7. /\ x \in Conn /\ q # <<>> /\ m \in Nat \ {0} /\ q[1].id \in ConnIds
      /\ y = Wire!Answered(x)
  BY ServingForm DEF Reply, LeasesInv, PoolTypeOK
<1>8. /\ m \in 0..MaxRequestId
      /\ \A j, k \in 1..m : q[j].id = q[k].id => j = k
  BY <1>7, QueueForm DEF Requests
<1>9. IsOpen(c)' => IsOpen(c)
  BY <1>1 DEF Settling, SocketsAge
<1>10. Requests(c)' <=>
        /\ \A k \in 1..Len(u) : u[k].id = Back(y.nextId, Len(u) + 1 - k)
        /\ \A j, k \in 1..Len(u) : u[j].op = u[k].op => j = k
        /\ \A k \in 1..Len(u) :
              \/ u[k].op \in InFlight(c)'
              \/ ~IsOpen(c)' /\ \A v \in Workers : v = u[k].op /\ Holds(v, c)' => workers'[v].over
        /\ \A v \in InFlight(c)' : \E k \in 1..Len(u) : u[k].op = v
        /\ \A i \in ConnIds : y.pending[i] # NoWorker =>
              \E k \in 1..Len(u) : u[k].id = i /\ u[k].op = y.pending[i]
        /\ \A k \in 1..Len(u) : y.pending[u[k].id] =
              IF u[k].op \in InFlight(c)' THEN u[k].op ELSE NoWorker
  BY DEF Requests, QueueInv, WaitInv, PendingInv, ConnIds
<1> HIDE DEF x, y
<1>11. /\ q \in Seq(Entries) /\ n \in ConnIds
       /\ \A k \in 1..m : q[k].op \in Workers /\ q[k].id \in ConnIds
       /\ x.pending \in [ConnIds -> Workers \cup {NoWorker}]
  BY <1>7, EntryForm
<1>12. /\ u = Tail(q) /\ y.nextId = n
       /\ y.pending = [x.pending EXCEPT ![q[1].id] = NoWorker]
  BY <1>7, AnsweredForm
<1>13. \A i \in ConnIds : y.pending[i] = IF i = q[1].id THEN NoWorker ELSE x.pending[i]
  BY <1>11, <1>12
<1>14. w = IF q[1].op \in InFlight(c) THEN q[1].op ELSE NoWorker
  BY <1>6, <1>7
<1> HIDE DEF q, w, n
<1>15. Len(u) = m - 1 /\ \A k \in 1..Len(u) : k + 1 \in 1..m /\ k + 1 # 1 /\ u[k] = q[k + 1]
  BY <1>7, <1>11, <1>12
<1>16. \A k \in 1..m : k = 1 \/ (k - 1 \in 1..Len(u) /\ u[k - 1] = q[k])
  <2>1. ASSUME NEW k \in 1..m, k # 1
        PROVE  k - 1 \in 1..Len(u) /\ u[k - 1] = q[k]
    <3>1. k - 1 \in 1..Len(u) /\ (k - 1) + 1 = k
      BY <1>7, <1>15, <2>1
    <3>2. QED
      BY <1>15, <3>1
  <2>2. QED
    BY <2>1
<1> HIDE DEF u, m
<1>17. 1 \in 1..m /\ \A k \in 1..m : q[k].op # q[1].op \/ k = 1
  BY <1>4, <1>7
<1>18. \A k \in 1..m : k # 1 =>
           /\ q[k].op \in InFlight(c) <=> q[k].op \in InFlight(c)'
           /\ q[k].id # q[1].id
  BY <1>1, <1>2, <1>8, <1>14, <1>17
<1>19. ASSUME NEW k \in 1..Len(u)
       PROVE  u[k].id = Back(y.nextId, Len(u) + 1 - k)
  <2>1. u[k].id = Back(n, m + 1 - (k + 1))
    BY <1>4, <1>15
  <2>2. m + 1 - (k + 1) = Len(u) + 1 - k
    BY <1>7, <1>15
  <2>3. QED
    BY <1>12, <2>1, <2>2
<1>20. \A j, k \in 1..Len(u) : u[j].op = u[k].op => j = k
  <2>1. ASSUME NEW j \in 1..Len(u), NEW k \in 1..Len(u), u[j].op = u[k].op
        PROVE  j = k
    <3>1. j + 1 = k + 1
      BY <1>4, <1>15, <2>1
    <3>2. QED
      BY <3>1
  <2>2. QED
    BY <2>1
<1>21. ASSUME NEW k \in 1..Len(u)
       PROVE  \/ u[k].op \in InFlight(c)'
              \/ ~IsOpen(c)' /\ \A v \in Workers : v = u[k].op /\ Holds(v, c)' => workers'[v].over
  <2>1. u[k] = q[k + 1] /\ k + 1 \in 1..m /\ k + 1 # 1
    BY <1>15
  <2>2. \/ q[k + 1].op \in InFlight(c)
        \/ ~IsOpen(c) /\ \A v \in Workers : v = q[k + 1].op /\ Holds(v, c) => workers[v].over
    BY <1>5, <2>1
  <2>3. q[k + 1].op \in InFlight(c) => q[k + 1].op \in InFlight(c)'
    BY <1>18, <2>1
  <2>4. QED
    BY <1>2, <1>9, <2>1, <2>2, <2>3
<1>22. ASSUME NEW v \in InFlight(c)'
       PROVE  \E k \in 1..Len(u) : u[k].op = v
  <2>1. v \in InFlight(c) /\ v \notin F \cup G
    BY <1>2
  <2>2. PICK k \in 1..m : q[k].op = v
    BY <1>5, <2>1
  <2>3. k # 1
    BY <1>1, <1>14, <2>1, <2>2, NoWorkerAssumption DEF InFlight
  <2>4. QED
    BY <1>16, <2>2, <2>3
<1>23. ASSUME NEW i \in ConnIds, y.pending[i] # NoWorker
       PROVE  \E k \in 1..Len(u) : u[k].id = i /\ u[k].op = y.pending[i]
  <2>1. i # q[1].id /\ y.pending[i] = x.pending[i]
    BY <1>13, <1>23
  <2>2. PICK k \in 1..m : q[k].id = i /\ q[k].op = x.pending[i]
    BY <1>6, <1>23, <2>1
  <2>3. k # 1
    BY <2>1, <2>2
  <2>4. QED
    BY <1>16, <2>1, <2>2, <2>3
<1>24. ASSUME NEW k \in 1..Len(u)
       PROVE  y.pending[u[k].id] = IF u[k].op \in InFlight(c)' THEN u[k].op ELSE NoWorker
  <2>1. u[k] = q[k + 1] /\ k + 1 \in 1..m /\ k + 1 # 1
    BY <1>15
  <2>2. q[k + 1].id \in ConnIds /\ q[k + 1].id # q[1].id
    BY <1>11, <1>18, <2>1
  <2>3. x.pending[q[k + 1].id] = IF q[k + 1].op \in InFlight(c) THEN q[k + 1].op ELSE NoWorker
    BY <1>6, <2>1
  <2>4. QED
    BY <1>13, <1>18, <2>1, <2>2, <2>3
<1>25. Requests(c)'
  BY <1>10, <1>19, <1>20, <1>21, <1>22, <1>23, <1>24
<1>26. QED
  BY <1>3, <1>25

\* A request that fails with its socket stays in the queue, but nobody waits for it.
LEMMA RequestFailsKeepsRequests ==
    ASSUME LeasesInv, \A d \in Conns : Requests(d), NEW w \in Workers, RequestFails(w)
    PROVE  \A d \in Conns : Requests(d)'
<1> PICK c \in Conns : c = workers[w].conn
  BY HolderFacts DEF RequestFails
<1> DEFINE x == conns[c]
           y == conns'[c]
           q == x.queue
           u == y.queue
           n == x.nextId
           m == Len(q)
           F == {w}
           G == {}
<1>1. /\ F \in SUBSET InFlight(c) /\ G \in SUBSET InFlight(c) /\ Settling(c, F, G)
      /\ x \in Conn /\ y = Wire!CloseSocket(Wire!Deleted(x, w)) /\ ~IsOpen(c)'
      /\ (Holds(w, c)' => workers'[w].over)
  BY RequestFailsEffect
<1>2. w \in F /\ F \cup G = {w}
  OBVIOUS
<1> HIDE DEF F, G
<1>3. /\ InFlight(c)' = InFlight(c) \ {w}
      /\ \A v \in Workers : Holds(v, c)' =>
            Holds(v, c) /\ (v = w \/ workers[v].over => workers'[v].over)
  <2>1. InFlight(c)' = InFlight(c) \ (F \cup G)
    BY <1>1, SettlingEffect
  <2>2. \A v \in Workers : Holds(v, c)' =>
            Holds(v, c) /\ (v \notin F => workers'[v].over = workers[v].over)
    BY <1>1, SettlingEffect
  <2>3. F = {w}
    BY DEF F
  <2>4. QED
    BY <1>1, <1>2, <2>1, <2>2, <2>3
<1>4. /\ \A k \in 1..m : q[k].id = Back(n, m + 1 - k)
      /\ \A j, k \in 1..m : q[j].op = q[k].op => j = k
  BY DEF Requests, QueueInv
<1>5. /\ \A k \in 1..m :
            \/ q[k].op \in InFlight(c)
            \/ ~IsOpen(c) /\ \A v \in Workers : v = q[k].op /\ Holds(v, c) => workers[v].over
      /\ \A v \in InFlight(c) : \E k \in 1..m : q[k].op = v
  BY DEF Requests, WaitInv
<1>6. /\ \A i \in ConnIds : x.pending[i] # NoWorker =>
            \E k \in 1..m : q[k].id = i /\ q[k].op = x.pending[i]
      /\ \A k \in 1..m : x.pending[q[k].id] =
            IF q[k].op \in InFlight(c) THEN q[k].op ELSE NoWorker
  BY DEF Requests, PendingInv, ConnIds
<1>7. \A d \in Conns \ {c} : Requests(d)'
  BY <1>1, SettlingElsewhere
<1>8. Requests(c)' <=>
        /\ \A k \in 1..Len(u) : u[k].id = Back(y.nextId, Len(u) + 1 - k)
        /\ \A j, k \in 1..Len(u) : u[j].op = u[k].op => j = k
        /\ \A k \in 1..Len(u) :
              \/ u[k].op \in InFlight(c)'
              \/ ~IsOpen(c)' /\ \A v \in Workers : v = u[k].op /\ Holds(v, c)' => workers'[v].over
        /\ \A v \in InFlight(c)' : \E k \in 1..Len(u) : u[k].op = v
        /\ \A i \in ConnIds : y.pending[i] # NoWorker =>
              \E k \in 1..Len(u) : u[k].id = i /\ u[k].op = y.pending[i]
        /\ \A k \in 1..Len(u) : y.pending[u[k].id] =
              IF u[k].op \in InFlight(c)' THEN u[k].op ELSE NoWorker
  BY DEF Requests, QueueInv, WaitInv, PendingInv, ConnIds
<1> HIDE DEF x, y
<1>9. /\ u = q /\ y.nextId = n
      /\ y.pending = [i \in ConnIds |-> IF x.pending[i] = w THEN NoWorker ELSE x.pending[i]]
  BY <1>1, DeletedForm, ClosedForm
<1>10. \A k \in 1..m : q[k].op \in Workers /\ q[k].id \in ConnIds
  BY <1>1, EntryForm
<1> HIDE DEF q, u, n
<1>11. ASSUME NEW k \in 1..m
       PROVE  \/ q[k].op \in InFlight(c)'
              \/ ~IsOpen(c)' /\ \A v \in Workers : v = q[k].op /\ Holds(v, c)' => workers'[v].over
  <2>1. CASE q[k].op = w
    BY <1>1, <1>3, <2>1
  <2>2. CASE q[k].op # w
    BY <1>1, <1>3, <1>5, <2>2
  <2>3. QED
    BY <2>1, <2>2
<1>12. \A v \in InFlight(c)' : \E k \in 1..m : q[k].op = v
  BY <1>3, <1>5
<1>13. \A i \in ConnIds : y.pending[i] # NoWorker =>
           \E k \in 1..m : q[k].id = i /\ q[k].op = y.pending[i]
  BY <1>6, <1>9
<1>14. ASSUME NEW k \in 1..m
       PROVE  y.pending[q[k].id] = IF q[k].op \in InFlight(c)' THEN q[k].op ELSE NoWorker
  <2>1. q[k].id \in ConnIds /\ q[k].op \in Workers
    BY <1>10
  <2>2. x.pending[q[k].id] = IF q[k].op \in InFlight(c) THEN q[k].op ELSE NoWorker
    BY <1>6
  <2>3. QED
    BY <1>3, <1>9, <2>1, <2>2, NoWorkerAssumption
<1>15. Requests(c)'
  BY <1>4, <1>8, <1>9, <1>11, <1>12, <1>13, <1>14
<1>16. QED
  BY <1>7, <1>15

\* A socket that closes leaves nobody waiting on it.
LEMMA SocketClosedKeepsRequests ==
    ASSUME LeasesInv, \A d \in Conns : Requests(d) /\ RegisteredInv(d),
           NEW c \in Conns, SocketClosed(c)
    PROVE  \A d \in Conns : Requests(d)'
<1> DEFINE q == conns[c].queue
           G == {}
<1>1. PICK F \in SUBSET InFlight(c) :
          /\ Settling(c, F, G) /\ conns'[c] = Wire!Lost /\ G \in SUBSET InFlight(c)
          /\ F = {w \in Workers : \E i \in ConnIds : conns[c].pending[i] = w}
  BY SocketClosedEffect
<1>2. G = {}
  OBVIOUS
<1> HIDE DEF G
<1>3. InFlight(c)' = InFlight(c) \ F
  <2>1. F \in SUBSET InFlight(c) /\ G \in SUBSET InFlight(c) /\ Settling(c, F, G)
    BY <1>1
  <2>2. InFlight(c)' = InFlight(c) \ (F \cup G)
    BY <2>1, SettlingEffect
  <2>3. F \cup G = F
    BY <1>2
  <2>4. QED
    BY <2>2, <2>3
<1>4. \A d \in Conns \ {c} : Requests(d)'
  BY <1>1, SettlingElsewhere
<1>5. InFlight(c) \subseteq F
  <2>1. ASSUME NEW v \in InFlight(c)
        PROVE  v \in F
    <3>1. PICK k \in 1..Len(q) : q[k].op = v
      BY DEF Requests, WaitInv
    <3>2. conns[c].pending[q[k].id] = v
      BY <3>1 DEF Requests, PendingInv
    <3>3. conns[c] \in Conn
      BY DEF LeasesInv, PoolTypeOK
    <3>4. q[k].id \in ConnIds
      BY <3>3, EntryForm
    <3>5. v \in Workers
      BY DEF InFlight
    <3>6. QED
      BY <1>1, <3>2, <3>4, <3>5
  <2>2. QED
    BY <2>1
<1>6. Requests(c)'
  BY <1>1, <1>3, <1>5, EmptyForm, NothingAsked
<1>7. QED
  BY <1>4, <1>6

RequestsInv == LeasesFullInv /\ \A c \in Conns : Requests(c)

LEMMA NextKeepsRequests ==
    ASSUME EnoughIds, RequestsInv, [Next]_vars
    PROVE  RequestsInv'
<1>1. LeasesInv /\ \A c \in Conns : RegisteredInv(c) /\ Requests(c)
  BY DEF LeasesFullInv, RequestsInv
<1>2. LeasesFullInv'
  BY NextKeepsLeases DEF RequestsInv
<1>3. CASE QuietActions
  BY <1>1, <1>2, <1>3, QuietActionsKeep, QuietStep DEF RequestsInv
<1>4. CASE \E w \in Workers : DialDone(w) \/ Request(w) \/ RequestFails(w)
  BY <1>1, <1>2, <1>4, DialDoneKeeps, RequestKeepsRequests, RequestFailsKeepsRequests
     DEF RequestsInv
<1>5. CASE \E c \in Conns : Reply(c) \/ SocketClosed(c)
  BY <1>1, <1>2, <1>5, ReplyKeepsRequests, SocketClosedKeepsRequests DEF RequestsInv
<1>6. CASE UNCHANGED vars
  <2>1. Quiet
    <3>1. conns \in [Conns -> Conn]
      BY <1>1 DEF LeasesInv, PoolTypeOK
    <3>2. UNCHANGED <<conns, workers>>
      BY <1>6 DEF vars
    <3>3. QED
      BY <3>1, <3>2, SameForm DEF Quiet, InFlight, Holds
  <2>2. QED
    BY <1>1, <1>2, <2>1, QuietStep DEF RequestsInv
<1>7. QED
  BY <1>3, <1>4, <1>5, <1>6, NextCases

\* register() and the dispatch of frames by id: an answer is heard by the operation
\* that asked as long as it waits, and else by nobody, when there are at least as many
\* ids as callers (the code has 65535): over cancelled reads, failures and the wrap.
THEOREM AnswersReachOwner ==
    ASSUME EnoughIds
    PROVE  Spec => []RepliesReachOwner
<1>1. Init => RequestsInv
  BY InitEstablishes DEF LeasesFullInv, RequestsInv
<1>2. RequestsInv /\ [Next]_vars => RequestsInv'
  BY NextKeepsRequests
<1>3. RequestsInv => RepliesReachOwner
  <2>1. SUFFICES ASSUME RequestsInv, NEW c \in Conns, NEW i \in DOMAIN conns[c].queue
                 PROVE  conns[c].pending[conns[c].queue[i].id] =
                           IF conns[c].queue[i].op \in InFlight(c) THEN conns[c].queue[i].op
                           ELSE NoWorker
    BY DEF RepliesReachOwner
  <2>2. conns[c] \in Conn
    BY <2>1 DEF RequestsInv, LeasesFullInv, LeasesInv, PoolTypeOK
  <2>3. i \in 1..Len(conns[c].queue)
    BY <2>2, EntryForm
  <2>4. QED
    BY <2>1, <2>3 DEF RequestsInv, Requests, PendingInv
<1>4. QED
  BY <1>1, <1>2, <1>3, PTL DEF Spec

-----------------------------------------------------------------------------
(* The pool implements FilesLeases.                                        *)

\* A lease on which a request failed has put its connection among the failed ones.
NotedInv ==
    \A w \in Workers, c \in Conns : Holds(w, c) /\ workers[w].failed => c \in noticed

HeldInv == LeasesFullInv /\ NotedInv

\* Leases are of the workers that hold a connection, and each has one.
LEMMA HeldForm ==
    ASSUME LeasesInv
    PROVE  /\ \A l \in Held : /\ l.worker \in Holders /\ l = LeaseOf(l.worker)
                              /\ l.conn \in Conns /\ Holds(l.worker, l.conn)
           /\ \A w \in Workers, c \in Conns : Holds(w, c) =>
                 w \in Holders /\ LeaseOf(w) \in Held /\ LeaseOf(w).conn = c
<1>1. ASSUME NEW w \in Holders
      PROVE  /\ LeaseOf(w).worker = w /\ LeaseOf(w).conn = workers[w].conn
             /\ workers[w].conn \in Conns /\ Holds(w, workers[w].conn)
  BY HolderFacts DEF LeaseOf, Holders, Holds
<1>2. \A w \in Workers, c \in Conns : Holds(w, c) =>
          w \in Holders /\ LeaseOf(w) \in Held /\ LeaseOf(w).conn = c
  BY DEF Holds, Holders, Held, LeaseOf
<1>3. QED
  BY <1>1, <1>2 DEF Held

\* A worker that begins, goes on with or ends a lease, with all others as they were.
LEMMA OneLease ==
    ASSUME NEW w \in Workers, \A v \in Workers \ {w} : workers'[v] = workers[v]
    PROVE  /\ w \notin Holders /\ w \notin Holders' => Held' = Held
           /\ w \notin Holders /\ w \in Holders' => Held' = Held \cup {LeaseOf(w)'}
           /\ w \in Holders /\ w \notin Holders' => Held' = Held \ {LeaseOf(w)}
           /\ w \notin Holders => \A l \in Held : l.worker # w
<1>1. \A v \in Workers \ {w} : (v \in Holders' <=> v \in Holders) /\ LeaseOf(v)' = LeaseOf(v)
  BY DEF Holders, LeaseOf
<1>2. \A v \in Workers : LeaseOf(v).worker = v
  BY DEF LeaseOf
<1>3. Holders \subseteq Workers /\ Holders' \subseteq Workers
  BY DEF Holders
<1>4. /\ \A l : l \in Held <=> \E v \in Holders : l = LeaseOf(v)
      /\ \A l : l \in Held' <=> \E v \in Holders' : l = LeaseOf(v)'
  BY DEF Held
<1>5. CASE w \notin Holders /\ w \notin Holders'
  BY <1>1, <1>2, <1>3, <1>4, <1>5
<1>6. CASE w \notin Holders /\ w \in Holders'
  BY <1>1, <1>2, <1>3, <1>4, <1>6
<1>7. CASE w \in Holders /\ w \notin Holders'
  BY <1>1, <1>2, <1>3, <1>4, <1>7
<1>8. CASE w \in Holders /\ w \in Holders'
  BY <1>8
<1>9. QED
  BY <1>5, <1>6, <1>7, <1>8

\* Every worker holds what it held.
LEMMA SameLeases ==
    ASSUME \A v \in Workers : /\ v \in Holders' <=> v \in Holders
                              /\ v \in Holders => LeaseOf(v)' = LeaseOf(v)
    PROVE  Held' = Held
<1>1. Holders \subseteq Workers /\ Holders' = Holders
  BY DEF Holders
<1>2. QED
  BY <1>1 DEF Held

\* A worker that gives its lease back with a request in flight sets it adrift.
LEMMA OneAdrift ==
    ASSUME NEW w \in Workers, \A v \in Workers \ {w} : workers'[v] = workers[v],
           workers[w].phase # "cancelled"
    PROVE  Adrift' = IF workers'[w].phase = "cancelled" THEN Adrift \cup {workers'[w].conn}
                     ELSE Adrift
BY DEF Adrift

\* The pool holds as many connections as its queue has entries.
LEMMA PoolSize ==
    ASSUME LeasesInv
    PROVE  Cardinality(ToSet(idle)) = Len(idle)
<1>1. idle \in Seq(Conns) /\ Injective(idle) /\ ToSet(idle) = Members(idle)
  BY MembersAreSet DEF LeasesInv, PoolTypeOK, IdleInv
<1>2. Len(idle) \in Nat /\ idle \in [1..Len(idle) -> Members(idle)]
  BY <1>1 DEF Members
<1>3. idle \in Bijection(1..Len(idle), Members(idle))
  BY <1>1, <1>2 DEF Injective, Members, Bijection, Injection, Surjection, IsInjective
<1>4. ExistsBijection(1..Len(idle), Members(idle))
  BY <1>3 DEF ExistsBijection
<1>5. QED
  BY <1>1, <1>2, <1>4, FS_CountingElements

\* The sockets of one connection at most are no longer what they were.
LEMMA SocketsForm ==
    ASSUME SocketsAge, NEW c \in Conns,
           \A d \in Conns \ {c} : conns'[d] = conns[d]
    PROVE  /\ FreshConns' = FreshConns
           /\ OpenConns' = IF IsOpen(c)' THEN OpenConns ELSE OpenConns \ {c}
           /\ c \in OpenConns <=> IsOpen(c)
<1>1. FreshConns' = FreshConns
  BY DEF FreshConns, SocketsAge
<1>2. \A d \in Conns \ {c} : IsOpen(d)' <=> IsOpen(d)
  BY DEF IsOpen, Wire!IsOpen
<1>3. IsOpen(c)' => IsOpen(c)
  BY DEF SocketsAge
<1>4. OpenConns' = IF IsOpen(c)' THEN OpenConns ELSE OpenConns \ {c}
  BY <1>2, <1>3 DEF OpenConns
<1>5. QED
  BY <1>1, <1>4 DEF OpenConns

LEMMA SetOf ==
    ASSUME NEW s \in Seq(Conns)
    PROVE  ToSet(s) = Members(s)
BY DEF ToSet, Members

LEMMA SameCardinality ==
    ASSUME NEW S
    PROVE  Leases!Cardinality(S) = Cardinality(S)
BY DEF Leases!Cardinality, Cardinality

LEMMA IsDiscard ==
    ASSUME NEW dead \in SUBSET (ToSet(idle) \ OpenConns), ToSet(idle)' = ToSet(idle) \ dead,
           UNCHANGED <<FreshConns, OpenConns, scopes, Held, Adrift, noticed, unnoticed>>
    PROVE  Leases!Next
BY DEF Leases!Next, Leases!Discard

LEMMA IsReuse ==
    ASSUME NEW w \in Workers, NEW scope \in Scopes, NEW c \in ToSet(idle) \cap OpenConns,
           Covers(c, scope), \A l \in Held : l.worker # w,
           Held' = Held \cup {[worker |-> w, conn |-> c, scope |-> scope]},
           NEW dead \in SUBSET (ToSet(idle) \ OpenConns),
           ToSet(idle)' = ToSet(idle) \ (dead \cup {c}),
           UNCHANGED <<FreshConns, OpenConns, scopes, Adrift, noticed, unnoticed>>
    PROVE  Leases!Next
<1>1. scopes[c] \in {scope, "read write"}
  BY DEF Covers
<1>2. Leases!Lease(w, c, scope)
  BY DEF Leases!Lease, Leases!Free
<1>3. Leases!Reuse(w, c, scope)
  BY <1>1, <1>2 DEF Leases!Reuse, Leases!Covers
<1>4. QED
  BY <1>3 DEF Leases!Next, Scopes

LEMMA IsDial ==
    ASSUME NEW w \in Workers, NEW scope \in Scopes, NEW c \in FreshConns,
           \A l \in Held : l.worker # w,
           Held' = Held \cup {[worker |-> w, conn |-> c, scope |-> scope]},
           FreshConns' = FreshConns \ {c}, OpenConns' = OpenConns \cup {c},
           scopes' = [scopes EXCEPT ![c] = scope],
           ToSet(idle)' = ToSet(idle), UNCHANGED <<Adrift, noticed, unnoticed>>
    PROVE  Leases!Next
<1>1. Leases!Lease(w, c, scope)
  BY DEF Leases!Lease, Leases!Free
<1>2. Leases!Dial(w, c, scope)
  BY <1>1 DEF Leases!Dial
<1>3. QED
  BY <1>2 DEF Leases!Next, Scopes

LEMMA IsGiveBack ==
    ASSUME NEW l \in Held, Held' = Held \ {l},
           IF l.conn \in OpenConns \ noticed /\ Cardinality(ToSet(idle)) < MaxIdle
           THEN ToSet(idle)' = ToSet(idle) \cup {l.conn} /\ OpenConns' = OpenConns
           ELSE OpenConns' = OpenConns \ {l.conn} /\ ToSet(idle)' = ToSet(idle),
           Adrift' \in {Adrift, Adrift \cup {l.conn}},
           UNCHANGED <<FreshConns, scopes, noticed, unnoticed>>
    PROVE  Leases!Next
<1>1. Leases!GiveBack(l)
  <2>1. CASE l.conn \in OpenConns \ noticed /\ Cardinality(ToSet(idle)) < MaxIdle
    BY <2>1, SameCardinality DEF Leases!GiveBack
  <2>2. CASE ~(l.conn \in OpenConns \ noticed /\ Cardinality(ToSet(idle)) < MaxIdle)
    BY <2>2, SameCardinality DEF Leases!GiveBack
  <2>3. QED
    BY <2>1, <2>2
<1>2. QED
  BY <1>1 DEF Leases!Next

\* Requests that a cancelled read left in flight on c end, or none does.
Subsiding(c) ==
    \/ UNCHANGED <<Adrift, unnoticed>>
    \/ /\ c \in Adrift
       /\ Adrift' \in {Adrift, Adrift \ {c}}
       /\ unnoticed' \in {unnoticed, unnoticed \cup {c}}

LEMMA IsFail ==
    ASSUME NEW l \in Held, noticed' = noticed \cup {l.conn}, Subsiding(l.conn),
           OpenConns' \in {OpenConns, OpenConns \ {l.conn}},
           ToSet(idle)' = ToSet(idle), UNCHANGED <<FreshConns, scopes, Held>>
    PROVE  Leases!Next
BY DEF Leases!Next, Leases!Fail, Leases!Subside, Subsiding

LEMMA IsFailUnseen ==
    ASSUME NEW c, c \in Adrift, Subsiding(c),
           OpenConns' \in {OpenConns, OpenConns \ {c}},
           ToSet(idle)' = ToSet(idle), UNCHANGED <<FreshConns, scopes, Held, noticed>>
    PROVE  Leases!Next
BY DEF Leases!Next, Leases!FailUnseen, Leases!Subside, Subsiding

LEMMA IsLose ==
    ASSUME NEW c \in OpenConns, OpenConns' = OpenConns \ {c},
           ToSet(idle)' = ToSet(idle), UNCHANGED <<FreshConns, scopes, Held, Adrift, noticed, unnoticed>>
    PROVE  Leases!Next
BY DEF Leases!Next, Leases!Lose

LEMMA IsExpire ==
    ASSUME NEW c \in ToSet(idle), OpenConns' = OpenConns \ {c},
           ToSet(idle)' = ToSet(idle) \ {c}, UNCHANGED <<FreshConns, scopes, Held, Adrift, noticed, unnoticed>>
    PROVE  Leases!Next
BY DEF Leases!Next, Leases!Expire

LEMMA IsSame ==
    ASSUME UNCHANGED <<FreshConns, OpenConns, scopes, Held, Adrift, noticed, unnoticed>>,
           ToSet(idle)' = ToSet(idle)
    PROVE  UNCHANGED Leases!vars
BY DEF Leases!vars

\* What a step is to the callers.
Kept == Leases!Next \/ UNCHANGED Leases!vars

LEMMA GivingBackIsKept ==
    ASSUME HeldInv, NEW w \in Workers, NEW c \in Conns, Holds(w, c),
           GiveBack(w), UNCHANGED <<scopes, noticed, unnoticed>>,
           NEW r \in Worker, workers' = [workers EXCEPT ![w] = r],
           r.phase = "none" \/ (r.phase = "cancelled" /\ r.conn = c)
    PROVE  Kept /\ NotedInv'
<1>1. /\ conns \in [Conns -> Conn] /\ idle \in Seq(Conns) /\ workers \in [Workers -> Worker]
      /\ LeasesInv
  BY DEF HeldInv, LeasesFullInv, LeasesInv, PoolTypeOK
<1>2. workers[w].conn = c
  BY DEF Holds
<1>3. /\ workers'[w] = r /\ \A v \in Workers \ {w} : workers'[v] = workers[v]
  BY <1>1
<1> DEFINE l == LeaseOf(w)
<1>4. l \in Held /\ l.conn = c /\ Held' = Held \ {l}
  <2>1. w \in Holders /\ LeaseOf(w) \in Held /\ LeaseOf(w).conn = c
    BY <1>1, HeldForm
  <2>2. w \notin Holders'
    BY <1>3 DEF Holders
  <2>3. QED
    BY <1>3, <2>1, <2>2, OneLease
<1>5. c \in noticed <=> workers[w].failed
  BY DEF HeldInv, LeasesFullInv, LeasesInv, PoisonInv, NotedInv
<1>6. NotedInv'
  <2>1. \A v \in Workers, d \in Conns : Holds(v, d)' => v # w /\ Holds(v, d)
    BY <1>3 DEF Holds
  <2>2. QED
    BY <1>3, <2>1 DEF HeldInv, NotedInv
<1>7. ToSet(idle) = Members(idle) /\ Cardinality(ToSet(idle)) = Len(idle)
  BY <1>1, SetOf, PoolSize
<1>8. c \in OpenConns <=> IsOpen(c)
  BY DEF OpenConns
<1>9. Adrift' \in {Adrift, Adrift \cup {l.conn}}
  <2>1. workers[w].phase # "cancelled"
    BY DEF Holds
  <2>2. QED
    BY <1>3, <1>4, <2>1, OneAdrift
<1>10. CASE ~workers[w].failed /\ IsOpen(c) /\ Len(idle) < MaxIdle
  <2>1. idle' = Append(idle, c) /\ UNCHANGED conns
    BY <1>2, <1>10 DEF GiveBack, Pool
  <2>2. ToSet(idle)' = ToSet(idle) \cup {c}
    BY <1>1, <1>7, <2>1, Added, SetOf
  <2>3. UNCHANGED <<FreshConns, OpenConns>>
    BY <2>1 DEF FreshConns, OpenConns, IsOpen
  <2> HIDE DEF l
  <2>4. QED
    BY <1>4, <1>5, <1>6, <1>7, <1>8, <1>9, <1>10, <2>2, <2>3, IsGiveBack DEF Kept
<1>11. CASE ~(~workers[w].failed /\ IsOpen(c) /\ Len(idle) < MaxIdle)
  <2>1. conns' = CloseSocket(c) /\ idle' = idle
    BY <1>2, <1>11 DEF GiveBack, Pool
  <2>2. SocketsAge /\ ~IsOpen(c)' /\ \A d \in Conns \ {c} : conns'[d] = conns[d]
    BY <1>1, <2>1, ClosingForm
  <2>3. FreshConns' = FreshConns /\ OpenConns' = OpenConns \ {c}
    BY <2>2, SocketsForm
  <2>4. ToSet(idle)' = ToSet(idle)
    BY <2>1
  <2> HIDE DEF l
  <2>5. QED
    BY <1>4, <1>5, <1>6, <1>7, <1>8, <1>9, <1>11, <2>3, <2>4, IsGiveBack DEF Kept
<1>12. QED
  BY <1>10, <1>11

LEMMA ReleaseIsKept ==
    ASSUME HeldInv, NEW w \in Workers, Release(w)
    PROVE  Kept /\ NotedInv'
<1>1. LeasesInv
  BY DEF HeldInv, LeasesFullInv
<1>2. PICK c \in Conns : Holds(w, c)
  BY <1>1, HolderFacts DEF Release, Holds
<1>3. QED
  BY <1>2, IdlerForm, GivingBackIsKept DEF Release

\* A worker that holds nothing and goes on holding nothing.
LEMMA WaitingIsKept ==
    ASSUME HeldInv, NEW w \in Workers, workers[w].phase \in {"none", "dialing"},
           UNCHANGED <<conns, scopes, idle, noticed, unnoticed>>,
           NEW r, workers' = [workers EXCEPT ![w] = r], r.phase \in {"none", "dialing"}
    PROVE  Kept /\ NotedInv'
<1>1. workers \in [Workers -> Worker]
  BY DEF HeldInv, LeasesFullInv, LeasesInv, PoolTypeOK
<1>2. workers'[w] = r /\ \A v \in Workers \ {w} : workers'[v] = workers[v]
  BY <1>1
<1>3. Held' = Held
  <2>1. w \notin Holders /\ w \notin Holders'
    BY <1>2 DEF Holders
  <2>2. QED
    BY <1>2, <2>1, OneLease
<1>4. NotedInv'
  <2>1. \A v \in Workers, d \in Conns : Holds(v, d)' => v # w /\ Holds(v, d)
    BY <1>2 DEF Holds
  <2>2. QED
    BY <1>2, <2>1 DEF HeldInv, NotedInv
<1>5. UNCHANGED <<FreshConns, OpenConns>> /\ ToSet(idle)' = ToSet(idle)
  BY DEF FreshConns, OpenConns, IsOpen
<1>6. Adrift' = Adrift
  BY <1>2, OneAdrift
<1>7. QED
  BY <1>3, <1>4, <1>5, <1>6, IsSame DEF Kept

LEMMA CancelIsKept ==
    ASSUME HeldInv, NEW w \in Workers, Cancel(w)
    PROVE  Kept /\ NotedInv'
<1>1. LeasesInv /\ workers \in [Workers -> Worker] /\ workers[w] \in Worker
  BY DEF HeldInv, LeasesFullInv, LeasesInv, PoolTypeOK
<1>2. CASE workers[w].phase = "dialing"
  <2> DEFINE r == [workers[w] EXCEPT !.aborted = TRUE]
  <2>1. workers' = [workers EXCEPT ![w] = r] /\ UNCHANGED <<conns, scopes, idle, noticed, unnoticed>>
    BY <1>1, <1>2 DEF Cancel, Worker
  <2>2. r.phase = "dialing"
    BY <1>1, <1>2 DEF Worker
  <2> HIDE DEF r
  <2>3. QED
    BY <1>2, <2>1, <2>2, WaitingIsKept
<1>3. CASE workers[w].phase \in {"leased", "busy"}
  <2> DEFINE r == IF workers[w].phase = "busy"
                  THEN [workers[w] EXCEPT !.phase = "cancelled", !.aborted = TRUE] ELSE Idler
  <2>1. PICK c \in Conns : Holds(w, c)
    BY <1>1, <1>3, HolderFacts DEF Holds
  <2>2. GiveBack(w) /\ workers' = [workers EXCEPT ![w] = r] /\ UNCHANGED <<scopes, noticed, unnoticed>>
    BY <1>3 DEF Cancel
  <2>3. r \in Worker /\ (r.phase = "none" \/ (r.phase = "cancelled" /\ r.conn = c))
    BY <1>1, <1>3, <2>1, IdlerForm DEF Worker, Holds
  <2> HIDE DEF r
  <2>4. QED
    BY <2>1, <2>2, <2>3, GivingBackIsKept
<1>4. QED
  BY <1>2, <1>3 DEF Cancel

LEMMA DialFailsIsKept ==
    ASSUME HeldInv, NEW w \in Workers, DialFails(w)
    PROVE  Kept /\ NotedInv'
BY IdlerForm, WaitingIsKept DEF DialFails

LEMMA IdleTimerIsKept ==
    ASSUME HeldInv, NEW c \in Conns, IdleTimer(c)
    PROVE  Kept /\ NotedInv'
<1>1. /\ conns \in [Conns -> Conn] /\ idle \in Seq(Conns) /\ c \in Members(idle)
  BY DEF IdleTimer, HeldInv, LeasesFullInv, LeasesInv, PoolTypeOK, IdleInv
<1>2. ToSet(idle) = Members(idle) /\ ToSet(idle)' = ToSet(idle) \ {c}
  <2>1. idle' \in Seq(Conns) /\ Members(idle') = Members(idle) \ {c}
    BY <1>1, Removed DEF IdleTimer
  <2>2. QED
    BY <1>1, <2>1, SetOf
<1>3. FreshConns' = FreshConns /\ OpenConns' = OpenConns \ {c}
  <2>1. SocketsAge /\ ~IsOpen(c)' /\ \A d \in Conns \ {c} : conns'[d] = conns[d]
    BY <1>1, ClosingForm DEF IdleTimer
  <2>2. QED
    BY <2>1, SocketsForm
<1>4. /\ Held' = Held /\ NotedInv' /\ UNCHANGED <<scopes, Adrift, noticed, unnoticed>>
  BY DEF IdleTimer, Adrift, Held, Holders, LeaseOf, HeldInv, NotedInv, Holds
<1>5. QED
  BY <1>1, <1>2, <1>3, <1>4, IsExpire DEF Kept

LEMMA ConnectIsKept ==
    ASSUME HeldInv, NEW w \in Workers, NEW scope \in Scopes, NEW stream \in BOOLEAN,
           Connect(w, scope, stream)
    PROVE  Kept /\ NotedInv'
<1> DEFINE out == PoppedConns(scope)
           h == idle[Chosen(scope)]
<1>1. LeasesInv /\ workers \in [Workers -> Worker] /\ idle \in Seq(Conns)
  BY DEF HeldInv, LeasesFullInv, LeasesInv, PoolTypeOK
<1>2. /\ workers[w].phase = "none" /\ UNCHANGED <<conns, scopes, noticed, unnoticed>>
      /\ \A v \in Workers \ {w} : workers'[v] = workers[v]
      /\ IF Usable(scope) = {} THEN workers'[w].phase = "dialing"
         ELSE workers'[w].phase = "leased" /\ workers'[w].conn = h
      /\ workers'[w].scope = scope /\ ~workers'[w].failed
  BY <1>1 DEF Connect
<1>3. /\ out \subseteq Members(idle)
      /\ IF Usable(scope) = {} THEN \A c \in out : ~IsOpen(c)
         ELSE /\ h \in out /\ IsOpen(h) /\ Covers(h, scope)
              /\ \A c \in out : c = h \/ ~IsOpen(c)
  BY <1>1, PoppedForm
<1>4. ToSet(idle) = Members(idle) /\ ToSet(idle)' = ToSet(idle) \ out
  <2>1. idle' \in Seq(Conns) /\ Members(idle') = Members(idle) \ out
    BY <1>1, Removed DEF Connect
  <2>2. QED
    BY <1>1, <2>1, SetOf
<1>5. UNCHANGED <<FreshConns, OpenConns>> /\ Members(idle) \subseteq Conns
      /\ \A c \in Conns : c \in OpenConns <=> IsOpen(c)
  BY <1>1, <1>2 DEF FreshConns, OpenConns, IsOpen, Members
<1>6. w \notin Holders
  BY <1>2 DEF Holders
<1> HIDE DEF out, h
<1>7. Adrift' = Adrift
  BY <1>2, OneAdrift
<1>8. NotedInv'
  <2>1. \A v \in Workers, d \in Conns : Holds(v, d)' /\ v # w => Holds(v, d)
    BY <1>2 DEF Holds
  <2>2. QED
    BY <1>2, <2>1 DEF HeldInv, NotedInv
<1>9. CASE Usable(scope) = {}
  <2>1. Held' = Held
    <3>1. w \notin Holders'
      BY <1>2, <1>9 DEF Holders
    <3>2. QED
      BY <1>2, <1>6, <3>1, OneLease
  <2>2. out \in SUBSET (ToSet(idle) \ OpenConns)
    BY <1>3, <1>4, <1>5, <1>9
  <2>3. QED
    BY <1>2, <1>4, <1>5, <1>8, <1>9, <1>7, <2>1, <2>2, IsDiscard DEF Kept
<1>10. CASE Usable(scope) # {}
  <2>1. w \in Holders' /\ LeaseOf(w)' = [worker |-> w, conn |-> h, scope |-> scope]
    BY <1>2, <1>10 DEF Holders, LeaseOf
  <2>2. /\ Held' = Held \cup {[worker |-> w, conn |-> h, scope |-> scope]}
        /\ \A l \in Held : l.worker # w
    BY <1>2, <1>6, <2>1, OneLease
  <2> DEFINE dead == out \ {h}
  <2>3. /\ dead \in SUBSET (ToSet(idle) \ OpenConns) /\ h \in ToSet(idle) \cap OpenConns
        /\ ToSet(idle)' = ToSet(idle) \ (dead \cup {h})
    BY <1>3, <1>4, <1>5, <1>10
  <2> HIDE DEF dead
  <2>4. Leases!Next
    BY <1>2, <1>3, <1>5, <1>10, <1>7, <2>2, <2>3, IsReuse
  <2>5. QED
    BY <1>8, <2>4 DEF Kept
<1>11. QED
  BY <1>9, <1>10

LEMMA DialDoneIsKept ==
    ASSUME HeldInv, NEW w \in Workers, DialDone(w)
    PROVE  Kept /\ NotedInv'
<1> DEFINE scope == workers[w].scope
<1>1. PICK c \in Conns :
          /\ conns[c].state = "unused"
          /\ conns' = [conns EXCEPT ![c] = Wire!Opened]
          /\ scopes' = [scopes EXCEPT ![c] = scope]
          /\ workers' = [workers EXCEPT ![w].phase = "leased", ![w].conn = c]
  BY DEF DialDone
<1>2. /\ LeasesInv /\ workers \in [Workers -> Worker] /\ conns \in [Conns -> Conn]
      /\ workers[w] \in Worker /\ workers[w].phase = "dialing"
      /\ UNCHANGED <<idle, noticed, unnoticed>>
  BY DEF HeldInv, LeasesFullInv, LeasesInv, PoolTypeOK, DialDone
<1>3. /\ workers'[w].phase = "leased" /\ workers'[w].conn = c
      /\ workers'[w].scope = scope /\ workers'[w].failed = workers[w].failed
      /\ scope \in Scopes
      /\ \A v \in Workers \ {w} : workers'[v] = workers[v]
  <2> DEFINE r == [workers[w] EXCEPT !.phase = "leased", !.conn = c]
  <2>1. /\ r.phase = "leased" /\ r.conn = c /\ r.scope = scope /\ r.failed = workers[w].failed
        /\ scope \in Scopes
    BY <1>2 DEF Worker
  <2>2. workers' = [workers EXCEPT ![w] = r]
    BY <1>1, <1>2
  <2> HIDE DEF r
  <2>3. QED
    BY <1>2, <2>1, <2>2
<1>4. ~workers[w].failed
  BY <1>2 DEF LeasesInv, UseInv
<1>5. FreshConns' = FreshConns \ {c} /\ c \in FreshConns /\ OpenConns' = OpenConns \cup {c}
  <2>1. /\ conns'[c] = Wire!Opened /\ Wire!Opened.state = "open"
        /\ \A d \in Conns \ {c} : conns'[d] = conns[d]
    BY <1>1, <1>2, EmptyForm
  <2>2. QED
    BY <1>1, <2>1 DEF FreshConns, OpenConns, IsOpen, Wire!IsOpen
<1>6. w \notin Holders /\ w \in Holders'
      /\ LeaseOf(w)' = [worker |-> w, conn |-> c, scope |-> scope]
  BY <1>2, <1>3 DEF Holders, LeaseOf
<1>7. /\ Held' = Held \cup {[worker |-> w, conn |-> c, scope |-> scope]}
      /\ \A l \in Held : l.worker # w
  BY <1>3, <1>6, OneLease
<1>8. NotedInv'
  <2>1. \A v \in Workers, d \in Conns : Holds(v, d)' /\ v # w => Holds(v, d)
    BY <1>3 DEF Holds
  <2>2. QED
    BY <1>2, <1>3, <1>4, <2>1 DEF HeldInv, NotedInv
<1>9. ToSet(idle)' = ToSet(idle)
  BY <1>2
<1> HIDE DEF scope
<1>10. Adrift' = Adrift
  BY <1>2, <1>3, OneAdrift
<1>11. QED
  BY <1>1, <1>2, <1>3, <1>5, <1>7, <1>8, <1>9, <1>10, IsDial DEF Kept

LEMMA RequestIsKept ==
    ASSUME HeldInv, NEW w \in Workers, Request(w)
    PROVE  Kept /\ NotedInv'
<1>1. LeasesInv
  BY DEF HeldInv, LeasesFullInv
<1>2. PICK c \in Conns : c = workers[w].conn
  BY <1>1, HolderFacts DEF Request
<1>3. /\ SocketsAge /\ IsOpen(c)' = IsOpen(c)
      /\ \A d \in Conns \ {c} : conns'[d] = conns[d]
      /\ \A v \in Workers : workers'[v].failed = workers[v].failed
      /\ \A v \in Workers, d \in Conns : Holds(v, d)' = Holds(v, d)
  BY <1>1, <1>2, RequestEffect
<1>4. /\ workers \in [Workers -> Worker] /\ workers[w] \in Worker
      /\ workers' = [workers EXCEPT ![w].phase = "busy"] /\ workers[w].phase = "leased"
      /\ UNCHANGED <<scopes, idle, noticed, unnoticed>>
  BY <1>1 DEF LeasesInv, PoolTypeOK, Request
<1>5. FreshConns' = FreshConns /\ OpenConns' = OpenConns
  BY <1>3, SocketsForm
<1>6. Held' = Held
  <2>1. workers'[w] = [workers[w] EXCEPT !.phase = "busy"]
        /\ \A v \in Workers \ {w} : workers'[v] = workers[v]
    BY <1>4
  <2>2. workers'[w].phase = "busy" /\ workers'[w].conn = workers[w].conn
        /\ workers'[w].scope = workers[w].scope
    BY <1>4, <2>1 DEF Worker
  <2>3. \A v \in Workers : /\ v \in Holders' <=> v \in Holders
                           /\ LeaseOf(v)' = LeaseOf(v)
    BY <1>4, <2>1, <2>2 DEF Holders, LeaseOf
  <2>4. QED
    BY <2>3, SameLeases
<1>7. NotedInv'
  BY <1>3, <1>4 DEF HeldInv, NotedInv
<1>8. ToSet(idle)' = ToSet(idle)
  BY <1>4
<1>9. Adrift' = Adrift
  <2>1. workers'[w].phase = "busy" /\ \A v \in Workers \ {w} : workers'[v] = workers[v]
    BY <1>4 DEF Worker
  <2>2. QED
    BY <1>4, <2>1, OneAdrift
<1>10. QED
  BY <1>4, <1>5, <1>6, <1>7, <1>8, <1>9, IsSame DEF Kept

\* Requests that end on one connection: a lease fails, requests adrift end, the socket
\* closes, or some of these, or none.
LEMMA SettlingIsKept ==
    ASSUME HeldInv, NEW c \in Conns, NEW F \in SUBSET InFlight(c),
           NEW G \in SUBSET InFlight(c), Settling(c, F, G)
    PROVE  Kept /\ NotedInv'
<1> PICK t \in BOOLEAN : Settled(F, G, t)
  BY DEF Settling
<1>1. LeasesInv /\ workers \in [Workers -> Worker]
  BY DEF HeldInv, LeasesFullInv, LeasesInv, PoolTypeOK
<1>2. ASSUME NEW v \in Workers
      PROVE  \/ /\ workers'[v] = workers[v] /\ v \notin F
             \/ /\ workers'[v] = Idler /\ workers[v].phase = "cancelled"
             \/ /\ workers[v].phase = "busy" /\ workers'[v].phase = "leased"
                /\ workers[v].conn = c /\ workers'[v].conn = c
                /\ workers'[v].scope = workers[v].scope
                /\ v \in F \/ workers'[v].failed = workers[v].failed
  <2>1. workers[v] \in Worker
    BY <1>1
  <2>2. CASE v \in F \/ v \in G
    <3>1. workers[v].phase \in {"busy", "cancelled"} /\ workers[v].conn = c
      BY <2>2 DEF InFlight
    <3>2. workers'[v] = IF v \in F THEN Failed(workers[v], t) ELSE Succeeded(workers[v])
      BY <2>2 DEF Settled
    <3>3. workers[v].phase = "busy" => /\ Failed(workers[v], t).scope = workers[v].scope
                                       /\ Succeeded(workers[v]).scope = workers[v].scope
      BY <2>1 DEF Worker, Failed, Succeeded
    <3>4. QED
      BY <2>1, <3>1, <3>2, <3>3, SettledForm
  <2>3. CASE v \notin F /\ v \notin G
    BY <2>3 DEF Settled
  <2>4. QED
    BY <2>2, <2>3
<1>3. Held' = Held
  <2>1. \A v \in Workers : /\ v \in Holders' <=> v \in Holders
                           /\ v \in Holders => LeaseOf(v)' = LeaseOf(v)
    BY <1>2, IdlerForm DEF Holders, LeaseOf
  <2>2. QED
    BY <2>1, SameLeases
<1>4. /\ noticed' = noticed \cup Noticed(F) /\ unnoticed' = unnoticed \cup Unnoticed(F)
      /\ UNCHANGED <<scopes, idle>> /\ ToSet(idle)' = ToSet(idle)
      /\ SocketsAge /\ \A d \in Conns \ {c} : conns'[d] = conns[d]
  BY DEF Settling, NoteFailures
<1>5. /\ FreshConns' = FreshConns
      /\ OpenConns' = OpenConns \/ (c \in OpenConns /\ OpenConns' = OpenConns \ {c})
  BY <1>4, SocketsForm
<1>6. /\ Noticed(F) \subseteq {c} /\ \A v \in F : workers[v].phase = "busy" => c \in Noticed(F)
      /\ Unnoticed(F) \subseteq {c}
  BY DEF Noticed, Unnoticed, InFlight
<1>7. NotedInv'
  <2>1. ASSUME NEW v \in Workers, NEW d \in Conns, Holds(v, d)', workers'[v].failed
        PROVE  d \in noticed'
    <3>1. CASE workers'[v] = workers[v]
      BY <1>4, <2>1, <3>1 DEF HeldInv, NotedInv, Holds
    <3>2. CASE workers'[v] = Idler
      BY <2>1, <3>2, IdlerForm
    <3>3. CASE /\ workers[v].phase = "busy" /\ workers'[v].phase = "leased"
               /\ workers[v].conn = c /\ workers'[v].conn = c
               /\ v \in F \/ workers'[v].failed = workers[v].failed
      <4>1. d = c /\ Holds(v, d)
        BY <2>1, <3>3 DEF Holds
      <4>2. QED
        BY <1>4, <1>6, <2>1, <3>3, <4>1 DEF HeldInv, NotedInv
    <3>4. QED
      BY <1>2, <3>1, <3>2, <3>3
  <2>2. QED
    BY <2>1 DEF NotedInv
<1>8. Subsiding(c)
  <2>1. Adrift' \in {Adrift, Adrift \ {c}}
    <3>1. \A v \in Workers : workers'[v].phase = "cancelled" => workers'[v] = workers[v]
      BY <1>2, IdlerForm
    <3>2. \A v \in Workers : workers[v].phase = "cancelled" /\ workers[v].conn # c =>
              workers'[v] = workers[v]
      BY DEF Settled, InFlight
    <3>3. QED
      BY <3>1, <3>2 DEF Adrift
  <2>2. CASE c \in Adrift
    BY <1>4, <1>6, <2>1, <2>2 DEF Subsiding
  <2>3. CASE c \notin Adrift
    <3>1. \A v \in F : workers[v].phase # "cancelled"
      BY <2>3 DEF Adrift, InFlight
    <3>2. Unnoticed(F) = {}
      BY <3>1 DEF Unnoticed
    <3>3. QED
      BY <1>4, <2>1, <2>3, <3>2 DEF Subsiding
  <2>4. QED
    BY <2>2, <2>3
<1>9. CASE Noticed(F) = {} /\ c \notin Adrift
  <2>1. noticed' = noticed /\ UNCHANGED <<Adrift, unnoticed>>
    BY <1>4, <1>8, <1>9 DEF Subsiding
  <2>2. QED
    BY <1>3, <1>4, <1>5, <1>7, <2>1, IsLose, IsSame DEF Kept
<1>10. CASE Noticed(F) = {} /\ c \in Adrift
  <2>1. noticed' = noticed /\ OpenConns' \in {OpenConns, OpenConns \ {c}}
    BY <1>4, <1>5, <1>10
  <2>2. QED
    BY <1>3, <1>4, <1>5, <1>7, <1>8, <1>10, <2>1, IsFailUnseen DEF Kept
<1>11. CASE Noticed(F) # {}
  <2>1. PICK v \in F : workers[v].phase = "busy"
    BY <1>11 DEF Noticed
  <2>2. v \in Workers /\ Holds(v, c)
    BY <2>1 DEF InFlight, Holds
  <2> DEFINE l == LeaseOf(v)
  <2>3. l \in Held /\ l.conn = c
    BY <1>1, <2>2, HeldForm
  <2>4. noticed' = noticed \cup {l.conn}
    BY <1>4, <1>6, <1>11, <2>3
  <2>5. OpenConns' \in {OpenConns, OpenConns \ {l.conn}}
    BY <1>5, <2>3
  <2> HIDE DEF l
  <2>6. QED
    BY <1>3, <1>4, <1>5, <1>7, <1>8, <2>3, <2>4, <2>5, IsFail DEF Kept
<1>12. QED
  BY <1>9, <1>10, <1>11

LEMMA EndingIsKept ==
    ASSUME HeldInv, (\E w \in Workers : RequestFails(w)) \/ (\E c \in Conns : Reply(c) \/ SocketClosed(c))
    PROVE  Kept /\ NotedInv'
<1>1. LeasesInv /\ \A c \in Conns : RegisteredInv(c)
  BY DEF HeldInv, LeasesFullInv
<1>2. \E c \in Conns : \E F, G \in SUBSET InFlight(c) : Settling(c, F, G)
  <2>1. ASSUME NEW w \in Workers, RequestFails(w)
        PROVE  \E c \in Conns : \E F, G \in SUBSET InFlight(c) : Settling(c, F, G)
    <3>1. PICK c \in Conns : c = workers[w].conn
      BY <1>1, <2>1, HolderFacts DEF RequestFails
    <3>2. {w} \in SUBSET InFlight(c) /\ Settling(c, {w}, {})
      BY <1>1, <2>1, <3>1, RequestFailsEffect
    <3>3. {} \in SUBSET InFlight(c)
      OBVIOUS
    <3>4. QED
      BY <3>2, <3>3
  <2>2. ASSUME NEW c \in Conns, Reply(c)
        PROVE  \E F, G \in SUBSET InFlight(c) : Settling(c, F, G)
    BY <1>1, <2>2, ReplyEffect
  <2>3. ASSUME NEW c \in Conns, SocketClosed(c)
        PROVE  \E F, G \in SUBSET InFlight(c) : Settling(c, F, G)
    <3>1. PICK F \in SUBSET InFlight(c) : Settling(c, F, {})
      BY <1>1, <2>3, SocketClosedEffect
    <3>2. {} \in SUBSET InFlight(c)
      OBVIOUS
    <3>3. QED
      BY <3>1, <3>2
  <2>4. QED
    BY <2>1, <2>2, <2>3
<1>3. QED
  BY <1>2, SettlingIsKept

LEMMA NextIsKept ==
    ASSUME HeldInv, [Next]_vars
    PROVE  Kept /\ HeldInv'
<1>1. LeasesFullInv'
  BY NextKeepsLeases DEF HeldInv
<1>2. CASE QuietActions
  BY <1>2, ConnectIsKept, DialFailsIsKept, ReleaseIsKept, CancelIsKept, IdleTimerIsKept,
     <1>1 DEF QuietActions, HeldInv
<1>3. CASE \E w \in Workers : DialDone(w) \/ Request(w)
  BY <1>1, <1>3, DialDoneIsKept, RequestIsKept DEF HeldInv
<1>4. CASE (\E w \in Workers : RequestFails(w)) \/ (\E c \in Conns : Reply(c) \/ SocketClosed(c))
  BY <1>1, <1>4, EndingIsKept DEF HeldInv
<1>5. CASE UNCHANGED vars
  <2>1. /\ UNCHANGED <<FreshConns, OpenConns, scopes, Held, Adrift, noticed, unnoticed>>
        /\ ToSet(idle)' = ToSet(idle) /\ NotedInv'
    BY <1>5 DEF vars, Adrift, FreshConns, OpenConns, IsOpen, Held, Holders, LeaseOf, HeldInv,
                NotedInv, Holds
  <2>2. QED
    BY <1>1, <2>1, IsSame DEF Kept, HeldInv
<1>6. QED
  BY <1>2, <1>3, <1>4, <1>5, NextCases

\* #connect, #lease and #release keep what FilesLeases promises their callers, in every
\* order of operations, failures, cancellations and timers: a step of the pool is a step
\* of FilesLeases or none its callers can tell. (FilesLeases does not promise that a
\* connection has no failed request behind it: one set adrift by a cancelled read may
\* have failed on it, before it is leased again or while it is.)
THEOREM PoolKeepsLeases == Spec => LeasesHold
<1>1. Init => HeldInv /\ Leases!Init
  <2>1. SUFFICES ASSUME Init PROVE HeldInv /\ Leases!Init
    OBVIOUS
  <2>2. /\ \A w \in Workers : workers[w] = Idler
        /\ \A c \in Conns : conns[c] = Wire!Unused
        /\ idle = <<>> /\ noticed = {} /\ unnoticed = {} /\ scopes = [c \in Conns |-> "read"]
    BY <2>1 DEF Init
  <2>3. LeasesFullInv
    BY <2>1, InitEstablishes DEF LeasesFullInv
  <2>4. Holders = {} /\ Held = {} /\ Adrift = {} /\ NotedInv
    BY <2>2, IdlerForm DEF Adrift, Holders, Held, NotedInv, Holds
  <2>5. FreshConns = Conns /\ OpenConns = {}
    BY <2>2, EmptyForm DEF FreshConns, OpenConns, IsOpen, Wire!IsOpen
  <2>6. ToSet(idle) = {}
    BY <2>2 DEF ToSet
  <2>7. QED
    BY <2>2, <2>3, <2>4, <2>5, <2>6 DEF Leases!Init, HeldInv
<1>2. HeldInv /\ [Next]_vars => HeldInv' /\ [Leases!Next]_(Leases!vars)
  BY NextIsKept DEF Kept
<1>3. QED
  BY <1>1, <1>2, PTL DEF Spec, LeasesHold, Leases!Spec
=============================================================================
