-------------------------- MODULE FlagsClientProofs --------------------------
(***************************************************************************)
(* The flags client, for every set of init options and every bound: no     *)
(* registry goes back to an older snapshot, and an init() that resolves    *)
(* leaves its registry loaded or marked stale.                             *)
(***************************************************************************)
EXTENDS FlagsClient, SequenceTheorems, TLAPS

Registries == [owner: Owners, synced: BOOLEAN, stale: BOOLEAN, version: Nat]

InitCalls == [reg: Nat, options: InitOptionType, closed: BOOLEAN,
              phase: {"sync", "resolved", "rejected"}]

Typed ==
    /\ server \in Nat
    /\ registries \in Seq(Registries)
    /\ inits \in Seq(InitCalls)
    /\ \A i \in 1..Len(inits) : inits[i].reg \in 1..Len(registries)
    /\ default \in 0..Len(registries) /\ scoped \in 0..Len(registries)

IsFetch(f) ==
    f = [owner |-> f.owner, from |-> f.from, loads |-> f.loads] /\ f.from \in Nat

\* A load waits for the fetch of its registry's owner, and the load of an init is
\* of the registry that this init made.
LoadsMatch ==
    \A f \in fetches : \A l \in f.loads :
        /\ l.reg \in 1..Len(registries)
        /\ registries[l.reg].owner = f.owner
        /\ l.by = "init" => l.id \in 1..Len(inits) /\ inits[l.id].reg = l.reg

\* A fetch is the only one of its owner, and was begun after every response that a
\* registry of this owner has had.
FetchesLast ==
    /\ \A f \in fetches : IsFetch(f) /\ f.from <= server
    /\ \A f, g \in fetches : f.owner = g.owner => f = g
    /\ \A r \in 1..Len(registries) : registries[r].version <= server
    /\ \A f \in fetches, r \in 1..Len(registries) :
          registries[r].owner = f.owner => registries[r].version <= f.from

FlagsInv == Typed /\ LoadsMatch /\ FetchesLast

-----------------------------------------------------------------------------
(* The fetches that loads of the same owner share.                         *)

LEMMA AddLoadsForm ==
    ASSUME NEW regs, NEW loads, NEW fs, NEW g \in AddLoads(regs, loads, fs),
           \A f \in fs : IsFetch(f), server \in Nat
    PROVE  /\ IsFetch(g)
           /\ \/ \E f \in fs : /\ g.owner = f.owner /\ g.from = f.from
                               /\ g.loads = f.loads \cup {l \in loads : regs[l.reg].owner = f.owner}
              \/ /\ g.from = server
                 /\ \A f \in fs : f.owner # g.owner
                 /\ g.loads = {l \in loads : regs[l.reg].owner = g.owner}
<1> DEFINE Of(o) == {l \in loads : regs[l.reg].owner = o}
           owners == {regs[l.reg].owner : l \in loads}
           shared == {f.owner : f \in fs}
<1>1. \/ g \in {[f EXCEPT !.loads = @ \cup Of(f.owner)] : f \in fs}
      \/ g \in {[owner |-> o, from |-> server, loads |-> Of(o)] : o \in owners \ shared}
  BY DEF AddLoads
<1>2. ASSUME NEW f \in fs, g = [f EXCEPT !.loads = @ \cup Of(f.owner)]
      PROVE  /\ IsFetch(g) /\ g.owner = f.owner /\ g.from = f.from
             /\ g.loads = f.loads \cup Of(f.owner)
  <2>1. f = [owner |-> f.owner, from |-> f.from, loads |-> f.loads] /\ f.from \in Nat
    BY DEF IsFetch
  <2> HIDE DEF Of
  <2>2. g = [owner |-> f.owner, from |-> f.from, loads |-> f.loads \cup Of(f.owner)]
    BY <1>2, <2>1
  <2>3. QED
    BY <2>1, <2>2 DEF IsFetch
<1>3. ASSUME NEW o \in owners \ shared, g = [owner |-> o, from |-> server, loads |-> Of(o)]
      PROVE  /\ IsFetch(g) /\ g.from = server /\ (\A f \in fs : f.owner # g.owner)
             /\ g.loads = Of(g.owner)
  <2>1. g.owner = o /\ g.from = server /\ g.loads = Of(o)
    BY <1>3
  <2>2. \A f \in fs : f.owner # o
    BY <1>3
  <2>3. QED
    BY <1>3, <2>1, <2>2 DEF IsFetch
<1>4. QED
  BY <1>1, <1>2, <1>3

\* Two fetches that come of it have two owners.
LEMMA AddLoadsUnique ==
    ASSUME NEW regs, NEW loads, NEW fs, \A f \in fs : IsFetch(f), server \in Nat,
           \A f, g \in fs : f.owner = g.owner => f = g,
           NEW g \in AddLoads(regs, loads, fs), NEW h \in AddLoads(regs, loads, fs),
           g.owner = h.owner
    PROVE  g = h
<1>1. IsFetch(g) /\ IsFetch(h)
  BY AddLoadsForm
<1>2. g.from = h.from /\ g.loads = h.loads
  <2>1. ASSUME NEW f \in fs, g.owner = f.owner, g.from = f.from,
               g.loads = f.loads \cup {l \in loads : regs[l.reg].owner = f.owner}
        PROVE  g.from = h.from /\ g.loads = h.loads
    <3>1. PICK e \in fs : /\ h.owner = e.owner /\ h.from = e.from
                          /\ h.loads = e.loads \cup {l \in loads : regs[l.reg].owner = e.owner}
      <4>1. ~ \A e \in fs : e.owner # h.owner
        BY <2>1
      <4>2. QED
        BY <4>1, AddLoadsForm
    <3>2. e = f
      BY <2>1, <3>1
    <3>3. QED
      BY <2>1, <3>1, <3>2
  <2>2. ASSUME g.from = server, \A f \in fs : f.owner # g.owner,
               g.loads = {l \in loads : regs[l.reg].owner = g.owner}
        PROVE  g.from = h.from /\ g.loads = h.loads
    <3>1. h.from = server /\ h.loads = {l \in loads : regs[l.reg].owner = h.owner}
      BY <2>2, AddLoadsForm
    <3>2. QED
      BY <2>2, <3>1
  <2>3. QED
    BY <2>1, <2>2, AddLoadsForm
<1>3. QED
  BY <1>1, <1>2 DEF IsFetch

-----------------------------------------------------------------------------
(* Steps that begin or join fetches, and steps that only end them.         *)

\* No registry or init goes away or changes hands.
Grows ==
    /\ registries' \in Seq(Registries) /\ Len(registries') >= Len(registries)
    /\ \A r \in 1..Len(registries) : registries'[r].owner = registries[r].owner
    /\ inits' \in Seq(InitCalls) /\ Len(inits') >= Len(inits)
    /\ \A i \in 1..Len(inits) : inits'[i].reg = inits[i].reg

\* Old registries keep their version, and new ones have none.
VersionsKept ==
    \A r \in 1..Len(registries') :
        registries'[r].version = IF r <= Len(registries) THEN registries[r].version ELSE 0

LEMMA LengthsAreNat ==
    ASSUME Typed
    PROVE  /\ Len(registries) \in Nat /\ DOMAIN registries = 1..Len(registries)
           /\ Len(inits) \in Nat /\ DOMAIN inits = 1..Len(inits)
           /\ \A r \in 1..Len(registries) : registries[r] \in Registries
           /\ \A i \in 1..Len(inits) : inits[i] \in InitCalls
BY DEF Typed

LEMMA LoadsJoin ==
    ASSUME FlagsInv, Grows, NEW loads, fetches' = AddLoads(registries', loads, fetches),
           \A l \in loads :
              /\ l.reg \in 1..Len(registries')
              /\ l.by = "init" => l.id \in 1..Len(inits') /\ inits'[l.id].reg = l.reg
    PROVE  LoadsMatch'
<1>1. SUFFICES ASSUME NEW g \in fetches', NEW l \in g.loads
               PROVE  /\ l.reg \in 1..Len(registries')
                      /\ registries'[l.reg].owner = g.owner
                      /\ l.by = "init" => l.id \in 1..Len(inits') /\ inits'[l.id].reg = l.reg
  BY DEF LoadsMatch
<1>2. /\ Len(registries) \in Nat /\ Len(inits) \in Nat /\ server \in Nat
      /\ Len(registries') \in Nat /\ Len(inits') \in Nat
  BY LengthsAreNat DEF FlagsInv, Typed, Grows
<1>3. ASSUME l \in loads, registries'[l.reg].owner = g.owner
      PROVE  /\ l.reg \in 1..Len(registries')
             /\ registries'[l.reg].owner = g.owner
             /\ l.by = "init" => l.id \in 1..Len(inits') /\ inits'[l.id].reg = l.reg
  BY <1>3
<1>4. ASSUME NEW f \in fetches, g.owner = f.owner, l \in f.loads
      PROVE  /\ l.reg \in 1..Len(registries')
             /\ registries'[l.reg].owner = g.owner
             /\ l.by = "init" => l.id \in 1..Len(inits') /\ inits'[l.id].reg = l.reg
  BY <1>2, <1>4 DEF FlagsInv, LoadsMatch, Grows
<1>5. \A f \in fetches : IsFetch(f)
  BY DEF FlagsInv, FetchesLast
<1>6. QED
  BY <1>2, <1>3, <1>4, <1>5, AddLoadsForm

LEMMA LoadsLeave ==
    ASSUME FlagsInv, Grows, fetches' \subseteq fetches
    PROVE  LoadsMatch'
<1>1. /\ Len(registries) \in Nat /\ Len(inits) \in Nat
      /\ Len(registries') \in Nat /\ Len(inits') \in Nat
  BY LengthsAreNat DEF FlagsInv, Typed, Grows
<1>2. SUFFICES ASSUME NEW f \in fetches', NEW l \in f.loads
               PROVE  /\ l.reg \in 1..Len(registries')
                      /\ registries'[l.reg].owner = f.owner
                      /\ l.by = "init" => l.id \in 1..Len(inits') /\ inits'[l.id].reg = l.reg
  BY DEF LoadsMatch
<1>3. /\ l.reg \in 1..Len(registries) /\ registries[l.reg].owner = f.owner
      /\ l.by = "init" => l.id \in 1..Len(inits) /\ inits[l.id].reg = l.reg
  BY <1>2 DEF FlagsInv, LoadsMatch
<1>4. l.reg \in 1..Len(registries') /\ registries'[l.reg].owner = f.owner
  BY <1>1, <1>3 DEF Grows
<1>5. l.by = "init" => l.id \in 1..Len(inits') /\ inits'[l.id].reg = l.reg
  BY <1>1, <1>3 DEF Grows
<1>6. QED
  BY <1>4, <1>5

\* Fetches that are begun now carry what the server has now, which is not older
\* than anything that was brought before.
LEMMA FetchesJoin ==
    ASSUME FlagsInv, Grows, VersionsKept, server' = server, NEW loads,
           fetches' = AddLoads(registries', loads, fetches)
    PROVE  FetchesLast'
<1>1. /\ Len(registries) \in Nat /\ Len(registries') \in Nat /\ server \in Nat
      /\ \A r \in 1..Len(registries) : registries[r] \in Registries
      /\ \A r \in 1..Len(registries') : registries'[r] \in Registries
  BY LengthsAreNat DEF FlagsInv, Typed, Grows
<1>2. /\ \A f \in fetches : IsFetch(f) /\ f.from <= server
      /\ \A f, g \in fetches : f.owner = g.owner => f = g
  BY DEF FlagsInv, FetchesLast
<1>3. \A r \in 1..Len(registries') : registries'[r].version <= server
  BY <1>1 DEF FlagsInv, FetchesLast, VersionsKept
<1>4. \A g, h \in fetches' : g.owner = h.owner => g = h
  BY <1>1, <1>2, AddLoadsUnique
<1>5. ASSUME NEW g \in fetches'
      PROVE  /\ IsFetch(g) /\ g.from <= server
             /\ \A r \in 1..Len(registries') :
                   registries'[r].owner = g.owner => registries'[r].version <= g.from
  <2>1. IsFetch(g) /\ (g.from = server \/ \E f \in fetches : g.owner = f.owner /\ g.from = f.from)
    BY <1>1, <1>2, AddLoadsForm
  <2>2. CASE g.from = server
    BY <1>1, <1>3, <2>1, <2>2
  <2>3. ASSUME NEW f \in fetches, g.owner = f.owner, g.from = f.from
        PROVE  g.from <= server /\ \A r \in 1..Len(registries') :
                   registries'[r].owner = g.owner => registries'[r].version <= g.from
    <3>1. \A r \in 1..Len(registries) : registries[r].owner = f.owner => registries[r].version <= f.from
      BY DEF FlagsInv, FetchesLast
    <3>2. f.from \in Nat /\ f.from <= server
      BY <1>2 DEF IsFetch
    <3>3. QED
      BY <1>1, <2>3, <3>1, <3>2 DEF Grows, VersionsKept
  <2>4. QED
    BY <2>1, <2>2, <2>3
<1>6. QED
  BY <1>3, <1>4, <1>5 DEF FetchesLast, IsFetch

LEMMA FetchesLeave ==
    ASSUME FlagsInv, Grows, VersionsKept, server' \in Nat, server' >= server,
           fetches' \subseteq fetches
    PROVE  FetchesLast'
<1>1. /\ Len(registries) \in Nat /\ Len(registries') \in Nat /\ server \in Nat
      /\ \A r \in 1..Len(registries) : registries[r] \in Registries
      /\ \A r \in 1..Len(registries') : registries'[r] \in Registries
  BY LengthsAreNat DEF FlagsInv, Typed, Grows
<1>2. \A f \in fetches : f.from \in Nat
  BY DEF FlagsInv, FetchesLast, IsFetch
<1>3. ASSUME NEW r \in 1..Len(registries')
      PROVE  registries'[r].version <= server'
  <2>1. CASE r <= Len(registries)
    <3>1. r \in 1..Len(registries)
      BY <1>1, <2>1
    <3>2. registries[r].version <= server /\ registries[r].version \in Nat
      BY <1>1, <3>1 DEF FlagsInv, FetchesLast, Registries
    <3>3. registries'[r].version = registries[r].version
      BY <2>1 DEF VersionsKept
    <3>4. QED
      BY <1>1, <3>2, <3>3
  <2>2. CASE ~ r <= Len(registries)
    BY <1>1, <2>2 DEF VersionsKept
  <2>3. QED
    BY <2>1, <2>2
<1>4. \A f \in fetches', r \in 1..Len(registries') :
          registries'[r].owner = f.owner => registries'[r].version <= f.from
  BY <1>1, <1>2 DEF FlagsInv, FetchesLast, VersionsKept, Grows
<1>5. QED
  BY <1>1, <1>2, <1>3, <1>4 DEF FlagsInv, FetchesLast, IsFetch

-----------------------------------------------------------------------------
(* The parts of the actions.                                               *)

\* Steps that leave registries and inits alone.
LEMMA GrowsUnchanged ==
    ASSUME FlagsInv, UNCHANGED <<registries, inits>>
    PROVE  Grows /\ VersionsKept
BY LengthsAreNat DEF FlagsInv, Typed, Grows, VersionsKept

LEMMA NewRegistryTyped ==
    ASSUME NEW o \in Owners
    PROVE  NewRegistry(o) \in Registries /\ NewRegistry(o).version = 0 /\ NewRegistry(o).owner = o
BY DEF NewRegistry, Registries

\* A new registry at the end.
LEMMA RegistryAppended ==
    ASSUME FlagsInv, NEW o \in Owners, registries' = Append(registries, NewRegistry(o))
    PROVE  /\ registries' \in Seq(Registries) /\ Len(registries') = Len(registries) + 1
           /\ \A r \in 1..Len(registries) : registries'[r] = registries[r]
           /\ VersionsKept
<1>1. registries \in Seq(Registries) /\ Len(registries) \in Nat
  BY LengthsAreNat DEF FlagsInv, Typed
<1>2. /\ registries' \in Seq(Registries) /\ Len(registries') = Len(registries) + 1
      /\ \A r \in 1..Len(registries) : registries'[r] = registries[r]
      /\ registries'[Len(registries) + 1] = NewRegistry(o)
  BY <1>1, NewRegistryTyped
<1>3. ASSUME NEW r \in 1..Len(registries')
      PROVE  registries'[r].version = IF r <= Len(registries) THEN registries[r].version ELSE 0
  <2>1. CASE r <= Len(registries)
    <3>1. r \in 1..Len(registries)
      BY <1>1, <1>2, <2>1
    <3>2. QED
      BY <1>2, <2>1, <3>1
  <2>2. CASE ~ r <= Len(registries)
    <3>1. r = Len(registries) + 1
      BY <1>1, <1>2, <2>2
    <3>2. QED
      BY <1>2, <2>2, <3>1, NewRegistryTyped
  <2>3. QED
    BY <2>1, <2>2
<1>4. QED
  BY <1>2, <1>3 DEF VersionsKept

\* A registry's fields that may change without its owner or its version.
LEMMA StaleMarked ==
    ASSUME FlagsInv, NEW regs, MarkStale(regs)
    PROVE  /\ registries' \in Seq(Registries) /\ Len(registries') = Len(registries)
           /\ \A r \in 1..Len(registries) : registries'[r].owner = registries[r].owner
           /\ \A r \in 1..Len(registries) : r \in regs => registries'[r].stale
           /\ VersionsKept
<1>1. /\ Len(registries) \in Nat /\ DOMAIN registries = 1..Len(registries)
      /\ \A r \in 1..Len(registries) : registries[r] \in Registries
  BY LengthsAreNat DEF FlagsInv
<1> DEFINE After(r) == IF r \in regs
                       THEN [registries[r] EXCEPT !.synced = FALSE, !.stale = TRUE]
                       ELSE registries[r]
<1>2. \A r \in 1..Len(registries) :
          /\ After(r) \in Registries /\ After(r).owner = registries[r].owner
          /\ After(r).version = registries[r].version
          /\ r \in regs => After(r).stale
  BY <1>1 DEF Registries
<1>3. registries' = [r \in 1..Len(registries) |-> After(r)]
  BY <1>1 DEF MarkStale
<1> HIDE DEF After
<1>4. registries' \in Seq(Registries) /\ Len(registries') = Len(registries)
  BY <1>1, <1>2, <1>3
<1>5. \A r \in 1..Len(registries) : registries'[r] = After(r)
  BY <1>3
<1>6. QED
  BY <1>1, <1>2, <1>4, <1>5 DEF VersionsKept

\* Inits that end: nothing but the phase changes, and only of those that end.
LEMMA InitsEnd ==
    ASSUME FlagsInv, NEW ended, NEW failed, EndInits(ended, failed)
    PROVE  /\ inits' \in Seq(InitCalls) /\ Len(inits') = Len(inits)
           /\ \A i \in 1..Len(inits) :
                 /\ inits'[i].reg = inits[i].reg /\ inits'[i].options = inits[i].options
                 /\ inits[i].phase = "sync" /\ inits'[i].phase = "resolved" =>
                       i \in ended /\ i \notin failed
           /\ UNCHANGED <<default, scoped>>
<1>1. /\ Len(inits) \in Nat /\ DOMAIN inits = 1..Len(inits)
      /\ \A i \in 1..Len(inits) : inits[i] \in InitCalls
  BY LengthsAreNat DEF FlagsInv
<1> DEFINE After(i) == IF i \notin ended THEN inits[i]
                       ELSE [inits[i] EXCEPT !.phase = IF i \in failed THEN "rejected" ELSE "resolved"]
<1>2. \A i \in 1..Len(inits) :
          /\ After(i) \in InitCalls /\ After(i).reg = inits[i].reg
          /\ After(i).options = inits[i].options
          /\ inits[i].phase = "sync" /\ After(i).phase = "resolved" => i \in ended /\ i \notin failed
  BY <1>1 DEF InitCalls
<1>3. inits' = [i \in 1..Len(inits) |-> After(i)] /\ UNCHANGED <<default, scoped>>
  BY <1>1 DEF EndInits
<1> HIDE DEF After
<1>4. inits' \in Seq(InitCalls) /\ Len(inits') = Len(inits)
  BY <1>1, <1>2, <1>3
<1>5. QED
  BY <1>1, <1>2, <1>3, <1>4

-----------------------------------------------------------------------------
(* The actions keep the invariant.                                         *)

\* Loads of registries that exist, asked for by no init.
LEMMA Asked ==
    ASSUME FlagsInv, UNCHANGED <<registries, inits, default, scoped, server>>, NEW loads,
           \A l \in loads : l.reg \in 1..Len(registries) /\ l.by # "init",
           \/ \E chained \in BOOLEAN : StartRound(chained, loads)
           \/ NoRoundStarts(loads)
    PROVE  FlagsInv'
<1>1. Grows /\ VersionsKept
  BY GrowsUnchanged
<1>2. PICK asked : /\ fetches' = AddLoads(registries', asked, fetches)
                   /\ \A l \in asked : l.reg \in 1..Len(registries') /\ l.by # "init"
  <2>1. CASE NoRoundStarts(loads)
    BY <2>1 DEF NoRoundStarts
  <2>2. CASE \E chained \in BOOLEAN : StartRound(chained, loads)
    <3>1. PICK id : fetches' = AddLoads(registries,
                        loads \cup {Load(r, "round", id) : r \in InUse}, fetches)
      BY <2>2 DEF StartRound
    <3>2. \A r \in InUse : /\ Load(r, "round", id).reg \in 1..Len(registries)
                          /\ Load(r, "round", id).by # "init"
      BY LengthsAreNat DEF FlagsInv, Typed, InUse, None, Load
    <3>3. \A l \in loads \cup {Load(r, "round", id) : r \in InUse} :
              l.reg \in 1..Len(registries') /\ l.by # "init"
      BY <3>2
    <3>4. QED
      BY <3>1, <3>3
  <2>3. QED
    BY <2>1, <2>2
<1>3. LoadsMatch'
  BY <1>1, <1>2, LoadsJoin
<1>4. FetchesLast'
  BY <1>1, <1>2, FetchesJoin
<1>5. Typed'
  BY DEF FlagsInv, Typed
<1>6. QED
  BY <1>3, <1>4, <1>5 DEF FlagsInv

\* Steps of the clock, of the server and of close().
LEMMA Settled ==
    ASSUME FlagsInv, UNCHANGED <<registries, fetches>>, server' \in Nat, server' >= server,
           inits' \in Seq(InitCalls), Len(inits') = Len(inits),
           \A i \in 1..Len(inits) : inits'[i].reg = inits[i].reg,
           default' \in {default, None}, scoped' \in {scoped, None}
    PROVE  FlagsInv'
<1>1. Len(registries) \in Nat /\ Len(inits) \in Nat
  BY LengthsAreNat DEF FlagsInv
<1>2. Grows /\ VersionsKept
  BY <1>1 DEF FlagsInv, Typed, Grows, VersionsKept
<1>3. Typed'
  BY <1>1 DEF FlagsInv, Typed, None
<1>4. LoadsMatch' /\ FetchesLast'
  BY <1>2, LoadsLeave, FetchesLeave
<1>5. QED
  BY <1>3, <1>4 DEF FlagsInv

LEMMA InitCallKeeps ==
    ASSUME FlagsInv, NEW options \in InitOptions, InitCall(options)
    PROVE  FlagsInv' /\ VersionsKept /\ Len(registries') >= Len(registries)
<1> DEFINE id == Len(inits) + 1
           reg == Len(registries) + 1
           call == [reg |-> reg, options |-> options, closed |-> FALSE, phase |-> "sync"]
           load == Load(reg, "init", id)
<1>1. /\ registries' = Append(registries, NewRegistry("default")) /\ default' = reg
      /\ inits' = Append(inits, call) /\ fetches' = AddLoads(registries', {load}, fetches)
      /\ scoped' = None /\ server' = server
  BY DEF InitCall, worldVars
<1>2. /\ Len(registries) \in Nat /\ Len(inits) \in Nat /\ inits \in Seq(InitCalls)
      /\ \A i \in 1..Len(inits) : inits[i].reg \in 1..Len(registries)
  BY LengthsAreNat DEF FlagsInv, Typed
<1>3. call \in InitCalls /\ call.reg = reg
  BY <1>2, OptionsAssumption DEF InitCalls
<1> HIDE DEF call
<1>4. /\ inits' \in Seq(InitCalls) /\ Len(inits') = id
      /\ \A i \in 1..Len(inits) : inits'[i] = inits[i]
      /\ inits'[id] = call
  BY <1>1, <1>2, <1>3
<1>5. /\ registries' \in Seq(Registries) /\ Len(registries') = reg
      /\ \A r \in 1..Len(registries) : registries'[r] = registries[r]
      /\ VersionsKept
  BY <1>1, RegistryAppended DEF Owners
<1>6. Grows
  BY <1>2, <1>4, <1>5 DEF Grows
<1>7. \A i \in 1..Len(inits') : inits'[i].reg \in 1..Len(registries')
  <2>1. \A i \in 1..Len(inits') : i \in 1..Len(inits) \/ i = id
    BY <1>2, <1>4
  <2>2. QED
    BY <1>2, <1>3, <1>4, <1>5, <2>1
<1>8. Typed'
  BY <1>1, <1>2, <1>4, <1>5, <1>7 DEF FlagsInv, Typed, None
<1>9. load.reg \in 1..Len(registries') /\ load.id \in 1..Len(inits') /\ inits'[load.id].reg = load.reg
  BY <1>2, <1>3, <1>4, <1>5 DEF Load
<1>10. LoadsMatch'
  BY <1>1, <1>6, <1>9, LoadsJoin
<1>11. FetchesLast'
  BY <1>1, <1>5, <1>6, FetchesJoin
<1>12. QED
  BY <1>2, <1>5, <1>8, <1>10, <1>11 DEF FlagsInv

LEMMA ScopeKeeps ==
    ASSUME FlagsInv, Scope
    PROVE  FlagsInv' /\ VersionsKept /\ Len(registries') >= Len(registries)
<1>1. /\ registries' = Append(registries, NewRegistry("scoped")) /\ scoped' = Len(registries')
      /\ UNCHANGED <<inits, default, server>>
  BY DEF Scope, worldVars
<1>2. /\ Len(registries) \in Nat /\ Len(inits) \in Nat /\ inits \in Seq(InitCalls)
      /\ \A i \in 1..Len(inits) : inits[i].reg \in 1..Len(registries)
  BY LengthsAreNat DEF FlagsInv, Typed
<1>3. /\ registries' \in Seq(Registries) /\ Len(registries') = Len(registries) + 1
      /\ \A r \in 1..Len(registries) : registries'[r] = registries[r]
      /\ VersionsKept
  BY <1>1, RegistryAppended DEF Owners
<1>4. Grows
  BY <1>1, <1>2, <1>3 DEF Grows
<1>5. Typed'
  BY <1>1, <1>2, <1>3 DEF FlagsInv, Typed
<1>6. LoadsMatch' /\ FetchesLast'
  <2>1. CASE fetches' = fetches
    BY <1>1, <1>2, <1>3, <1>4, <2>1, LoadsLeave, FetchesLeave DEF FlagsInv, Typed
  <2>2. CASE fetches' = AddLoads(registries', {Load(scoped', "caller", 0)}, fetches)
    <3>1. \A l \in {Load(scoped', "caller", 0)} : l.reg \in 1..Len(registries') /\ l.by # "init"
      BY <1>1, <1>2, <1>3 DEF Load
    <3>2. QED
      BY <1>1, <1>3, <1>4, <2>2, <3>1, LoadsJoin, FetchesJoin
  <2>3. QED
    BY <2>1, <2>2 DEF Scope
<1>7. QED
  BY <1>2, <1>3, <1>5, <1>6 DEF FlagsInv

\* An init whose load f ends is among those that f.loads names, and its registry
\* is one that f loads.
LEMMA InitsOfLoaded ==
    ASSUME FlagsInv, NEW f \in fetches, NEW i \in InitsOf(f)
    PROVE  i \in 1..Len(inits) /\ inits[i].reg \in RegsOf(f)
BY DEF FlagsInv, LoadsMatch, InitsOf, RegsOf

\* Every registry that f loads has f's owner, and so no response later than f's
\* beginning.
LEMMA FetchEndsKeeps ==
    ASSUME FlagsInv, NEW f \in fetches, FetchEnds(f)
    PROVE  /\ FlagsInv'
           /\ Len(registries') = Len(registries)
           /\ \A r \in 1..Len(registries) :
                 /\ registries'[r].version >= registries[r].version
                 /\ r \in RegsOf(f) => registries'[r].synced
<1>1. /\ Len(registries) \in Nat /\ DOMAIN registries = 1..Len(registries)
      /\ \A r \in 1..Len(registries) : registries[r] \in Registries
      /\ server \in Nat /\ Len(inits) \in Nat
  BY LengthsAreNat DEF FlagsInv, Typed
<1>2. /\ EndInits(InitsOf(f), {}) /\ fetches' = fetches \ {f} /\ server' = server
  BY DEF FetchEnds, worldVars
<1>3. f.from \in Nat /\ f.from <= server
  BY DEF FlagsInv, FetchesLast, IsFetch
<1>4. PICK v \in f.from..server :
          registries' = [r \in DOMAIN registries |->
              IF r \in RegsOf(f)
              THEN [registries[r] EXCEPT !.synced = TRUE, !.stale = FALSE, !.version = v]
              ELSE registries[r]]
  BY DEF FetchEnds
<1> DEFINE After(r) == IF r \in RegsOf(f)
              THEN [registries[r] EXCEPT !.synced = TRUE, !.stale = FALSE, !.version = v]
              ELSE registries[r]
<1>5. v \in Nat /\ v >= f.from /\ v <= server
  BY <1>1, <1>3
<1>6. \A r \in 1..Len(registries) : r \in RegsOf(f) => registries[r].owner = f.owner
  BY DEF FlagsInv, LoadsMatch, RegsOf
<1>7. \A r \in 1..Len(registries) :
          /\ After(r) \in Registries /\ After(r).owner = registries[r].owner
          /\ r \in RegsOf(f) => After(r).synced /\ After(r).version = v
          /\ r \notin RegsOf(f) => After(r) = registries[r]
  BY <1>1, <1>5 DEF Registries
<1>8. registries' = [r \in 1..Len(registries) |-> After(r)]
  BY <1>1, <1>4
<1> HIDE DEF After
<1>9. registries' \in Seq(Registries) /\ Len(registries') = Len(registries)
  BY <1>1, <1>7, <1>8
<1>10. \A r \in 1..Len(registries) :
          /\ registries'[r] \in Registries /\ registries'[r].owner = registries[r].owner
          /\ r \in RegsOf(f) => registries'[r].synced /\ registries'[r].version = v
          /\ r \notin RegsOf(f) => registries'[r] = registries[r]
  BY <1>7, <1>8
<1>11. Grows
  BY <1>1, <1>2, <1>9, <1>10, InitsEnd DEF Grows
<1>12. Typed'
  BY <1>1, <1>2, <1>9, InitsEnd DEF FlagsInv, Typed
<1>13. LoadsMatch'
  BY <1>2, <1>11, LoadsLeave
<1>14. /\ \A g \in fetches : IsFetch(g) /\ g.from <= server /\ (g.owner = f.owner => g = f)
       /\ \A r \in 1..Len(registries) : registries[r].version <= server
       /\ \A g \in fetches, r \in 1..Len(registries) :
             registries[r].owner = g.owner => registries[r].version <= g.from
  BY DEF FlagsInv, FetchesLast
<1>15. ASSUME NEW r \in 1..Len(registries)
       PROVE  registries'[r].version <= server /\ registries'[r].version >= registries[r].version
  <2>1. registries[r].version \in Nat
    BY <1>1 DEF Registries
  <2>2. CASE r \in RegsOf(f)
    <3>1. registries[r].version <= f.from /\ registries'[r].version = v
      BY <1>6, <1>10, <1>14, <2>2
    <3>2. QED
      BY <1>3, <1>5, <2>1, <3>1
  <2>3. CASE r \notin RegsOf(f)
    BY <1>1, <1>10, <1>14, <2>1, <2>3
  <2>4. QED
    BY <2>2, <2>3
<1>16. ASSUME NEW g \in fetches', NEW r \in 1..Len(registries'), registries'[r].owner = g.owner
       PROVE  registries'[r].version <= g.from
  <2>1. g \in fetches /\ g.owner # f.owner /\ r \in 1..Len(registries)
    BY <1>2, <1>9, <1>14
  <2>2. registries[r].owner = g.owner
    BY <1>10, <1>16, <2>1
  <2>3. r \notin RegsOf(f)
    BY <1>6, <2>1, <2>2
  <2>4. registries[r].version <= g.from
    BY <1>14, <2>1, <2>2
  <2>5. QED
    BY <1>10, <2>1, <2>3, <2>4
<1>17. FetchesLast'
  <2>1. \A g \in fetches' : g \in fetches /\ IsFetch(g) /\ g.from <= server
    BY <1>2, <1>14
  <2>2. \A g, h \in fetches' : g.owner = h.owner => g = h
    BY <1>2 DEF FlagsInv, FetchesLast
  <2>3. \A r \in 1..Len(registries') : registries'[r].version <= server'
    BY <1>2, <1>9, <1>15
  <2>4. QED
    BY <1>2, <1>16, <2>1, <2>2, <2>3 DEF FetchesLast, IsFetch
<1>18. QED
  BY <1>9, <1>10, <1>12, <1>13, <1>15, <1>17 DEF FlagsInv

\* Loads that fail, and inits that end before theirs: registries turn stale.
LEMMA MarkedKeeps ==
    ASSUME FlagsInv, NEW regs, MarkStale(regs), NEW ended, NEW failed, EndInits(ended, failed),
           fetches' \subseteq fetches, server' = server
    PROVE  FlagsInv' /\ VersionsKept /\ Len(registries') = Len(registries)
<1>1. Len(registries) \in Nat /\ Len(inits) \in Nat /\ server \in Nat
  BY LengthsAreNat DEF FlagsInv, Typed
<1>2. /\ registries' \in Seq(Registries) /\ Len(registries') = Len(registries)
      /\ \A r \in 1..Len(registries) : registries'[r].owner = registries[r].owner
      /\ VersionsKept
  BY StaleMarked
<1>3. /\ inits' \in Seq(InitCalls) /\ Len(inits') = Len(inits)
      /\ \A i \in 1..Len(inits) : inits'[i].reg = inits[i].reg
      /\ UNCHANGED <<default, scoped>>
  BY InitsEnd
<1>4. Grows
  BY <1>1, <1>2, <1>3 DEF Grows
<1>5. Typed'
  BY <1>1, <1>2, <1>3 DEF FlagsInv, Typed
<1>6. LoadsMatch' /\ FetchesLast'
  BY <1>1, <1>2, <1>4, LoadsLeave, FetchesLeave
<1>7. QED
  BY <1>2, <1>5, <1>6 DEF FlagsInv

LEMMA FetchFailsKeeps ==
    ASSUME FlagsInv, NEW f \in fetches, FetchFails(f)
    PROVE  FlagsInv' /\ VersionsKept /\ Len(registries') = Len(registries)
BY MarkedKeeps DEF FetchFails, worldVars

LEMMA TimesOutKeeps ==
    ASSUME FlagsInv, NEW i \in DOMAIN inits, InitTimesOut(i)
    PROVE  FlagsInv' /\ VersionsKept /\ Len(registries') = Len(registries)
BY MarkedKeeps DEF InitTimesOut, worldVars

\* A read, a refresh() and the timer ask for loads of registries in use.
LEMMA ReadKeeps ==
    ASSUME FlagsInv, NEW loads, MarkActive(loads),
           \A l \in loads : l.reg \in 1..Len(registries) /\ l.by # "init"
    PROVE  FlagsInv' /\ UNCHANGED <<registries, inits>>
<1>1. UNCHANGED <<registries, inits, default, scoped, server>>
  BY DEF MarkActive, fieldVars, worldVars
<1>2. (\E chained \in BOOLEAN : StartRound(chained, loads)) \/ NoRoundStarts(loads)
  BY DEF MarkActive
<1>3. QED
  BY <1>1, <1>2, Asked

LEMMA TimerKeeps ==
    ASSUME FlagsInv, TimerFires
    PROVE  FlagsInv' /\ UNCHANGED <<registries, inits>>
<1>1. UNCHANGED <<registries, inits, default, scoped, server>>
  BY DEF TimerFires, fieldVars, worldVars
<1>2. CASE fetches' = fetches
  BY <1>1, <1>2, Settled DEF FlagsInv, Typed
<1>3. CASE (\E chained \in BOOLEAN : StartRound(chained, {})) \/ NoRoundStarts({})
  BY <1>1, <1>3, Asked
<1>4. QED
  BY <1>1, <1>2, <1>3 DEF TimerFires

LEMMA CloseKeeps ==
    ASSUME FlagsInv, Close
    PROVE  /\ FlagsInv' /\ registries' = registries
           /\ \A i \in 1..Len(inits) : inits'[i].phase = inits[i].phase
<1>1. /\ Len(inits) \in Nat /\ DOMAIN inits = 1..Len(inits) /\ server \in Nat
      /\ \A i \in 1..Len(inits) : inits[i] \in InitCalls
  BY LengthsAreNat DEF FlagsInv, Typed
<1>2. /\ UNCHANGED <<registries, fetches, server>> /\ default' = None /\ scoped' = None
      /\ inits' = [i \in 1..Len(inits) |-> [inits[i] EXCEPT !.closed = TRUE]]
  BY <1>1 DEF Close, worldVars
<1>3. \A i \in 1..Len(inits) : /\ inits'[i] \in InitCalls /\ inits'[i].reg = inits[i].reg
                              /\ inits'[i].phase = inits[i].phase
  BY <1>1, <1>2 DEF InitCalls
<1>4. inits' \in Seq(InitCalls) /\ Len(inits') = Len(inits)
  BY <1>1, <1>2, <1>3
<1>5. FlagsInv'
  BY <1>1, <1>2, <1>3, <1>4, Settled
<1>6. QED
  BY <1>2, <1>3, <1>5

LEMMA ClockKeeps ==
    ASSUME FlagsInv, Tick \/ Publish \/ Outage
    PROVE  FlagsInv' /\ UNCHANGED <<registries, inits>>
<1>1. UNCHANGED <<registries, inits, default, scoped, fetches>>
  BY DEF Tick, Publish, Outage, fieldVars
<1>2. server \in Nat /\ inits \in Seq(InitCalls)
  BY DEF FlagsInv, Typed
<1>3. server' \in Nat /\ server' >= server
  BY <1>2 DEF Tick, Publish, Outage, worldVars
<1>4. QED
  BY <1>1, <1>2, <1>3, Settled

-----------------------------------------------------------------------------
(* What a step does to versions and to inits.                              *)

Forward == \A r \in 1..Len(registries) : registries'[r].version >= registries[r].version

LEMMA KeptIsForward ==
    ASSUME FlagsInv, VersionsKept, Len(registries') \in Nat, Len(registries') >= Len(registries)
    PROVE  Forward
<1>1. /\ Len(registries) \in Nat
      /\ \A r \in 1..Len(registries) : registries[r] \in Registries
  BY LengthsAreNat DEF FlagsInv
<1>2. \A r \in 1..Len(registries) : registries[r].version \in Nat
  BY <1>1 DEF Registries
<1>3. QED
  BY <1>1, <1>2 DEF VersionsKept, Forward

LEMMA Keeps ==
    ASSUME FlagsInv, [Next]_vars
    PROVE  FlagsInv' /\ Forward
<1>1. /\ Len(registries) \in Nat /\ DOMAIN inits = 1..Len(inits)
      /\ \A r \in 1..Len(registries) : registries[r].version \in Nat
      /\ server \in Nat /\ inits \in Seq(InitCalls)
  BY LengthsAreNat DEF FlagsInv, Typed, Registries
<1>2. ASSUME registries' = registries  PROVE Forward
  BY <1>1, <1>2 DEF Forward
<1>3. ASSUME FlagsInv'  PROVE Len(registries') \in Nat
  BY <1>3 DEF FlagsInv, Typed
<1>4. ASSUME NEW options \in InitOptions, InitCall(options)  PROVE FlagsInv' /\ Forward
  BY <1>3, <1>4, InitCallKeeps, KeptIsForward
<1>5. CASE Close
  BY <1>2, <1>5, CloseKeeps
<1>6. CASE Scope
  BY <1>3, <1>6, ScopeKeeps, KeptIsForward
<1>7. CASE Read
  <2>1. FlagsInv' /\ UNCHANGED <<registries, inits>>
    BY <1>7, ReadKeeps DEF Read
  <2>2. QED
    BY <1>2, <2>1
<1>8. ASSUME NEW reg \in RegistryIds, Refresh(reg)  PROVE FlagsInv' /\ Forward
  <2>1. reg \in 1..Len(registries)
    BY <1>1, <1>8 DEF Refresh, InUse, FlagsInv, Typed, None
  <2>2. \A l \in {Load(reg, "caller", 0)} : l.reg \in 1..Len(registries) /\ l.by # "init"
    BY <2>1 DEF Load
  <2>3. FlagsInv' /\ UNCHANGED <<registries, inits>>
    BY <1>8, <2>2, ReadKeeps DEF Refresh
  <2>4. QED
    BY <1>2, <2>3
<1>9. CASE Tick \/ Publish \/ Outage
  <2>1. FlagsInv' /\ UNCHANGED <<registries, inits>>
    BY <1>9, ClockKeeps
  <2>2. QED
    BY <1>2, <2>1
<1>10. CASE TimerFires
  BY <1>2, <1>10, TimerKeeps
<1>11. ASSUME NEW f \in fetches, FetchEnds(f)  PROVE FlagsInv' /\ Forward
  BY <1>11, FetchEndsKeeps DEF Forward
<1>12. ASSUME NEW f \in fetches, FetchFails(f)  PROVE FlagsInv' /\ Forward
  BY <1>1, <1>12, FetchFailsKeeps, KeptIsForward
<1>13. ASSUME NEW i \in DOMAIN inits, InitTimesOut(i)  PROVE FlagsInv' /\ Forward
  BY <1>1, <1>13, TimesOutKeeps, KeptIsForward
<1>14. CASE UNCHANGED vars
  <2>1. UNCHANGED <<registries, inits, default, scoped, fetches, server>>
    BY <1>14 DEF vars, fieldVars, worldVars
  <2>2. QED
    BY <1>1, <1>2, <2>1, Settled
<1>15. QED
  BY <1>4, <1>5, <1>6, <1>7, <1>8, <1>9, <1>10, <1>11, <1>12, <1>13, <1>14 DEF Next, Response

\* No sync that ends well leaves its registry empty and passing for loaded.
Answered(i) ==
    inits[i].phase = "sync" /\ inits'[i].phase = "resolved" =>
        LET r == registries'[inits[i].reg] IN
        r.synced \/ (r.stale /\ ~inits[i].options.required)

LEMMA Answers ==
    ASSUME FlagsInv, [Next]_vars, NEW i \in DOMAIN inits
    PROVE  Answered(i)
<1>1. /\ Len(registries) \in Nat /\ Len(inits) \in Nat
      /\ DOMAIN inits = 1..Len(inits) /\ i \in 1..Len(inits)
      /\ inits \in Seq(InitCalls) /\ inits[i].reg \in 1..Len(registries)
  BY LengthsAreNat DEF FlagsInv, Typed
<1>2. ASSUME inits'[i].phase = inits[i].phase  PROVE Answered(i)
  BY <1>2 DEF Answered
<1>3. ASSUME NEW options \in InitOptions, InitCall(options)  PROVE Answered(i)
  <2>1. PICK call : inits' = Append(inits, call)
    BY <1>3 DEF InitCall
  <2>2. inits'[i] = inits[i]
    BY <1>1, <2>1
  <2>3. QED
    BY <1>2, <2>2
<1>4. CASE Close
  BY <1>1, <1>2, <1>4, CloseKeeps
<1>5. ASSUME NEW f \in fetches, FetchEnds(f)  PROVE Answered(i)
  <2>1. SUFFICES ASSUME inits[i].phase = "sync", inits'[i].phase = "resolved"
                 PROVE  registries'[inits[i].reg].synced
    BY DEF Answered
  <2>2. i \in InitsOf(f)
    BY <1>1, <1>5, <2>1, InitsEnd DEF FetchEnds
  <2>3. inits[i].reg \in RegsOf(f)
    BY <2>2, InitsOfLoaded
  <2>4. QED
    BY <1>1, <1>5, <2>3, FetchEndsKeeps
<1>6. ASSUME NEW f \in fetches, FetchFails(f)  PROVE Answered(i)
  <2>1. SUFFICES ASSUME inits[i].phase = "sync", inits'[i].phase = "resolved"
                 PROVE  registries'[inits[i].reg].stale /\ ~inits[i].options.required
    BY DEF Answered
  <2>2. i \in InitsOf(f) /\ i \notin Required(InitsOf(f))
    BY <1>1, <1>6, <2>1, InitsEnd DEF FetchFails
  <2>3. registries'[inits[i].reg].stale
    BY <1>1, <1>6, <2>2, StaleMarked DEF FetchFails
  <2>4. QED
    BY <2>2, <2>3 DEF Required
<1>7. ASSUME NEW j \in DOMAIN inits, InitTimesOut(j)  PROVE Answered(i)
  <2>1. SUFFICES ASSUME inits[i].phase = "sync", inits'[i].phase = "resolved"
                 PROVE  registries'[inits[i].reg].stale /\ ~inits[i].options.required
    BY DEF Answered
  <2>2. i \in {j} /\ i \notin Required({j})
    BY <1>1, <1>7, <2>1, InitsEnd DEF InitTimesOut
  <2>3. registries'[inits[i].reg].stale
    BY <1>1, <1>7, <2>2, StaleMarked DEF InitTimesOut
  <2>4. QED
    BY <2>2, <2>3 DEF Required
<1>8. CASE \/ Scope \/ Read \/ (\E reg \in RegistryIds : Refresh(reg))
           \/ Tick \/ TimerFires \/ Publish \/ Outage \/ UNCHANGED vars
  <2>1. inits' = inits
    BY <1>8 DEF Scope, Read, Refresh, MarkActive, Tick, TimerFires, Publish, Outage, vars
  <2>2. QED
    BY <1>2, <2>1
<1>9. QED
  BY <1>3, <1>4, <1>5, <1>6, <1>7, <1>8 DEF Next, Response

LEMMA Begins == Init => FlagsInv
BY DEF Init, FlagsInv, Typed, LoadsMatch, FetchesLast, None

\* Loads wait for the fetch of their registry's owner, of which there is one
\* (fetchRegistrySignalsShared()), and no registry is ahead of the fetch in flight.
THEOREM FlagsInvariant == Spec => []FlagsInv
<1>1. FlagsInv /\ [Next]_vars => FlagsInv'
  BY Keeps
<1>2. QED
  BY Begins, <1>1, PTL DEF Spec

\* A registry never goes back to an older snapshot (load() of flags/client.ts
\* overwrites whatever is there): the one fetch in flight for an owner was begun
\* after every response that a registry of this owner has had.
THEOREM NeverOlder == Spec => VersionsAdvance
<1>1. FlagsInv /\ [Next]_vars =>
          [\A r \in DOMAIN registries : registries'[r].version >= registries[r].version]_vars
  BY Keeps, LengthsAreNat DEF Forward, FlagsInv
<1>2. QED
  BY FlagsInvariant, <1>1, PTL DEF Spec, VersionsAdvance

\* An init() that resolves leaves its registry loaded or, unless required, stale.
THEOREM InitsAnswer == Spec => InitAnswers
<1>1. FlagsInv /\ [Next]_vars =>
          [\A i \in DOMAIN inits : inits[i].phase = "sync" /\ inits'[i].phase = "resolved" =>
              LET r == registries'[inits[i].reg] IN
              r.synced \/ (r.stale /\ ~inits[i].options.required)]_vars
  BY Answers DEF Answered
<1>2. QED
  BY FlagsInvariant, <1>1, PTL DEF Spec, InitAnswers
=============================================================================
