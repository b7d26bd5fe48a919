----------------------------- MODULE FlagsClient -----------------------------
(***************************************************************************)
(* The feature-flags client (flags/client.ts): init, close, scope, reads,  *)
(* manual refresh, the polling timer, refresh rounds, and the fetches that *)
(* loads of the same registry share.                                       *)
(*                                                                         *)
(* A snapshot of the server's flags is its version, a number that grows as *)
(* flags are published.  Time is counted in ticks: `since' is the time     *)
(* since the last round began, up to the interval after which a read       *)
(* begins another.  The delay of the timer, which the code computes from   *)
(* activity, backoff and jitter, is any number of ticks up to MaxDelay.    *)
(*                                                                         *)
(* What one response sets off (the loads that wait for it, then the rounds *)
(* and inits that wait for those) runs before any other event, and is one  *)
(* action.  All init() calls use one token and endpoint, so that fetches   *)
(* are shared by owner alone; options that fail validation are left out.   *)
(*                                                                         *)
(* Operator_Fault is Operator with one plausible bug; no specification     *)
(* uses it.                                                                *)
(***************************************************************************)
EXTENDS Naturals, Sequences, FiniteSetsExt, SequencesExt

CONSTANTS
    InitOptions,     \* the option records init() may be called with
    ActiveInterval,  \* DEFAULT_ACTIVE_REFRESH_INTERVAL_MS, in ticks
    MaxDelay,        \* bound: the longest delay of the timer, in ticks
    MaxVersion,      \* bound: snapshots published
    MaxInits,        \* bound: calls of init() that start a sync
    MaxRegistries,   \* bound: FlagsRegistry objects
    MaxRounds        \* bound: refresh rounds in flight

\* required: reject when the first sync fails; timed: timeoutMs is given;
\* refresh: polling is on.
InitOptionType == [required: BOOLEAN, timed: BOOLEAN, refresh: BOOLEAN]

ASSUME OptionsAssumption == InitOptions \subseteq InitOptionType
ASSUME BoundsAssumption ==
    {ActiveInterval, MaxDelay, MaxVersion, MaxInits, MaxRegistries, MaxRounds} \subseteq Nat

VARIABLES
    initialized,  \* #initialized
    config,       \* #config is set
    enabled,      \* #refreshEnabled
    current,      \* #initPromise: which init, or None
    default,      \* #defaultRegistry
    scoped,       \* the registry of the one scope in #scopedRegistries, or None
    timer,        \* #refreshTimer: ticks left, or Off
    since,        \* time since #lastRefreshStartedAt, up to ActiveInterval
    inFlight,     \* #refreshInFlight: which round, or None
    inits,        \* the #initialize calls made
    registries,   \* the registries made
    rounds,       \* the refresh rounds in flight
    fetches,      \* sharedRefreshes, with the loads that wait for each
    server,       \* the newest snapshot published
    up            \* the API answers

fieldVars == <<initialized, config, enabled, current, default, scoped>>
pollVars == <<timer, since, inFlight, rounds>>
worldVars == <<server, up>>
vars == <<fieldVars, pollVars, inits, registries, fetches, worldVars>>

None == 0
Off == MaxDelay + 1

Owners == {"default", "scoped"}
RegistryIds == 1..MaxRegistries
RoundIds == 1..MaxRounds

NoRound == [regs |-> {}, left |-> {}, chained |-> FALSE]

Init ==
    /\ initialized = FALSE /\ config = FALSE /\ enabled = TRUE
    /\ current = None /\ default = None /\ scoped = None
    /\ timer = Off /\ since = ActiveInterval
    /\ inFlight = None /\ rounds = [r \in RoundIds |-> NoRound]
    /\ inits = <<>> /\ registries = <<>> /\ fetches = {}
    /\ server = 0 /\ up = TRUE

-----------------------------------------------------------------------------
(* Loads, rounds and the timer.                                            *)

NewRegistry(owner) == [owner |-> owner, synced |-> FALSE, stale |-> FALSE, version |-> 0]

AddLoads_Unshared(regs, loads, fs) ==
    LET owners == {regs[l.reg].owner : l \in loads} IN
    fs \cup {[owner |-> o, from |-> server,
              loads |-> {l \in loads : regs[l.reg].owner = o}] : o \in owners}

\* fetchRegistrySignalsShared(): a load joins the fetch of its owner, or starts one.
AddLoads(regs, loads, fs) ==
    LET Of(o) == {l \in loads : regs[l.reg].owner = o}
        owners == {regs[l.reg].owner : l \in loads}
        shared == {f.owner : f \in fs} IN
    {[f EXCEPT !.loads = @ \cup Of(f.owner)] : f \in fs} \cup
    {[owner |-> o, from |-> server, loads |-> Of(o)] : o \in owners \ shared}

Load(reg, by, id) == [reg |-> reg, by |-> by, id |-> id]

InUse == {default, scoped} \ {None}

\* The new round of #refreshAll: it loads every registry in use. loads are those
\* the same call asks for besides.
FreeRounds == {r \in RoundIds : rounds[r].regs = {}}

StartRound(chained, loads) ==
    /\ FreeRounds # {}
    /\ LET id == Min(FreeRounds) IN
       /\ inFlight' = id
       /\ rounds' = [rounds EXCEPT ![id] = [regs |-> InUse, left |-> InUse,
                                            chained |-> chained]]
       /\ fetches' = AddLoads(registries,
                              loads \cup {Load(r, "round", id) : r \in InUse}, fetches)
    /\ since' = 0

NoRoundStarts(loads) ==
    /\ fetches' = AddLoads(registries, loads, fetches)
    /\ UNCHANGED <<inFlight, rounds, since>>

\* #scheduleNextRefresh(): the timer is cleared, and armed again if polling is on.
\* (A failure that also resets the client does so before or after it.)
Schedule ==
    \E configured \in {config, config'} :
        timer' \in (IF configured /\ enabled' THEN 1..MaxDelay ELSE {Off})

-----------------------------------------------------------------------------
(* The caller.                                                             *)

\* init() when none is in effect (else it returns the same promise, or throws if
\* the options conflict): a new default registry, and its first load.
InitCall(options) ==
    /\ current = None
    /\ Len(inits) < MaxInits /\ Len(registries) < MaxRegistries
    /\ LET id == Len(inits) + 1
           reg == Len(registries) + 1 IN
       /\ registries' = Append(registries, NewRegistry("default"))
       /\ default' = reg
       /\ inits' = Append(inits, [reg |-> reg, options |-> options, closed |-> FALSE,
                                  phase |-> "sync"])
       /\ current' = id
       /\ fetches' = AddLoads(registries', {Load(reg, "init", id)}, fetches)
    /\ initialized' = TRUE /\ config' = TRUE
    /\ enabled' = options.refresh
    /\ scoped' = None
    /\ UNCHANGED <<pollVars, worldVars>>

\* close(): every field goes back to its start; syncs and rounds in flight go on.
Close ==
    /\ initialized \/ current # None \/ scoped # None
    /\ initialized' = FALSE /\ config' = FALSE /\ enabled' = TRUE
    /\ current' = None /\ default' = None /\ scoped' = None
    /\ timer' = Off /\ since' = ActiveInterval /\ inFlight' = None
    /\ inits' = [i \in DOMAIN inits |-> [inits[i] EXCEPT !.closed = TRUE]]
    /\ UNCHANGED <<rounds, registries, fetches, worldVars>>

\* scope() the first time: a registry of its own, loaded if there is a config.
Scope ==
    /\ scoped = None /\ Len(registries) < MaxRegistries
    /\ registries' = Append(registries, NewRegistry("scoped"))
    /\ scoped' = Len(registries')
    /\ fetches' = IF config
                  THEN AddLoads(registries', {Load(scoped', "caller", 0)}, fetches)
                  ELSE fetches
    /\ UNCHANGED <<initialized, config, enabled, current, default, pollVars, inits, worldVars>>

MarkActive_NoRefresh(loads) ==
    /\ initialized
    /\ UNCHANGED <<fieldVars, inits, registries, worldVars>>
    /\ NoRoundStarts(loads)
    /\ IF enabled THEN Schedule ELSE UNCHANGED timer

\* #assertInitialized, #markActiveAndMaybeRefresh: with polling on, a round begins
\* if none is in flight and the last began long enough ago, and the timer is armed
\* again. A client that is not initialized throws.
MarkActive(loads) ==
    /\ initialized
    /\ UNCHANGED <<fieldVars, inits, registries, worldVars>>
    /\ IF enabled /\ inFlight = None /\ since = ActiveInterval
       THEN StartRound(FALSE, loads)
       ELSE NoRoundStarts(loads)
    /\ IF enabled THEN Schedule ELSE UNCHANGED timer

\* A read of a flag.
Read == MarkActive({})

\* refresh() of a registry in use.
Refresh(reg) == reg \in InUse /\ MarkActive({Load(reg, "caller", 0)})

-----------------------------------------------------------------------------
(* The timer.                                                              *)

\* Time passes; a timer that is due runs first.
Tick ==
    /\ timer # 0
    /\ timer # Off \/ since < ActiveInterval
    /\ timer' = IF timer = Off THEN Off ELSE timer - 1
    /\ since' = IF since < ActiveInterval THEN since + 1 ELSE since
    /\ UNCHANGED <<fieldVars, inFlight, rounds, inits, registries, fetches, worldVars>>

\* The timer's callback: #refreshAll joins the round in flight or starts one, and
\* the timer is armed again after it. Without a config nothing happens.
TimerFires ==
    /\ timer = 0
    /\ timer' = Off
    /\ IF inFlight # None
       THEN /\ rounds' = [rounds EXCEPT ![inFlight].chained = TRUE]
            /\ UNCHANGED <<inFlight, fetches, since>>
       ELSE IF config THEN StartRound(TRUE, {}) ELSE NoRoundStarts({})
    /\ UNCHANGED <<fieldVars, inits, registries, worldVars>>

-----------------------------------------------------------------------------
(* Responses and timeouts.                                                 *)

\* Inits and rounds that wait for a load of f.
InitsOf(f) == {l.id : l \in {k \in f.loads : k.by = "init" /\ inits[k.id].phase = "sync"}}
RoundsOf(f) == {l.id : l \in {k \in f.loads : k.by = "round" /\ k.reg \in rounds[k.id].left}}

RegsOf(f) == {l.reg : l \in f.loads}

\* refreshInFlight is cleared by any round that ends, its own or not.
EndRounds(ended) ==
    /\ rounds' = [r \in RoundIds |-> IF r \in ended THEN NoRound ELSE rounds[r]]
    /\ inFlight' = IF ended # {} THEN None ELSE inFlight

Chained(ended) == \E r \in ended : rounds[r].chained

\* Syncs end, some in failure. A required init that fails resets the client,
\* whichever init is in effect by then; the others leave the timer to be armed.
EndInits(ended, failed) ==
    /\ inits' = [i \in DOMAIN inits |->
                    IF i \notin ended THEN inits[i]
                    ELSE [inits[i] EXCEPT !.phase = IF i \in failed THEN "rejected" ELSE "resolved"]]
    /\ IF failed # {}
       THEN initialized' = FALSE /\ config' = FALSE /\ current' = None
       ELSE UNCHANGED <<initialized, config, current>>
    /\ UNCHANGED <<enabled, default, scoped>>

ScheduleIf(condition) == IF condition THEN Schedule ELSE timer' = timer

\* An init that resolves arms the timer with polling on, and else leaves it alone.
Polls(resolved) == resolved # {} /\ enabled

\* A response with the snapshot of some moment since it was asked for: load() of
\* every registry that waits, then the rounds and inits that are complete.
FetchEnds(f) ==
    /\ \E v \in f.from..server :
          registries' = [r \in DOMAIN registries |->
              IF r \in RegsOf(f)
              THEN [registries[r] EXCEPT !.synced = TRUE, !.stale = FALSE, !.version = v]
              ELSE registries[r]]
    /\ LET Left(r) == rounds[r].left \ RegsOf(f)
           complete == {r \in RoundsOf(f) : Left(r) = {}} IN
       /\ rounds' = [r \in RoundIds |->
                        IF r \in complete THEN NoRound
                        ELSE IF r \in RoundsOf(f) THEN [rounds[r] EXCEPT !.left = Left(r)]
                        ELSE rounds[r]]
       /\ inFlight' = IF complete # {} THEN None ELSE inFlight
       /\ EndInits(InitsOf(f), {})
       /\ ScheduleIf(Polls(InitsOf(f)) \/ Chained(complete))
    /\ fetches' = fetches \ {f}
    /\ UNCHANGED <<since, worldVars>>

MarkStale(regs) ==
    registries' = [r \in DOMAIN registries |->
        IF r \in regs THEN [registries[r] EXCEPT !.synced = FALSE, !.stale = TRUE]
        ELSE registries[r]]

Required(ended) == {i \in ended : inits[i].options.required}

\* The fetch fails: an init marks its registry stale, a round all of its own.
FetchFails(f) ==
    /\ ~up
    /\ MarkStale({inits[i].reg : i \in InitsOf(f)} \cup UNION {rounds[r].regs : r \in RoundsOf(f)})
    /\ EndRounds(RoundsOf(f))
    /\ EndInits(InitsOf(f), Required(InitsOf(f)))
    /\ ScheduleIf(Polls(InitsOf(f) \ Required(InitsOf(f))) \/ Chained(RoundsOf(f)))
    /\ fetches' = fetches \ {f}
    /\ UNCHANGED <<since, worldVars>>

InitTimesOut_Resolves(i) ==
    /\ inits[i].phase = "sync" /\ inits[i].options.timed
    /\ MarkStale({inits[i].reg})
    /\ EndInits({i}, {})
    /\ ScheduleIf(Polls({i}))
    /\ UNCHANGED <<since, inFlight, rounds, fetches, worldVars>>

\* timeoutMs passes first; the load goes on without its init.
InitTimesOut(i) ==
    /\ inits[i].phase = "sync" /\ inits[i].options.timed
    /\ MarkStale({inits[i].reg})
    /\ EndInits({i}, Required({i}))
    /\ ScheduleIf(Polls({i} \ Required({i})))
    /\ UNCHANGED <<since, inFlight, rounds, fetches, worldVars>>

-----------------------------------------------------------------------------
Publish ==
    /\ server < MaxVersion
    /\ server' = server + 1
    /\ UNCHANGED <<fieldVars, pollVars, inits, registries, fetches, up>>

Outage ==
    /\ up' = ~up
    /\ UNCHANGED <<fieldVars, pollVars, inits, registries, fetches, server>>

Response == \E f \in fetches : FetchEnds(f) \/ FetchFails(f)

Next ==
    \/ \E options \in InitOptions : InitCall(options)
    \/ Close \/ Scope \/ Read \/ (\E reg \in RegistryIds : Refresh(reg))
    \/ Tick \/ TimerFires \/ Response
    \/ \E i \in DOMAIN inits : InitTimesOut(i)
    \/ Publish \/ Outage

\* Timers fire, and every request is answered or fails.
Fairness ==
    /\ WF_vars(Tick) /\ WF_vars(TimerFires)
    /\ \A o \in Owners : WF_vars(\E f \in fetches : f.owner = o /\ (FetchEnds(f) \/ FetchFails(f)))

Spec == Init /\ [][Next]_vars /\ Fairness

-----------------------------------------------------------------------------
(* Properties.                                                             *)

\* A registry never goes back to an older snapshot, however its loads by init,
\* rounds and refresh() overlap: what a slow response carries is not older than
\* what a faster one has brought.
VersionsAdvance ==
    [][\A r \in DOMAIN registries : registries'[r].version >= registries[r].version]_vars

\* An init() that resolves leaves its registry loaded or, unless it is required,
\* marked stale, so that reads give their fallback: never an empty registry that
\* passes for one without flags.
InitAnswers ==
    [][\A i \in DOMAIN inits : inits[i].phase = "sync" /\ inits'[i].phase = "resolved" =>
          LET r == registries'[inits[i].reg] IN
          r.synced \/ (r.stale /\ ~inits[i].options.required)]_vars

\* Once the API answers again, a stale registry in use is loaded anew while
\* polling is on, even if reads keep arming the timer again before it fires.
Polled(r) == config /\ enabled /\ r \in InUse
Recovers ==
    <>[]up => \A r \in RegistryIds :
        (Polled(r) /\ registries[r].stale) ~> (~Polled(r) \/ ~registries[r].stale)

\* The error of a read before init says "Call `await flags.init()` at startup
\* before reading feature flags": after that, until close(), reads are accepted.
ReadableAfterInit ==
    \A i \in DOMAIN inits : inits[i].phase = "resolved" /\ ~inits[i].closed => initialized
=============================================================================
