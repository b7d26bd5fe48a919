-------------------------- MODULE SandboxLifecycle --------------------------
(***************************************************************************)
(* A sandbox from Sandbox.create() to the calls on its handle: the factory *)
(* and the handle of sandbox/sandbox.ts, the requests and the readiness    *)
(* waits of sandbox/engine.ts, the recipe of sandbox/template.ts.          *)
(*                                                                         *)
(* The caller makes one creation, deriving templates as it likes meanwhile *)
(* (a recipe is immutable), then uses the handle through several calls at  *)
(* once.  A request is served by the platform at one moment and its        *)
(* response is handled at a later one; it may fail at any of them.  The    *)
(* platform moves on by itself and owes nothing.                           *)
(*                                                                         *)
(* Time is counted in ticks, and only while a creation waits.              *)
(*                                                                         *)
(* Operator_Fault is Operator with one plausible bug; no specification     *)
(* uses it.                                                                *)
(***************************************************************************)
EXTENDS Naturals, SequencesExt

CONSTANTS
    ReadinessTimeout,  \* READINESS_TIMEOUT_MS, in ticks
    PollInitialDelay,  \* POLL_INITIAL_DELAY_MS, in ticks
    PollMaxDelay,      \* POLL_MAX_DELAY_MS, in ticks
    MaxRequest,        \* bound: ticks a request of a creation takes
    MaxSteps,          \* bound: build steps of a recipe
    Callers,           \* bound: calls on the handle under way at once
    MaxSessionPages,   \* MAX_SESSION_PAGES
    PageSize,          \* sessions in a page of the platform
    MaxSessions        \* bound: sessions the sandbox ever has

ASSUME DelayAssumption ==
    /\ PollInitialDelay \in Nat \ {0}
    /\ PollMaxDelay \in Nat /\ PollInitialDelay <= PollMaxDelay
    /\ ReadinessTimeout \in Nat /\ PollMaxDelay < ReadinessTimeout
    /\ MaxRequest \in Nat
ASSUME PagesAssumption == {MaxSessionPages, PageSize} \subseteq Nat \ {0}
ASSUME BoundsAssumption == {MaxSteps, MaxSessions} \subseteq Nat

VARIABLES
    template,  \* the recipe the caller has derived so far
    options,   \* the caller's options object, while the creation will read it again
    call,      \* the creation: what it is suspended in
    elapsed,   \* ticks since the wait of pollUntilReady began
    overdue,   \* history: ticks for which what is waited for is decided
    outcome,   \* what the creation returned or threw
    build,     \* the platform's template build, and the input it was asked for
    created,   \* history: the input of the create mutation
    sandbox,   \* the platform's sandbox
    info,      \* #info.status of the handle
    sessions,  \* the platform's sessions of the sandbox: those it still lists
    born,      \* how many sessions there have been
    calls      \* per caller: its call on the handle

createVars == <<template, options, call, elapsed, overdue, outcome, build, created>>
sessionVars == <<sessions, born>>
vars == <<createVars, sandbox, info, sessionVars, calls>>

-----------------------------------------------------------------------------
(* Recipes.                                                                *)

Workdirs == {"none", "dir"}

\* options.region: not given, an empty text, or a region.
Regions == {"undefined", "empty", "region"}

\* TemplateState: the steps are named by the working directory they run in, the
\* environment by whether it is set.
Recipes == [steps: Seq(Workdirs), env: BOOLEAN, workdir: Workdirs]

EmptyState == [steps |-> <<>>, env |-> FALSE, workdir |-> "none"]

\* compile(): the working directory is part of the steps by now.
Compile(t) == [steps |-> t.steps, env |-> t.env]

-----------------------------------------------------------------------------
(* The platform (external): statuses, and what may follow each.            *)

Rank == [absent |-> 0, CREATING |-> 1, RUNNING |-> 2, FAILED |-> 3, DESTROYING |-> 4,
         DESTROYED |-> 5, gone |-> 6]

NextStatus ==
    [absent |-> {}, CREATING |-> {"RUNNING", "FAILED", "DESTROYING"},
     RUNNING |-> {"FAILED", "DESTROYING"}, FAILED |-> {"DESTROYING"},
     DESTROYING |-> {"DESTROYED"}, DESTROYED |-> {"gone"}, gone |-> {}]

BuildStatus == {"PENDING", "BUILDING", "READY", "FAILED"}

NextBuild == [absent |-> {}, PENDING |-> {"BUILDING", "READY", "FAILED"},
              BUILDING |-> {"READY", "FAILED"}, READY |-> {}, FAILED |-> {}]

-----------------------------------------------------------------------------
(* The creation.                                                           *)

Kinds == {"blank", "checkpoint", "fork", "recipe", "build only"}

\* The caller's options. validResources() will refuse bad resources.
Options == [region: Regions, resources: {"good", "bad"}]

NoOptions == [region |-> "undefined", resources |-> "good"]

\* What a creation begins with; what its mutations ask the platform for.
Requests == [kind: Kinds, recipe: [steps: Seq(Workdirs), env: BOOLEAN], region: Regions]

NoRequest == [kind |-> "blank", recipe |-> Compile(EmptyState), region |-> "undefined"]

\* stage: awaiting the answer to the build or create mutation ("mutate"), the
\* delay before a poll ("sleep"), or the answer to the poll. left: ticks of the
\* delay still to go, or that the request has taken.
Idle == [stage |-> "none", of |-> "sandbox", request |-> NoRequest, delay |-> 0,
         left |-> 0, answer |-> "none"]

Answers == DOMAIN Rank \cup BuildStatus \cup {"none"}

Errors == {"argument", "request", "failed", "timeout", "not found"}

CreationTypeOK ==
    /\ template \in Recipes /\ options \in Options
    /\ call \in [stage: {"none", "mutate", "sleep", "poll"}, of: {"build", "sandbox"},
                 request: Requests, delay: 0..PollMaxDelay,
                 left: Nat, answer: Answers]
    /\ elapsed \in Nat /\ overdue \in Nat
    /\ build \in [status: BuildStatus \cup {"absent"}, input: Requests]
    /\ created \in Requests
    /\ sandbox \in DOMAIN Rank

NoBuild == [status |-> "absent", input |-> NoRequest]

NoCall == [op |-> "none", stage |-> "none", answer |-> "none", alone |-> TRUE,
           after |-> 0, page |-> 0, seen |-> <<>>, there |-> {}]

Init ==
    /\ template = EmptyState /\ options = NoOptions
    /\ call = Idle
    /\ elapsed = 0 /\ overdue = 0
    /\ outcome = "none"
    /\ build = NoBuild
    /\ created = NoRequest
    /\ sandbox = "absent"
    /\ info = "none"
    /\ sessions = {} /\ born = 0
    /\ calls = [c \in Callers |-> NoCall]

\* run() and withPackages(), withEnv(), workdir(): each a new recipe.
Derive ==
    /\ outcome = "none"
    /\ \/ /\ Len(template.steps) < MaxSteps
          /\ template' = [template EXCEPT !.steps = Append(@, template.workdir)]
       \/ template' = [template EXCEPT !.env = TRUE]
       \/ template' = [template EXCEPT !.workdir = "dir"]
    /\ UNCHANGED <<options, call, elapsed, overdue, outcome, build, created, sandbox, info,
                   sessionVars, calls>>

\* The creation ends. What only it looks at goes with it: the recipe in the hands
\* of the caller, its options, the build, the histories.
End(result) ==
    /\ outcome' = result
    /\ options' = NoOptions
    /\ template' = IF result = "none" THEN template ELSE EmptyState
    /\ call' = Idle
    /\ elapsed' = 0 /\ overdue' = 0
    /\ build' = NoBuild
    /\ created' = NoRequest

\* A request of the creation is sent.
Send(stage, of, r) ==
    /\ call' = [call EXCEPT !.stage = stage, !.of = of, !.request = r, !.left = 0,
                            !.answer = "none"]
    /\ UNCHANGED <<template, elapsed, overdue, outcome, build>>

BuildInput_RegionLost(r) == [r EXCEPT !.region = "undefined"]

\* buildTemplate(): the input of the build. An empty region is left out.
BuildInput(r) == [r EXCEPT !.region = IF @ = "empty" THEN "undefined" ELSE @]

\* #createAndWait(): the input of the create. The options are those of this moment,
\* and an empty region is passed on.
CreateInput(r, o) == [r EXCEPT !.region = o.region]

\* engine.create() and engine.fork(): resources are checked, then the create
\* mutation goes out. The options are not read again.
SendCreate(r, o) ==
    IF o.resources = "bad"
    THEN End("argument")
    ELSE /\ Send("mutate", "sandbox", r)
         /\ created' = CreateInput(r, o)
         /\ options' = NoOptions

\* Sandbox.create() or source.fork(), or template.build(), which only builds. A
\* recipe without steps has nothing to build: the sandbox is created plain.
Create ==
    /\ outcome = "none" /\ call.stage = "none"
    /\ \E kind \in Kinds, o \in Options :
         LET recipe == IF kind \in {"recipe", "build only"} THEN Compile(template)
                       ELSE NoRequest.recipe
             r == [kind |-> kind, recipe |-> recipe, region |-> o.region]
         IN \/ /\ recipe.steps # <<>>
               /\ Send("mutate", "build", r)
               /\ options' = o
               /\ UNCHANGED created
            \/ /\ recipe.steps = <<>> /\ kind # "build only"
               /\ SendCreate(IF kind = "recipe"
                             THEN [r EXCEPT !.kind = "blank", !.recipe = NoRequest.recipe]
                             ELSE r, o)
    /\ UNCHANGED <<sandbox, info, sessionVars, calls>>

\* While the build is awaited the caller may do as it likes with its options object.
ChangeOptions ==
    /\ call.stage # "none" /\ call.of = "build" /\ call.request.kind = "recipe"
    /\ options' \in Options
    /\ UNCHANGED <<template, call, elapsed, overdue, outcome, build, created, sandbox, info,
                   sessionVars, calls>>

\* A blank checkpoint name, or no token or environment: nothing is sent.
CreateRefused ==
    /\ outcome = "none" /\ call.stage = "none"
    /\ End("argument")
    /\ UNCHANGED <<sandbox, info, sessionVars, calls>>

-----------------------------------------------------------------------------
(* The platform serves the creation's requests (external).                 *)

Unserved == call.stage \in {"mutate", "poll"} /\ call.answer = "none"

\* The build mutation: the platform may have this very build already.
ServeBuild ==
    /\ Unserved /\ call.stage = "mutate" /\ call.of = "build"
    /\ \E status \in BuildStatus :
          /\ build' = [status |-> status, input |-> BuildInput(call.request)]
          /\ call' = [call EXCEPT !.answer = status]
    /\ UNCHANGED <<template, options, elapsed, overdue, outcome, created, sandbox, info,
                   sessionVars, calls>>

ServeCreate ==
    /\ Unserved /\ call.stage = "mutate" /\ call.of = "sandbox"
    /\ \E status \in {"CREATING", "RUNNING", "FAILED"} :
          sandbox' = status /\ call' = [call EXCEPT !.answer = status]
    /\ UNCHANGED <<template, options, elapsed, overdue, outcome, build, created, info,
                   sessionVars, calls>>

ServePoll ==
    /\ Unserved /\ call.stage = "poll"
    /\ call' = [call EXCEPT !.answer = IF call.of = "build" THEN build.status ELSE sandbox]
    /\ UNCHANGED <<template, options, elapsed, overdue, outcome, build, created, sandbox, info,
                   sessionVars, calls>>

PlatformMoves ==
    /\ \/ sandbox' \in NextStatus[sandbox] /\ UNCHANGED build
       \/ \E status \in NextBuild[build.status] :
             build' = [build EXCEPT !.status = status] /\ UNCHANGED sandbox
    /\ UNCHANGED <<template, options, call, elapsed, overdue, outcome, created, info, sessionVars,
                   calls>>

-----------------------------------------------------------------------------
(* Readiness: #waitForBuildReady, #waitForRunning, #pollUntilReady.        *)

IsReady(of, status) == status = (IF of = "build" THEN "READY" ELSE "RUNNING")

\* isSandboxTerminal() and the terminal status of a build
IsTerminal(of, status) ==
    status \in (IF of = "build" THEN {"FAILED"} ELSE {"FAILED", "DESTROYED", "DESTROYING"})

Backoff_Uncapped(delay) == 2 * delay

Backoff(delay) == IF 2 * delay < PollMaxDelay THEN 2 * delay ELSE PollMaxDelay

TimedOut_Never == FALSE

TimedOut == elapsed >= ReadinessTimeout

Sleep(delay) ==
    /\ call' = [call EXCEPT !.stage = "sleep", !.delay = delay, !.left = delay,
                            !.answer = "none"]
    /\ UNCHANGED outcome

\* What a response says that has arrived.
Answered(stage) == call.stage = stage /\ call.answer # "none"

\* The build is there: the create follows, with what the caller's options are by now,
\* or template.build() returns.
BuildReady ==
    /\ call.answer # "none" /\ call.of = "build" /\ IsReady("build", call.answer)
    /\ IF call.request.kind = "build only" THEN End("none")
       ELSE IF options.resources = "bad" THEN End("argument")
       ELSE /\ call' = [Idle EXCEPT !.stage = "mutate", !.request = call.request]
            /\ created' = CreateInput(call.request, options)
            /\ options' = NoOptions
            /\ elapsed' = 0 /\ overdue' = 0
            /\ UNCHANGED <<template, outcome, build>>
    /\ UNCHANGED <<sandbox, info, sessionVars, calls>>

\* The sandbox runs: the handle starts with the answer as its #info.
SandboxReady ==
    /\ call.answer # "none" /\ call.of = "sandbox" /\ IsReady("sandbox", call.answer)
    /\ End("handle")
    /\ info' = call.answer
    /\ UNCHANGED <<sandbox, sessionVars, calls>>

\* SandboxFailedError, SandboxTemplateBuildError; SandboxNotFoundError of a poll.
NeverReady ==
    /\ call.answer # "none"
    /\ \/ IsTerminal(call.of, call.answer) /\ End("failed")
       \/ call.answer = "gone" /\ End("not found")
    /\ UNCHANGED <<sandbox, info, sessionVars, calls>>

Pending(answer) == answer # "gone" /\ ~IsReady(call.of, answer) /\ ~IsTerminal(call.of, answer)

\* The first answer says it is not there yet: pollUntilReady begins.
BeginWait ==
    /\ Answered("mutate") /\ Pending(call.answer)
    /\ Sleep(PollInitialDelay)
    /\ UNCHANGED <<template, options, elapsed, overdue, build, created, sandbox, info,
                   sessionVars, calls>>

PollAgain ==
    /\ Answered("poll") /\ Pending(call.answer) /\ ~TimedOut
    /\ Sleep(Backoff(call.delay))
    /\ UNCHANGED <<template, options, elapsed, overdue, build, created, sandbox, info,
                   sessionVars, calls>>

\* SandboxTimeoutError: only after a poll.
GiveUp ==
    /\ Answered("poll") /\ Pending(call.answer) /\ TimedOut
    /\ End("timeout")
    /\ UNCHANGED <<sandbox, info, sessionVars, calls>>

Poll ==
    /\ call.stage = "sleep" /\ call.left = 0
    /\ call' = [call EXCEPT !.stage = "poll"]
    /\ UNCHANGED <<template, options, elapsed, overdue, outcome, build, created, sandbox, info,
                   sessionVars, calls>>

\* requestGraphQL() rejects: fetch failed, or the answer is no success or has no
\* data. The platform may have served it. The first failed poll ends the wait.
RequestFails ==
    /\ call.stage \in {"mutate", "poll"}
    /\ End("request")
    /\ UNCHANGED <<sandbox, info, sessionVars, calls>>

\* What is waited for can no longer become something the wait goes on for.
Decided ==
    IF call.of = "build" THEN build.status \in {"READY", "FAILED"}
    ELSE sandbox \notin {"absent", "CREATING"}

\* Bound of `elapsed': nothing looks further.
MaxElapsed == ReadinessTimeout + PollMaxDelay + MaxRequest

\* A tick of the delay, or of a poll that takes its time.
Tick ==
    /\ \/ /\ call.stage = "sleep" /\ call.left > 0
          /\ call' = [call EXCEPT !.left = @ - 1]
       \/ /\ call.stage = "poll" /\ call.left < MaxRequest
          /\ call' = [call EXCEPT !.left = @ + 1]
    /\ elapsed' = IF elapsed < MaxElapsed THEN elapsed + 1 ELSE elapsed
    /\ overdue' = IF Decided THEN overdue + 1 ELSE overdue
    /\ UNCHANGED <<template, options, outcome, build, created, sandbox, info, sessionVars, calls>>

-----------------------------------------------------------------------------
(* Calls on the handle.                                                    *)

\* Calls that write #info when they settle; connect() makes a handle. One listing
\* of sessions and one connect at a time are enough: two do not touch each other.
Refreshing == {"refresh", "heartbeat", "connect"}

\* No call, or a listing that is complete or has been cut short.
Over == {"none", "done", "cut"}

Invoke(c, op) ==
    /\ calls[c].stage \in Over
    /\ IF op = "connect" THEN outcome \in Errors ELSE info # "none"
    /\ op \in {"connect", "sessions"} => \A d \in Callers \ {c} : calls[d].op # op
    /\ calls' = [calls EXCEPT ![c] =
          [NoCall EXCEPT !.op = op, !.stage = "sent",
                         !.there = IF op = "sessions" THEN sessions ELSE {}]]
    /\ UNCHANGED <<createVars, sandbox, info, sessionVars>>

\* The platform serves it: a status or null, destruction, or nothing we follow
\* (checkpoint, exec over HTTPS, rename and delete of checkpoints).
ServeStatus(c) ==
    /\ calls[c].stage = "sent" /\ calls[c].op \in Refreshing
    /\ calls' = [calls EXCEPT ![c].stage = "answered", ![c].answer = sandbox]
    /\ UNCHANGED <<createVars, sandbox, info, sessionVars>>

ServeDestroy(c) ==
    /\ calls[c].stage = "sent" /\ calls[c].op = "destroy"
    /\ sandbox' = IF "DESTROYING" \in NextStatus[sandbox] THEN "DESTROYING" ELSE sandbox
    /\ calls' = [calls EXCEPT ![c].stage = "answered"]
    /\ UNCHANGED <<createVars, info, sessionVars>>

Shown_Assumed(c) == IF calls[c].op = "heartbeat" THEN "RUNNING" ELSE calls[c].answer

\* this.#info after the await
Shown(c) == calls[c].answer

\* refresh(), heartbeat() or connect() resolves: the answer becomes #info,
\* whatever other calls have stored since it was asked for.
StatusArrives(c) ==
    /\ calls[c].stage = "answered" /\ calls[c].op \in Refreshing
    /\ calls[c].answer \notin {"gone", "absent"}
    /\ info' = Shown(c)
    /\ outcome' = "handle"
    /\ calls' = [d \in Callers |->
          IF d = c THEN NoCall
          ELSE [calls[d] EXCEPT !.alone = calls[d].stage \in Over]]
    /\ UNCHANGED <<template, options, call, elapsed, overdue, build, created, sandbox, sessionVars>>

\* A call without a status ends: a destroy is done, SandboxNotFoundError or the
\* failure of a request is thrown, sessions() finds a runtime that cannot tell.
Ends(c) ==
    /\ calls[c].stage \in {"sent", "answered"}
    /\ calls' = [calls EXCEPT ![c] = NoCall]
    /\ UNCHANGED <<createVars, sandbox, info, sessionVars>>

NextCursor_Unmoved(c, page) == calls[c].after

\* after = endCursor
NextCursor(c, page) == Last(page)

\* The platform lists sessions in the order they began.
InOrder(S) ==
    CHOOSE f \in Surjection(1..Cardinality(S), S) :
        \A i, j \in 1..Cardinality(S) : i < j => f[i] < f[j]

\* One page of sessions() is served and handled. The listing is done with the last
\* page, and is cut short if there is more after MAX_SESSION_PAGES of them.
PageArrives(c) ==
    /\ calls[c].stage = "sent" /\ calls[c].op = "sessions"
    /\ LET left == InOrder({s \in sessions : s > calls[c].after})
           page == SubSeq(left, 1, IF Len(left) < PageSize THEN Len(left) ELSE PageSize)
           more == Len(left) > Len(page)
           goesOn == more /\ calls[c].page + 1 < MaxSessionPages
       IN calls' = [calls EXCEPT
             ![c].seen = @ \o page,
             ![c].page = @ + 1,
             ![c].after = IF goesOn THEN NextCursor(c, page) ELSE @,
             ![c].stage = IF goesOn THEN "sent" ELSE IF more THEN "cut" ELSE "done"]
    /\ UNCHANGED <<createVars, sandbox, info, sessionVars>>

\* Sessions begin and are forgotten as the platform likes (external).
SessionStarts ==
    /\ sandbox = "RUNNING" /\ info # "none" /\ born < MaxSessions
    /\ born' = born + 1
    /\ sessions' = sessions \cup {born'}
    /\ UNCHANGED <<createVars, sandbox, info, calls>>

SessionForgotten ==
    /\ \E s \in sessions :
          /\ sessions' = sessions \ {s}
          /\ calls' = [c \in Callers |->
                IF calls[c].stage = "sent" THEN [calls[c] EXCEPT !.there = @ \ {s}]
                ELSE calls[c]]
    /\ UNCHANGED <<createVars, sandbox, info, born>>

-----------------------------------------------------------------------------
CreationStep ==
    \/ Derive \/ Create \/ ChangeOptions \/ CreateRefused
    \/ BuildReady \/ SandboxReady \/ NeverReady
    \/ BeginWait \/ Poll \/ PollAgain \/ GiveUp \/ RequestFails \/ Tick

PlatformStep ==
    \/ ServeBuild \/ ServeCreate \/ ServePoll \/ PlatformMoves
    \/ SessionStarts \/ SessionForgotten

HandleStep ==
    \E c \in Callers :
       \/ \E op \in Refreshing \cup {"destroy", "sessions"} : Invoke(c, op)
       \/ ServeStatus(c) \/ ServeDestroy(c) \/ StatusArrives(c) \/ Ends(c)
       \/ PageArrives(c)

Next == CreationStep \/ PlatformStep \/ HandleStep

\* Timers fire, and a request is answered or fails and its continuation runs.
\* Nothing is assumed of what the answers say.
Fairness ==
    /\ WF_vars(Tick)
    /\ WF_vars(Poll)
    /\ WF_vars(ServeBuild \/ ServeCreate \/ ServePoll)
    /\ WF_vars(BuildReady \/ SandboxReady \/ NeverReady \/ BeginWait \/ PollAgain \/ GiveUp)

Spec == Init /\ [][Next]_vars /\ Fairness

-----------------------------------------------------------------------------
(* Properties.                                                             *)

\* A sandbox is created from a recipe only when the platform has a finished build of
\* that very recipe, build-time variables included. The build is in the region that
\* the create asks for, if that is the region the creation began with (the caller may
\* have changed its options meanwhile) and not an empty text, which only the create
\* passes on: otherwise the create would not fork the build that was waited for.
TemplateFromBuild ==
    created.kind = "recipe" =>
        /\ build.status = "READY" /\ build.input.recipe = created.recipe
        /\ created.region \in {call.request.region} \ {"empty"} =>
              build.input.region = created.region

\* A wait ends one delay and one poll after READINESS_TIMEOUT_MS, however the backoff
\* and slow polls fall.
WaitBounded == elapsed < MaxElapsed

\* What is waited for is noticed in time: for no longer than the longest delay
\* and two slow polls is it ready or failed and the caller still waiting.
NoticedInTime == overdue <= PollMaxDelay + 2 * MaxRequest

\* What a handle shows goes back to an earlier state only through calls that
\* overlap: a refresh() or heartbeat() alone, and a destroy() or sessions()
\* always, leave it as new as it was.
HandleAdvances ==
    [][info # "none" /\ Rank[info'] < Rank[info] =>
          \E c \in Callers : calls[c].stage = "answered" /\ calls'[c] = NoCall
                             /\ ~calls[c].alone]_vars

\* sessions() lists no session twice, and every one that was there throughout, while
\* sessions come and go between its pages; a listing that is cut short, and only that
\* one, has had MAX_SESSION_PAGES full pages.
SessionsWhole ==
    \A c \in Callers : calls[c].op = "sessions" /\ calls[c].stage \in {"done", "cut"} =>
        /\ IsInjective(calls[c].seen)
        /\ IF calls[c].stage = "done" THEN calls[c].there \subseteq ToSet(calls[c].seen)
           ELSE Len(calls[c].seen) = MaxSessionPages * PageSize

\* A creation ends, though the platform never makes up its mind.
CreationEnds == call.stage # "none" ~> call.stage = "none"
=============================================================================
