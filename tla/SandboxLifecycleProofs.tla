----------------------- MODULE SandboxLifecycleProofs -----------------------
(* The safety of a sandbox, for every timeout, backoff, request time and   *)
(* number of callers. A creation: its waits are bounded, what they wait    *)
(* for is noticed in time, and a sandbox is created only from the build    *)
(* that was waited for. A handle: a listing of sessions is whole, and what *)
(* the handle shows goes back only through calls that overlap.             *)
EXTENDS SandboxLifecycle, FiniteSetTheorems, SequenceTheorems, WellFoundedInduction, TLAPS

-----------------------------------------------------------------------------
(* Types.                                                                  *)

\* Records and sequences that the actions build are of their types.
LEMMA CallForms ==
  ASSUME CreationTypeOK
  PROVE  /\ \A a \in Answers : [call EXCEPT !.answer = a].answer = a
         /\ \A n \in Nat : [call EXCEPT !.left = n].left = n
         /\ call.left \in Nat /\ call.delay \in 0..PollMaxDelay /\ call.request \in Requests
         /\ call.answer \in Answers /\ call.of \in {"build", "sandbox"}
         /\ call.stage \in {"none", "mutate", "sleep", "poll"}
         /\ build.status \in BuildStatus \cup {"absent"} /\ build.input \in Requests
  BY DEF CreationTypeOK

LEMMA NoAnswer == "none" \in Answers
  BY DEF Answers

LEMMA RequestForms ==
  ASSUME CreationTypeOK
  PROVE  /\ Compile(template) \in [steps: Seq(Workdirs), env: BOOLEAN]
         /\ NoRequest \in Requests /\ EmptyState \in Recipes
         /\ NoBuild \in [status: BuildStatus \cup {"absent"}, input: Requests]
         /\ NoOptions \in Options
  <1>1. <<>> \in Seq(Workdirs)
    OBVIOUS
  <1>2. EmptyState \in Recipes
    BY <1>1 DEF EmptyState, Recipes, Workdirs
  <1>3. NoRequest \in Requests
    BY <1>1 DEF EmptyState, NoRequest, Compile, Requests, Kinds, Regions
  <1>4. Compile(template) \in [steps: Seq(Workdirs), env: BOOLEAN]
    BY DEF CreationTypeOK, Recipes, Compile
  <1>5. QED BY <1>2, <1>3, <1>4 DEF NoBuild, NoOptions, Options, Regions

LEMMA IdleType ==
  Idle \in [stage: {"none", "mutate", "sleep", "poll"}, of: {"build", "sandbox"},
            request: Requests, delay: 0..PollMaxDelay, left: Nat, answer: Answers]
  <1>1. 0 \in 0..PollMaxDelay
    BY DelayAssumption
  <1>2. NoRequest \in Requests
    BY DEF EmptyState, NoRequest, Compile, Requests, Kinds, Regions
  <1>3. QED BY <1>1, <1>2, NoAnswer DEF Idle

\* A mutation's input is made from a request by giving it another region.
LEMMA InputForms ==
  ASSUME NEW r \in Requests, NEW o \in Options
  PROVE  /\ BuildInput(r) \in Requests /\ BuildInput(r).recipe = r.recipe
         /\ r.region # "empty" => BuildInput(r).region = r.region
         /\ CreateInput(r, o) \in Requests /\ CreateInput(r, o).recipe = r.recipe
         /\ CreateInput(r, o).kind = r.kind
  BY DEF BuildInput, CreateInput, Requests, Options, Regions

\* The end of a creation is of its types.
LEMMA EndType ==
  ASSUME CreationTypeOK, NEW r, End(r), sandbox' = sandbox
  PROVE  CreationTypeOK'
  BY RequestForms, IdleType DEF End, CreationTypeOK

LEMMA SendType ==
  ASSUME CreationTypeOK, NEW stage \in {"mutate", "poll"}, NEW of \in {"build", "sandbox"},
         NEW r \in Requests, Send(stage, of, r), created' \in Requests,
         options' \in Options, sandbox' = sandbox
  PROVE  CreationTypeOK'
  BY NoAnswer DEF Send, CreationTypeOK

LEMMA BackoffType ==
  ASSUME NEW delay \in 0..PollMaxDelay
  PROVE  Backoff(delay) \in 0..PollMaxDelay
  BY DelayAssumption DEF Backoff

LEMMA SleepType ==
  ASSUME CreationTypeOK, NEW delay \in 0..PollMaxDelay, Sleep(delay),
         UNCHANGED <<template, options, elapsed, overdue, build, created, sandbox>>
  PROVE  CreationTypeOK'
  <1>1. delay \in Nat
    BY DelayAssumption
  <1>2. QED BY <1>1, NoAnswer DEF Sleep, CreationTypeOK

LEMMA SendCreateType ==
  ASSUME CreationTypeOK, NEW r \in Requests, NEW o \in Options, SendCreate(r, o),
         sandbox' = sandbox
  PROVE  CreationTypeOK'
  <1>1. CASE End("argument")
    BY <1>1, EndType
  <1>2. CASE Send("mutate", "sandbox", r) /\ created' = CreateInput(r, o) /\ options' = NoOptions
    BY <1>2, SendType, InputForms, RequestForms
  <1>3. QED BY <1>1, <1>2 DEF SendCreate

LEMMA CreationType == CreationTypeOK /\ [Next]_vars => CreationTypeOK'
  <1> SUFFICES ASSUME CreationTypeOK, [Next]_vars PROVE CreationTypeOK'
    OBVIOUS
  <1> USE DEF createVars, sessionVars
  <1>0. ASSUME UNCHANGED <<template, options, call, elapsed, overdue, build, created, sandbox>>
        PROVE  CreationTypeOK'
    BY <1>0 DEF CreationTypeOK
  <1>1. CASE Derive
    <2>1. template \in Recipes
      BY DEF CreationTypeOK
    <2>2. template.steps \in Seq(Workdirs) /\ template.workdir \in Workdirs
      BY <2>1 DEF Recipes
    <2>3. Append(template.steps, template.workdir) \in Seq(Workdirs)
      BY <2>2
    <2>4. template' \in Recipes
      BY <1>1, <2>1, <2>3 DEF Derive, Recipes, Workdirs
    <2>5. QED BY <1>1, <2>4 DEF Derive, CreationTypeOK
  <1>2. CASE Create
    <2>1. PICK kind \in Kinds, o \in Options :
            LET recipe == IF kind \in {"recipe", "build only"} THEN Compile(template)
                          ELSE NoRequest.recipe
                r == [kind |-> kind, recipe |-> recipe, region |-> o.region]
            IN \/ recipe.steps # <<>> /\ Send("mutate", "build", r) /\ options' = o
                  /\ UNCHANGED created
               \/ recipe.steps = <<>> /\ kind # "build only"
                  /\ SendCreate(IF kind = "recipe"
                                THEN [r EXCEPT !.kind = "blank", !.recipe = NoRequest.recipe]
                                ELSE r, o)
      BY <1>2 DEF Create
    <2> DEFINE recipe == IF kind \in {"recipe", "build only"} THEN Compile(template) ELSE NoRequest.recipe
               r == [kind |-> kind, recipe |-> recipe, region |-> o.region]
               plain == [r EXCEPT !.kind = "blank", !.recipe = NoRequest.recipe]
    <2>2. NoRequest.recipe \in [steps: Seq(Workdirs), env: BOOLEAN]
      BY RequestForms DEF Requests
    <2>3. r \in Requests /\ plain \in Requests
      BY <2>2, RequestForms DEF Requests, Kinds, Options
    <2>4. sandbox' = sandbox /\ created \in Requests
      BY <1>2 DEF Create, CreationTypeOK
    <2>5. (Send("mutate", "build", r) /\ options' = o /\ UNCHANGED created)
          \/ SendCreate(r, o) \/ SendCreate(plain, o)
      BY <2>1
    <2> HIDE DEF r, plain
    <2>6. QED BY <2>3, <2>4, <2>5, SendType, SendCreateType
  <1>3. CASE CreateRefused \/ NeverReady \/ GiveUp \/ RequestFails
    BY <1>3, EndType DEF CreateRefused, NeverReady, GiveUp, RequestFails
  <1>4. CASE SandboxReady
    BY <1>4, EndType DEF SandboxReady
  <1>5. CASE BuildReady
    <2>1. CASE End("none") \/ End("argument")
      BY <1>5, <2>1, EndType DEF BuildReady
    <2>2. CASE /\ call' = [Idle EXCEPT !.stage = "mutate", !.request = call.request]
               /\ created' = CreateInput(call.request, options) /\ options' = NoOptions
               /\ elapsed' = 0 /\ overdue' = 0
               /\ UNCHANGED <<template, outcome, build>>
      BY <1>5, <2>2, IdleType, CallForms, InputForms, RequestForms DEF BuildReady, CreationTypeOK
    <2>3. QED BY <1>5, <2>1, <2>2 DEF BuildReady
  <1>6. CASE BeginWait
    <2>1. PollInitialDelay \in 0..PollMaxDelay
      BY DelayAssumption
    <2>2. QED BY <1>6, <2>1, SleepType DEF BeginWait
  <1>7. CASE PollAgain
    BY <1>7, CallForms, BackoffType, SleepType DEF PollAgain
  <1>8. CASE Poll
    BY <1>8 DEF Poll, CreationTypeOK
  <1>9. CASE Tick
    <2>1. call.left \in Nat /\ call.left + 1 \in Nat /\ (call.left > 0 => call.left - 1 \in Nat)
      BY CallForms
    <2>2. elapsed' \in Nat /\ overdue' \in Nat
      BY <1>9 DEF Tick, CreationTypeOK
    <2>3. QED BY <1>9, <2>1, <2>2 DEF Tick, CreationTypeOK
  <1>10. CASE ServeBuild
    <2>1. BuildInput(call.request) \in Requests
      BY CallForms, RequestForms, InputForms
    <2>2. QED BY <1>10, <2>1, CallForms DEF ServeBuild, CreationTypeOK, Answers
  <1>11. CASE ServeCreate
    BY <1>11 DEF ServeCreate, CreationTypeOK, Answers, Rank
  <1>12. CASE ServePoll
    <2>1. (IF call.of = "build" THEN build.status ELSE sandbox) \in Answers
      BY CallForms DEF CreationTypeOK, Answers, Rank
    <2>2. QED BY <1>12, <2>1 DEF ServePoll, CreationTypeOK
  <1>13. CASE PlatformMoves
    <2>1. CASE sandbox' \in NextStatus[sandbox] /\ UNCHANGED build
      <3>1. sandbox' \in DOMAIN Rank
        BY <2>1 DEF NextStatus, Rank, CreationTypeOK
      <3>2. QED BY <1>13, <2>1, <3>1 DEF PlatformMoves, CreationTypeOK
    <2>2. CASE \E status \in NextBuild[build.status] :
                 build' = [build EXCEPT !.status = status] /\ UNCHANGED sandbox
      <3>1. build.status \in BuildStatus \cup {"absent"}
        BY CallForms
      <3>2. NextBuild[build.status] \subseteq BuildStatus
        BY <3>1 DEF NextBuild, BuildStatus
      <3>3. QED BY <1>13, <2>2, <3>2 DEF PlatformMoves, CreationTypeOK
    <2>3. QED BY <1>13, <2>1, <2>2 DEF PlatformMoves
  <1>14. CASE SessionStarts \/ SessionForgotten
    BY <1>0, <1>14 DEF SessionStarts, SessionForgotten
  <1>15. CASE HandleStep
    <2>1. CASE \E c \in Callers : ServeDestroy(c)
      BY <2>1 DEF ServeDestroy, NextStatus, Rank, CreationTypeOK
    <2>2. CASE \E c \in Callers : (\E op \in Refreshing \cup {"destroy", "sessions"} : Invoke(c, op))
                                  \/ ServeStatus(c) \/ StatusArrives(c) \/ Ends(c) \/ PageArrives(c)
      BY <1>0, <2>2 DEF Invoke, ServeStatus, StatusArrives, Ends, PageArrives
    <2>3. QED BY <1>15, <2>1, <2>2 DEF HandleStep
  <1>16. CASE UNCHANGED vars
    BY <1>0, <1>16 DEF vars
  <1>17. CASE ChangeOptions
    BY <1>17 DEF ChangeOptions, CreationTypeOK
  <1>18. QED
    BY <1>17, <1>1, <1>2, <1>3, <1>4, <1>5, <1>6, <1>7, <1>8, <1>9, <1>10, <1>11, <1>12, <1>13, <1>14,
       <1>15, <1>16 DEF Next, CreationStep, PlatformStep

-----------------------------------------------------------------------------
(* The inductive invariant: what has been asked for and answered, and where *)
(* in a delay or a request the time is.                                     *)

BuildInv ==
    /\ TemplateFromBuild
    /\ created.kind = "recipe" => call.stage # "none" /\ call.of = "sandbox"
    /\ call.stage # "none" /\ call.of = "build" /\ (call.stage = "mutate" => call.answer # "none") =>
          build.input = BuildInput(call.request)
    /\ call.of = "build" /\ call.answer = "READY" => build.status = "READY"
    /\ call.answer # "none" => call.stage # "none"

\* A tick that counts towards `elapsed' or `overdue' is one of a delay, which left
\* counts down, or of a request, which left counts up.
TimeInv ==
    /\ call.stage \in {"none", "mutate"} => elapsed = 0 /\ overdue = 0
    /\ call.stage = "sleep" =>
          /\ elapsed + call.left < ReadinessTimeout + PollMaxDelay
          /\ overdue + call.left <= MaxRequest + PollMaxDelay
          /\ call.answer = "none"
    /\ call.stage = "poll" =>
          /\ call.left <= MaxRequest
          /\ elapsed < ReadinessTimeout + PollMaxDelay + call.left
          /\ overdue <= MaxRequest + PollMaxDelay + call.left
          /\ call.answer # "none" /\ Pending(call.answer) => overdue <= call.left
    /\ ~Decided => overdue = 0

SInv == CreationTypeOK /\ BuildInv /\ TimeInv

\* The end of a creation, and a request sent while nothing has been waited for.
LEMMA EndKeeps ==
  ASSUME NEW r, End(r)
  PROVE  BuildInv' /\ TimeInv'
  BY DEF End, Idle, NoRequest, BuildInv, TimeInv, TemplateFromBuild

LEMMA SendKeeps ==
  ASSUME SInv, NEW of \in {"build", "sandbox"}, NEW r, Send("mutate", of, r), call.stage = "none",
         created'.kind # "recipe"
  PROVE  BuildInv' /\ TimeInv'
  <1>1. /\ call'.stage = "mutate" /\ call'.answer = "none" /\ elapsed' = 0 /\ overdue' = 0
    BY DEF Send, SInv, TimeInv, CreationTypeOK
  <1>2. QED BY <1>1 DEF BuildInv, TimeInv, TemplateFromBuild

LEMMA SendCreateKeeps ==
  ASSUME SInv, NEW r \in Requests, NEW o \in Options, SendCreate(r, o), call.stage = "none",
         r.kind # "recipe"
  PROVE  BuildInv' /\ TimeInv'
  <1>1. CASE End("argument")
    BY <1>1, EndKeeps
  <1>2. CASE Send("mutate", "sandbox", r) /\ created' = CreateInput(r, o)
    BY <1>2, SendKeeps, InputForms
  <1>3. QED BY <1>1, <1>2 DEF SendCreate

\* What is decided stays decided, and a build that is ready stays ready.
LEMMA PlatformKeeps ==
  ASSUME SInv, UNCHANGED <<call, elapsed, overdue, created>>,
         \/ sandbox' = sandbox /\ build' = build
         \/ sandbox' \in NextStatus[sandbox] /\ build' = build
         \/ /\ \E status \in NextBuild[build.status] : build' = [build EXCEPT !.status = status]
            /\ sandbox' = sandbox
  PROVE  BuildInv' /\ TimeInv'
  <1>1. sandbox \in DOMAIN Rank /\ build.status \in BuildStatus \cup {"absent"}
    BY CallForms DEF SInv, CreationTypeOK
  <1>2. sandbox \notin {"absent", "CREATING"} => sandbox' \notin {"absent", "CREATING"}
    BY <1>1 DEF Rank, NextStatus
  <1>3. build'.input = build.input /\ (build.status \in {"READY", "FAILED"} => build'.status = build.status)
    BY <1>1 DEF NextBuild, BuildStatus, SInv, CreationTypeOK
  <1>4. Decided => Decided'
    BY <1>2, <1>3 DEF Decided
  <1>5. BuildInv'
    BY <1>3 DEF SInv, BuildInv, TemplateFromBuild
  <1>6. TimeInv'
    BY <1>4 DEF SInv, TimeInv, Pending
  <1>7. QED BY <1>5, <1>6

LEMMA SleepKeeps ==
  ASSUME SInv, NEW delay \in 0..PollMaxDelay, Sleep(delay), elapsed < ReadinessTimeout,
         overdue <= MaxRequest, call.of = "build" => build.input = BuildInput(call.request),
         call.stage # "none",
         UNCHANGED <<template, options, elapsed, overdue, build, created, sandbox>>
  PROVE  BuildInv' /\ TimeInv'
  <1>1. /\ call'.stage = "sleep" /\ call'.of = call.of /\ call'.left = delay /\ call'.answer = "none"
        /\ call'.request = call.request
    BY DEF Sleep, SInv, CreationTypeOK
  <1>2. BuildInv'
    BY <1>1 DEF SInv, BuildInv, TemplateFromBuild
  <1>3. elapsed \in Nat /\ overdue \in Nat /\ delay \in Nat /\ delay <= PollMaxDelay /\ MaxRequest \in Nat
        /\ PollMaxDelay \in Nat /\ ReadinessTimeout \in Nat
    BY DelayAssumption DEF SInv, CreationTypeOK
  <1>4. Decided' = Decided
    BY <1>1 DEF Decided
  <1>5. TimeInv'
    BY <1>1, <1>3, <1>4 DEF SInv, TimeInv
  <1>6. QED BY <1>2, <1>5

\* The steps of the creation, but for the clock.
LEMMA CreationKeeps ==
  ASSUME SInv, CreationStep
  PROVE  BuildInv' /\ TimeInv'
  <1>0. CreationTypeOK /\ BuildInv /\ TimeInv
    BY DEF SInv
  <1>a. ReadinessTimeout \in Nat \ {0} /\ MaxRequest \in Nat /\ PollMaxDelay \in Nat
        /\ PollInitialDelay \in 0..PollMaxDelay
    BY DelayAssumption
  <1>1. CASE Derive
    BY <1>1, PlatformKeeps DEF Derive
  <1>2. CASE Create
    <2>1. PICK kind \in Kinds, o \in Options :
            LET recipe == IF kind \in {"recipe", "build only"} THEN Compile(template)
                          ELSE NoRequest.recipe
                r == [kind |-> kind, recipe |-> recipe, region |-> o.region]
            IN \/ recipe.steps # <<>> /\ Send("mutate", "build", r) /\ options' = o
                  /\ UNCHANGED created
               \/ recipe.steps = <<>> /\ kind # "build only"
                  /\ SendCreate(IF kind = "recipe"
                                THEN [r EXCEPT !.kind = "blank", !.recipe = NoRequest.recipe]
                                ELSE r, o)
      BY <1>2 DEF Create
    <2> DEFINE recipe == IF kind \in {"recipe", "build only"} THEN Compile(template) ELSE NoRequest.recipe
               r == [kind |-> kind, recipe |-> recipe, region |-> o.region]
               plain == [r EXCEPT !.kind = "blank", !.recipe = NoRequest.recipe]
    <2>2. plain.kind # "recipe" /\ (kind # "recipe" => r.kind # "recipe")
          /\ r \in Requests /\ plain \in Requests
      BY <1>0, RequestForms DEF Requests, Kinds, Options
    <2>3. (Send("mutate", "build", r) /\ UNCHANGED created)
          \/ (kind # "recipe" /\ SendCreate(r, o)) \/ SendCreate(plain, o)
      BY <2>1
    <2>4. call.stage = "none" /\ created.kind # "recipe"
      BY <1>0, <1>2 DEF Create, BuildInv
    <2> HIDE DEF r, plain
    <2>5. QED BY <2>2, <2>3, <2>4, SendKeeps, SendCreateKeeps
  <1>3. CASE CreateRefused \/ NeverReady \/ GiveUp \/ RequestFails \/ SandboxReady
    BY <1>3, EndKeeps DEF CreateRefused, NeverReady, GiveUp, RequestFails, SandboxReady
  <1>4. CASE BuildReady
    <2>1. CASE End("none") \/ End("argument")
      BY <2>1, EndKeeps
    <2>2. CASE /\ call' = [Idle EXCEPT !.stage = "mutate", !.request = call.request]
               /\ created' = CreateInput(call.request, options) /\ options' = NoOptions
               /\ elapsed' = 0 /\ overdue' = 0
               /\ UNCHANGED <<template, outcome, build>>
      <3>1. call'.stage = "mutate" /\ call'.of = "sandbox" /\ call'.answer = "none"
        BY <2>2 DEF Idle
      <3>2. /\ build.status = "READY" /\ build.input = BuildInput(call.request)
            /\ call'.request = call.request /\ UNCHANGED build
        BY <1>0, <1>4, <2>2 DEF BuildReady, IsReady, BuildInv, Idle
      <3>3. /\ created'.recipe = call.request.recipe /\ BuildInput(call.request).recipe = call.request.recipe
            /\ call.request.region # "empty" => BuildInput(call.request).region = call.request.region
        BY <1>0, <2>2, CallForms, InputForms DEF CreationTypeOK
      <3>4. TemplateFromBuild'
        BY <3>2, <3>3 DEF TemplateFromBuild
      <3>5. BuildInv' /\ TimeInv'
        BY <2>2, <3>1, <3>4 DEF BuildInv, TimeInv
      <3>6. QED BY <3>5
    <2>3. QED BY <1>4, <2>1, <2>2 DEF BuildReady
  <1>5. CASE BeginWait
    <2>1. call.stage = "mutate" /\ call.answer # "none" /\ elapsed = 0 /\ overdue = 0
      BY <1>0, <1>5 DEF BeginWait, Answered, TimeInv
    <2>2. QED BY <1>0, <1>a, <1>5, <2>1, SleepKeeps DEF BeginWait, BuildInv
  <1>6. CASE PollAgain
    <2>1. /\ call.stage = "poll" /\ call.answer # "none" /\ Pending(call.answer)
          /\ ~(elapsed >= ReadinessTimeout)
      BY <1>6 DEF PollAgain, Answered, TimedOut
    <2>2. elapsed < ReadinessTimeout /\ overdue <= MaxRequest
      BY <1>0, <1>a, <2>1, CallForms DEF TimeInv, CreationTypeOK
    <2>3. Backoff(call.delay) \in 0..PollMaxDelay
      BY <1>0, CallForms, BackoffType
    <2>4. QED BY <1>0, <1>6, <2>1, <2>2, <2>3, SleepKeeps DEF PollAgain, BuildInv
  <1>7. CASE Poll
    <2>1. /\ call.stage = "sleep" /\ call.left = 0 /\ call'.stage = "poll" /\ call'.left = 0
          /\ call'.answer = "none" /\ call'.of = call.of /\ call'.request = call.request
      BY <1>0, <1>7 DEF Poll, CreationTypeOK, TimeInv
    <2>2. UNCHANGED <<elapsed, overdue, build, created, sandbox>>
      BY <1>7 DEF Poll
    <2>3. BuildInv'
      BY <1>0, <2>1, <2>2 DEF BuildInv, TemplateFromBuild
    <2>4. Decided' = Decided
      BY <2>1, <2>2 DEF Decided
    <2>5. elapsed \in Nat /\ overdue \in Nat
      BY <1>0 DEF CreationTypeOK
    <2>6. TimeInv'
      BY <1>0, <1>a, <2>1, <2>2, <2>4, <2>5 DEF TimeInv
    <2>7. QED BY <2>3, <2>6
  <1>8. CASE Tick
    <2>1. /\ call'.stage = call.stage /\ call'.of = call.of /\ call'.answer = call.answer
          /\ call'.request = call.request /\ call.stage \in {"sleep", "poll"}
          /\ call.stage = "sleep" => call'.left = call.left - 1
          /\ call.stage = "poll" => call'.left = call.left + 1 /\ call.left < MaxRequest
      BY <1>0, <1>8 DEF Tick, CreationTypeOK
    <2>2. UNCHANGED <<build, created, sandbox>>
      BY <1>8 DEF Tick
    <2>3. BuildInv'
      BY <1>0, <2>1, <2>2 DEF BuildInv, TemplateFromBuild
    <2>4. Decided' = Decided
      BY <2>1, <2>2 DEF Decided
    <2>5. /\ elapsed \in Nat /\ overdue \in Nat /\ elapsed' \in {elapsed, elapsed + 1}
          /\ overdue' \in {overdue, overdue + 1} /\ (~Decided => overdue' = overdue)
          /\ call.left \in Nat
      BY <1>0, <1>8, CallForms DEF Tick, CreationTypeOK
    <2>6. CASE call.stage = "sleep"
      BY <1>0, <1>a, <2>1, <2>3, <2>4, <2>5, <2>6 DEF TimeInv
    <2>7. CASE call.stage = "poll"
      <3>1. Pending(call.answer)' <=> Pending(call.answer)
        BY <2>1 DEF Pending, IsReady, IsTerminal
      <3>2. QED BY <1>0, <1>a, <2>1, <2>3, <2>4, <2>5, <2>7, <3>1 DEF TimeInv
    <2>8. QED BY <2>1, <2>3, <2>6, <2>7
  <1>9. CASE ChangeOptions
    BY <1>9, PlatformKeeps DEF ChangeOptions
  <1>10. QED
    BY <1>1, <1>2, <1>3, <1>4, <1>5, <1>6, <1>7, <1>8, <1>9 DEF CreationStep

\* The steps of the platform and of the handle.
LEMMA OthersKeep ==
  ASSUME SInv, PlatformStep \/ HandleStep \/ UNCHANGED vars
  PROVE  BuildInv' /\ TimeInv'
  <1>0. CreationTypeOK /\ BuildInv /\ TimeInv
    BY DEF SInv
  <1> USE DEF createVars, sessionVars
  <1>1. CASE ServeBuild
    <2>1. PICK status \in BuildStatus : build' = [status |-> status, input |-> BuildInput(call.request)]
                                        /\ call' = [call EXCEPT !.answer = status]
      BY <1>1 DEF ServeBuild
    <2>2. /\ call.stage = "mutate" /\ call.of = "build" /\ overdue' = overdue /\ elapsed' = elapsed
          /\ created' = created
      BY <1>1 DEF ServeBuild, Unserved
    <2>3. call'.stage = "mutate" /\ call'.of = "build" /\ call'.request = call.request
          /\ call'.answer = status
      BY <1>0, <2>1, <2>2 DEF CreationTypeOK
    <2>4. build'.status = status /\ build'.input = BuildInput(call.request)
      BY <2>1
    <2>5. QED BY <1>0, <2>2, <2>3, <2>4 DEF BuildInv, TimeInv, TemplateFromBuild
  <1>2. CASE ServeCreate
    <2>1. /\ call.stage = "mutate" /\ call.of = "sandbox" /\ call'.stage = "mutate"
          /\ call'.of = "sandbox" /\ call'.request = call.request
          /\ UNCHANGED <<overdue, elapsed, created, build>>
      BY <1>0, <1>2 DEF ServeCreate, CreationTypeOK, Unserved
    <2>2. QED BY <1>0, <2>1 DEF BuildInv, TimeInv, TemplateFromBuild
  <1>3. CASE ServePoll
    <2>1. /\ call.stage = "poll" /\ call'.stage = "poll" /\ call'.of = call.of
          /\ call'.left = call.left /\ call'.request = call.request
          /\ call'.answer = IF call.of = "build" THEN build.status ELSE sandbox
          /\ UNCHANGED <<overdue, elapsed, created, build, sandbox>>
      BY <1>0, <1>3 DEF ServePoll, CreationTypeOK, Unserved
    <2>2. Decided' = Decided
      BY <2>1 DEF Decided
    <2>3. Pending(call.answer)' => ~Decided
      BY <1>0, <2>1 DEF Pending, IsReady, IsTerminal, Decided, CreationTypeOK, Rank
    <2>4. BuildInv'
      BY <1>0, <2>1 DEF BuildInv, TemplateFromBuild
    <2>5. call.left \in Nat
      BY <1>0, CallForms
    <2>6. TimeInv'
      BY <1>0, <2>1, <2>2, <2>3, <2>5 DEF TimeInv
    <2>7. QED BY <2>4, <2>6
  <1>4. CASE PlatformMoves
    BY <1>4, PlatformKeeps DEF PlatformMoves
  <1>5. CASE SessionStarts \/ SessionForgotten
    BY <1>5, PlatformKeeps DEF SessionStarts, SessionForgotten
  <1>6. CASE HandleStep
    <2>1. CASE \E c \in Callers : ServeDestroy(c)
      <3>1. sandbox' = sandbox \/ ("DESTROYING" \in NextStatus[sandbox] /\ sandbox' = "DESTROYING")
        BY <2>1 DEF ServeDestroy
      <3>2. UNCHANGED <<call, elapsed, overdue, created, build>>
        BY <2>1 DEF ServeDestroy
      <3>3. QED BY <3>1, <3>2, PlatformKeeps
    <2>2. CASE \E c \in Callers : (\E op \in Refreshing \cup {"destroy", "sessions"} : Invoke(c, op))
                                  \/ ServeStatus(c) \/ StatusArrives(c) \/ Ends(c) \/ PageArrives(c)
      BY <2>2, PlatformKeeps DEF Invoke, ServeStatus, StatusArrives, Ends, PageArrives
    <2>3. QED BY <1>6, <2>1, <2>2 DEF HandleStep
  <1>7. CASE UNCHANGED vars
    BY <1>7, PlatformKeeps DEF vars
  <1>8. QED BY <1>1, <1>2, <1>3, <1>4, <1>5, <1>6, <1>7 DEF PlatformStep

LEMMA CreationInit == Init => SInv
  <1> SUFFICES ASSUME Init PROVE SInv
    OBVIOUS
  <1>1. "absent" \in DOMAIN Rank /\ 0 \in Nat
    BY DEF Rank
  <1>2. EmptyState \in Recipes /\ NoRequest \in Requests
    BY DEF EmptyState, Recipes, Workdirs, NoRequest, Compile, Requests, Kinds, Regions
  <1>3. CreationTypeOK
    BY <1>1, <1>2, IdleType DEF Init, CreationTypeOK, NoBuild, NoOptions, Options, Regions
  <1>4. BuildInv /\ TimeInv
    BY DEF Init, Idle, NoRequest, BuildInv, TemplateFromBuild, TimeInv
  <1>5. QED BY <1>3, <1>4 DEF SInv

LEMMA CreationInvariant == Spec => []SInv
  <1>1. SInv /\ [Next]_vars => SInv'
    BY CreationType, CreationKeeps, OthersKeep DEF SInv, Next
  <1>2. QED BY CreationInit, <1>1, PTL DEF Spec

\* A creation's wait never runs past the timeout by more than a delay and a poll.
THEOREM WaitIsBounded == Spec => []WaitBounded
  <1>1. SInv => WaitBounded
    BY DelayAssumption, CallForms DEF SInv, CreationTypeOK, TimeInv, WaitBounded, MaxElapsed
  <1>2. QED BY <1>1, CreationInvariant, PTL

\* What a wait is for is noticed in time.
THEOREM Noticed == Spec => []NoticedInTime
  <1>1. SInv => NoticedInTime
    BY DelayAssumption, CallForms DEF SInv, CreationTypeOK, TimeInv, NoticedInTime
  <1>2. QED BY <1>1, CreationInvariant, PTL

\* A sandbox is created from the build that was waited for, or from none.
THEOREM FromBuild == Spec => []TemplateFromBuild
  <1>1. SInv => TemplateFromBuild
    BY DEF SInv, BuildInv
  <1>2. QED BY <1>1, CreationInvariant, PTL

\* The creation's state is of its types.
THEOREM CreationTypeCorrect == Spec => []CreationTypeOK
  <1>1. SInv => CreationTypeOK
    BY DEF SInv
  <1>2. QED BY <1>1, CreationInvariant, PTL

-----------------------------------------------------------------------------
(* The order of a listing.                                                 *)

Less == {ss \in Nat \X Nat : ss[1] < ss[2]}

\* A set of numbers has a least one: the induction of what follows.
LEMMA NatMin ==
  ASSUME NEW S \in SUBSET Nat, S # {}
  PROVE  \E n \in S : \A m \in S : n <= m
  <1>1. IsWellFoundedOn(Less, Nat)
    BY NatLessThanWellFounded DEF OpToRel, Less
  <1>2. PICK x \in S : \A y \in S : <<y, x>> \notin Less
    BY <1>1, WFMin
  <1>3. ASSUME NEW y \in S PROVE x <= y
    <2>1. <<y, x>> \notin Less
      BY <1>2
    <2>2. y \in Nat /\ x \in Nat
      OBVIOUS
    <2>3. QED BY <2>1, <2>2 DEF Less
  <1>4. QED BY <1>3

\* f lists the numbers of S, the smaller first.
Lists(f, S) ==
  /\ f \in [1..Cardinality(S) -> S]
  /\ \A x \in S : \E i \in 1..Cardinality(S) : f[i] = x
  /\ \A i, j \in 1..Cardinality(S) : i < j => f[i] < f[j]

\* One more number at the end of a list.
LEMMA ListsOneMore ==
  ASSUME NEW S \in SUBSET Nat, IsFiniteSet(S), NEW x \in Nat, \A y \in S : y < x,
         NEW f, Lists(f, S)
  PROVE  \E g : Lists(g, S \cup {x})
  <1> DEFINE T == S \cup {x}
             n == Cardinality(S)
             g == [i \in 1..n + 1 |-> IF i <= n THEN f[i] ELSE x]
  <1>1. n \in Nat /\ Cardinality(T) = n + 1
    <2>1. x \notin S
      OBVIOUS
    <2>2. QED BY <2>1, FS_CardinalityType, FS_AddElement
  <1>2. \A i \in 1..n : f[i] \in S
    BY DEF Lists
  <1>3. g \in [1..n + 1 -> T]
    <2>1. ASSUME NEW i \in 1..n + 1 PROVE (IF i <= n THEN f[i] ELSE x) \in T
      <3>1. CASE i <= n
        <4>1. i \in 1..n
          BY <1>1, <3>1
        <4>2. QED BY <1>2, <3>1, <4>1
      <3>2. CASE ~(i <= n)
        BY <3>2
      <3>3. QED BY <3>1, <3>2
    <2> HIDE DEF T
    <2>2. QED BY <2>1
  <1>4. \A i \in 1..n + 1 : g[i] = IF i <= n THEN f[i] ELSE x
    OBVIOUS
  <1> HIDE DEF g
  <1>5. ASSUME NEW y \in T PROVE \E i \in 1..n + 1 : g[i] = y
    <2>1. CASE y = x
      <3>1. n + 1 \in 1..n + 1 /\ ~(n + 1 <= n)
        BY <1>1
      <3>2. g[n + 1] = x
        BY <1>4, <3>1
      <3>3. QED BY <2>1, <3>1, <3>2
    <2>2. CASE y \in S
      <3>1. PICK i \in 1..n : f[i] = y
        BY <2>2 DEF Lists
      <3>2. i \in 1..n + 1 /\ i <= n
        BY <1>1, <3>1
      <3>3. g[i] = y
        BY <1>4, <3>1, <3>2
      <3>4. QED BY <3>2, <3>3
    <2>3. QED BY <2>1, <2>2
  <1>6. ASSUME NEW i \in 1..n + 1, NEW j \in 1..n + 1, i < j PROVE g[i] < g[j]
    <2>1. i \in 1..n /\ i <= n /\ g[i] = f[i] /\ f[i] \in S
      <3>1. i \in 1..n /\ i <= n
        BY <1>1, <1>6
      <3>2. QED BY <1>2, <1>4, <3>1
    <2>2. CASE j <= n
      <3>1. j \in 1..n /\ g[j] = f[j]
        BY <1>1, <1>4, <2>2
      <3>2. f[i] < f[j]
        BY <1>6, <2>1, <3>1 DEF Lists
      <3>3. QED BY <2>1, <3>1, <3>2
    <2>3. CASE ~(j <= n)
      BY <1>4, <2>1, <2>3
    <2>4. QED BY <2>2, <2>3
  <1>7. Lists(g, T)
    <2> HIDE DEF T, n
    <2>1. QED BY <1>1, <1>3, <1>5, <1>6 DEF Lists
  <1>8. QED BY <1>7

LEMMA ListsExist ==
  ASSUME NEW k \in Nat, NEW S \in SUBSET (1..k)
  PROVE  \E f : Lists(f, S)
  <1> DEFINE Upto(n) == {x \in S : x <= n}
             Bad == {n \in 0..k : ~\E f : Lists(f, Upto(n))}
  <1>0. \A x \in S : x \in Nat /\ 1 <= x /\ x <= k
    OBVIOUS
  <1>1. ASSUME Bad # {} PROVE FALSE
    <2>1. PICK n \in Bad : \A m \in Bad : n <= m
      <3>1. Bad \in SUBSET Nat
        OBVIOUS
      <3> HIDE DEF Bad
      <3>2. QED BY <1>1, <3>1, NatMin
    <2>2. n # 0
      <3>1. Upto(0) = {}
        <4>1. \A x \in S : ~(x <= 0)
          BY <1>0
        <4>2. QED BY <4>1
      <3>2. Lists([i \in 1..0 |-> 0], {})
        BY FS_EmptySet DEF Lists
      <3> HIDE DEF Upto
      <3>3. QED BY <2>1, <3>1, <3>2
    <2>3. n \in 1..k /\ n - 1 \in 0..k /\ ~(n <= n - 1)
      BY <2>2
    <2>4. n - 1 \notin Bad
      <3> HIDE DEF Bad
      <3>1. QED BY <2>1, <2>3
    <2> DEFINE P == Upto(n - 1)
    <2>5. PICK f : Lists(f, P)
      BY <2>3, <2>4
    <2>6. P \in SUBSET Nat /\ (\A y \in P : y < n) /\ n \in Nat
      <3>1. n \in Nat /\ \A y \in S : y \in Nat /\ (y <= n - 1 => y < n)
        BY <1>0, <2>3
      <3>2. \A y \in P : y \in S /\ y <= n - 1
        OBVIOUS
      <3> HIDE DEF P
      <3>3. QED BY <3>1, <3>2
    <2>7. IsFiniteSet(P)
      <3>1. IsFiniteSet(1..k)
        BY FS_Interval
      <3>2. P \subseteq 1..k
        OBVIOUS
      <3> HIDE DEF P
      <3>3. QED BY <3>1, <3>2, FS_Subset
    <2>8. Upto(n) = IF n \in S THEN P \cup {n} ELSE P
      <3>1. \A x \in S : x <= n <=> x <= n - 1 \/ x = n
        BY <1>0, <2>3
      <3>2. QED BY <3>1
    <2> HIDE DEF P, Upto
    <2>9. \E g : Lists(g, Upto(n))
      <3>1. CASE n \in S
        BY <2>5, <2>6, <2>7, <2>8, <3>1, ListsOneMore
      <3>2. CASE n \notin S
        BY <2>5, <2>8, <3>2
      <3>3. QED BY <3>1, <3>2
    <2>10. QED BY <2>1, <2>9 DEF Upto
  <1>2. Upto(k) = S
    BY <1>0
  <1>3. k \in 0..k
    OBVIOUS
  <1>4. k \notin Bad
    BY <1>1
  <1> HIDE DEF Upto
  <1>5. QED BY <1>2, <1>3, <1>4

LEMMA InOrderLists ==
  ASSUME NEW k \in Nat, NEW S \in SUBSET (1..k)
  PROVE  /\ Lists(InOrder(S), S) /\ InOrder(S) \in Seq(S)
         /\ Len(InOrder(S)) = Cardinality(S) /\ Cardinality(S) \in Nat
  <1>1. PICK f : Lists(f, S)
    BY ListsExist
  <1>2. f \in Surjection(1..Cardinality(S), S)
    BY <1>1 DEF Lists, Surjection
  <1>3. /\ InOrder(S) \in Surjection(1..Cardinality(S), S)
        /\ \A i, j \in 1..Cardinality(S) : i < j => InOrder(S)[i] < InOrder(S)[j]
    BY <1>1, <1>2 DEF InOrder, Lists
  <1>4. Lists(InOrder(S), S)
    BY <1>3 DEF Lists, Surjection
  <1>5. Cardinality(S) \in Nat
    <2>1. IsFiniteSet(1..k)
      BY FS_Interval
    <2>2. IsFiniteSet(S)
      BY <2>1, FS_Subset
    <2>3. QED BY <2>2, FS_CardinalityType
  <1>6. InOrder(S) \in [1..Cardinality(S) -> S]
    BY <1>4 DEF Lists
  <1>7. QED BY <1>4, <1>5, <1>6

-----------------------------------------------------------------------------
(* The listing of sessions over its pages.                                 *)

HandleCall ==
  [op: Refreshing \cup {"destroy", "sessions", "none"},
   stage: {"none", "sent", "answered", "done", "cut"},
   answer: DOMAIN Rank \cup {"none"}, alone: BOOLEAN,
   after: Nat, page: Nat, seen: Seq(Nat), there: SUBSET Nat]

HandleTypeOK ==
  /\ calls \in [Callers -> HandleCall]
  /\ born \in Nat /\ sessions \in SUBSET (1..born)

Increasing(f) == \A i, j \in 1..Len(f) : i < j => f[i] < f[j]

Has(f, y) == \E i \in 1..Len(f) : f[i] = y

\* What a listing has seen is in order and up to its cursor; of the sessions that
\* were there throughout, it has seen all up to the cursor.
SeenUpto(f, cursor, there) ==
  /\ Increasing(f)
  /\ \A i \in 1..Len(f) : f[i] <= cursor
  /\ \A y \in there : y <= cursor => Has(f, y)

Paging(x) ==
  /\ x.page < MaxSessionPages
  /\ x.there \subseteq sessions
  /\ SeenUpto(x.seen, x.after, x.there)
  /\ Len(x.seen) = x.page * PageSize

Whole(x) ==
  /\ Increasing(x.seen)
  /\ \/ x.stage = "done" /\ \A y \in x.there : Has(x.seen, y)
     \/ x.stage = "cut" /\ Len(x.seen) = MaxSessionPages * PageSize

PagingInv ==
  \A c \in Callers : calls[c].op = "sessions" =>
    \/ calls[c].stage = "sent" /\ Paging(calls[c])
    \/ Whole(calls[c])

SessionsInv == HandleTypeOK /\ PagingInv

\* A call on the handle that begins, or is over.
LEMMA CallStart ==
  ASSUME NEW op \in Refreshing \cup {"destroy", "sessions"}, NEW T \in SUBSET Nat
  PROVE  /\ NoCall \in HandleCall
         /\ [NoCall EXCEPT !.op = op, !.stage = "sent", !.there = T] \in HandleCall
  <1>1. <<>> \in Seq(Nat)
    OBVIOUS
  <1>2. QED BY <1>1 DEF NoCall, HandleCall, Refreshing, Rank

\* A list, and what comes after the cursor, in order.
LEMMA Continued ==
  ASSUME NEW f \in Seq(Nat), NEW g \in Seq(Nat), NEW cursor \in Nat, NEW there \in SUBSET Nat,
         SeenUpto(f, cursor, there), Increasing(g),
         \A i \in 1..Len(g) : g[i] > cursor,
         NEW end \in Nat, end >= cursor, \A i \in 1..Len(g) : g[i] <= end,
         \A y \in there : y > cursor /\ y <= end => Has(g, y)
  PROVE  f \o g \in Seq(Nat) /\ SeenUpto(f \o g, end, there)
  <1> DEFINE z == f \o g
  <1>1. PICK n \in Nat : n = Len(f)
    OBVIOUS
  <1>2. PICK m \in Nat : m = Len(g)
    OBVIOUS
  <1>3. z \in Seq(Nat) /\ Len(z) = n + m
    BY <1>1, <1>2, ConcatProperties
  <1>4. \A i \in 1..n + m : z[i] = IF i <= n THEN f[i] ELSE g[i - n]
    BY <1>1, <1>2, ConcatProperties
  <1> HIDE DEF z
  <1>5. (\A i \in 1..n : f[i] \in Nat /\ f[i] <= cursor) /\ (\A i \in 1..m : g[i] \in Nat /\ g[i] > cursor)
    BY <1>1, <1>2 DEF SeenUpto
  <1>6. ASSUME NEW i \in 1..n + m
        PROVE  \/ i \in 1..n /\ z[i] = f[i]
               \/ i - n \in 1..m /\ z[i] = g[i - n]
    <2>1. CASE i <= n
      BY <1>4, <2>1
    <2>2. CASE ~(i <= n)
      BY <1>4, <2>2
    <2>3. QED BY <2>1, <2>2
  <1>7. Increasing(z)
    <2>1. ASSUME NEW i \in 1..n + m, NEW j \in 1..n + m, i < j PROVE z[i] < z[j]
      <3>1. CASE j <= n
        <4>1. i \in 1..n /\ j \in 1..n /\ z[i] = f[i] /\ z[j] = f[j]
          BY <1>4, <2>1, <3>1
        <4>2. \A a, b \in 1..n : a < b => f[a] < f[b]
          BY <1>1 DEF SeenUpto, Increasing
        <4>3. QED BY <2>1, <4>1, <4>2
      <3>2. CASE ~(j <= n) /\ i <= n
        <4>1. i \in 1..n /\ j - n \in 1..m /\ z[i] = f[i] /\ z[j] = g[j - n]
          BY <1>4, <3>2
        <4>2. f[i] \in Nat /\ f[i] <= cursor /\ g[j - n] \in Nat /\ g[j - n] > cursor
          BY <1>5, <4>1
        <4>3. QED BY <4>1, <4>2
      <3>3. CASE ~(i <= n)
        <4>1. ~(j <= n) /\ i - n \in 1..m /\ j - n \in 1..m /\ i - n < j - n
          BY <2>1, <3>3
        <4>2. z[i] = g[i - n] /\ z[j] = g[j - n]
          BY <1>4, <3>3, <4>1
        <4>3. \A a, b \in 1..m : a < b => g[a] < g[b]
          BY <1>2 DEF Increasing
        <4>4. QED BY <4>1, <4>2, <4>3
      <3>4. QED BY <3>1, <3>2, <3>3
    <2>2. QED BY <1>3, <2>1 DEF Increasing
  <1>8. \A i \in 1..n + m : z[i] <= end
    <2>1. \A i \in 1..m : g[i] <= end
      BY <1>2
    <2>2. \A i \in 1..n : f[i] <= end
      BY <1>5
    <2>3. QED BY <1>6, <2>1, <2>2
  <1>9. ASSUME NEW y \in there, y <= end PROVE Has(z, y)
    <2>1. CASE y <= cursor
      <3>1. PICK i \in 1..n : f[i] = y
        BY <1>1, <2>1 DEF SeenUpto, Has
      <3>2. i \in 1..n + m /\ z[i] = f[i]
        BY <1>4, <3>1
      <3>3. QED BY <1>3, <3>1, <3>2 DEF Has
    <2>2. CASE ~(y <= cursor)
      <3>1. PICK i \in 1..m : g[i] = y
        BY <1>2, <1>9, <2>2 DEF Has
      <3>2. i + n \in 1..n + m /\ ~(i + n <= n) /\ (i + n) - n = i
        BY <3>1
      <3>3. z[i + n] = g[i]
        BY <1>4, <3>2
      <3>4. QED BY <1>3, <3>1, <3>2, <3>3 DEF Has
    <2>3. QED BY <2>1, <2>2
  <1>10. SeenUpto(z, end, there)
    BY <1>3, <1>7, <1>8, <1>9 DEF SeenUpto
  <1>11. QED BY <1>3, <1>10 DEF z

\* The sessions the platform lists after a cursor.
After(S, cursor) == {s \in S : s > cursor}

\* What a page holds, and what follows it.
IsPage(S, cursor, left, m, page) ==
  /\ page \in Seq(Nat) /\ Len(page) = m /\ Increasing(page)
  /\ \A i \in 1..m : page[i] > cursor
  /\ m > 0 => \A i \in 1..m : page[i] <= page[m]
  /\ m > 0 => \A y \in S : y > cursor /\ y <= page[m] => Has(page, y)
  /\ m = Len(left) => \A y \in S : y > cursor => Has(page, y)

Bounded(S) == \E k \in Nat : S \in SUBSET (1..k)

LEMMA PageForm ==
  ASSUME NEW S, Bounded(S), NEW cursor \in Nat,
         NEW left, left = InOrder(After(S, cursor)),
         NEW m \in Nat, m <= Len(left), NEW page, page = SubSeq(left, 1, m)
  PROVE  IsPage(S, cursor, left, m, page)
  <1> DEFINE L == After(S, cursor)
  <1>a. PICK k \in Nat : S \in SUBSET (1..k)
    BY DEF Bounded
  <1>0. \A s \in S : s \in Nat /\ s \in 1..k
    BY <1>a
  <1>1. \A s \in L : s \in Nat /\ s \in 1..k /\ s > cursor
    BY <1>0 DEF After
  <1>2. \A s \in S : s > cursor => s \in L
    BY DEF After
  <1>3. left = InOrder(L)
    OBVIOUS
  <1> HIDE DEF L
  <1>4. L \in SUBSET (1..k)
    BY <1>1
  <1>5. Lists(left, L) /\ Len(left) = Cardinality(L) /\ Cardinality(L) \in Nat
    BY <1>3, <1>4, InOrderLists
  <1>6. PICK n \in Nat : n = Len(left)
    BY <1>5
  <1>7. /\ \A i \in 1..n : left[i] \in L
        /\ \A i, j \in 1..n : i < j => left[i] < left[j]
        /\ \A s \in L : \E i \in 1..n : left[i] = s
    BY <1>5, <1>6 DEF Lists
  <1>8. m \in 0..n
    BY <1>6
  <1>9. \A i \in 1..m : i \in 1..n /\ left[i] \in L /\ left[i] \in Nat
    BY <1>1, <1>7, <1>8
  <1>10. page \in Seq(Nat) /\ Len(page) = m /\ \A i \in 1..m : page[i] = left[i]
    <2>1. /\ page \in Seq(Nat) /\ Len(page) = IF 1 <= m THEN m - 1 + 1 ELSE 0
          /\ \A i \in 1..m - 1 + 1 : page[i] = left[1 + i - 1]
      BY <1>9, SubSeqProperties
    <2>2. m - 1 + 1 = m /\ \A i \in 1..m : 1 + i - 1 = i
      OBVIOUS
    <2>3. QED BY <2>1, <2>2
  <1>11. Increasing(page) /\ \A i \in 1..m : page[i] > cursor
    BY <1>1, <1>7, <1>9, <1>10 DEF Increasing
  <1>12. ASSUME m > 0, NEW i \in 1..m PROVE page[i] <= page[m]
    <2>1. m \in 1..m /\ page[i] = left[i] /\ page[m] = left[m] /\ left[i] \in Nat
      BY <1>9, <1>10, <1>12
    <2>2. CASE i = m
      BY <2>1, <2>2
    <2>3. CASE i # m
      <3>1. i < m /\ i \in 1..n /\ m \in 1..n
        BY <1>8, <1>9, <2>1, <2>3
      <3>2. left[i] < left[m] /\ left[m] \in Nat
        BY <1>7, <1>9, <2>1, <3>1
      <3>3. QED BY <2>1, <3>2
    <2>4. QED BY <2>2, <2>3
  <1>13. ASSUME NEW y \in S, y > cursor, m = n \/ (m > 0 /\ y <= page[m])
         PROVE  Has(page, y)
    <2>1. PICK i \in 1..n : left[i] = y
      BY <1>2, <1>7, <1>13
    <2>2. i <= m
      <3>1. CASE m = n
        BY <2>1, <3>1
      <3>2. CASE m > 0 /\ y <= page[m]
        <4>1. SUFFICES ASSUME m < i PROVE FALSE
          BY <1>8, <2>1
        <4>2. m \in 1..m /\ m \in 1..n /\ page[m] = left[m] /\ left[m] \in Nat
          BY <1>8, <1>9, <1>10, <3>2
        <4>3. left[m] < left[i]
          BY <1>7, <2>1, <4>1, <4>2
        <4>4. y \in Nat
          BY <1>0
        <4>5. QED BY <2>1, <3>2, <4>2, <4>3, <4>4
      <3>3. QED BY <1>13, <3>1, <3>2
    <2>3. i \in 1..m /\ page[i] = y
      BY <1>10, <2>1, <2>2
    <2>4. QED BY <1>10, <2>3 DEF Has
  <1>14. m > 0 => \A i \in 1..m : page[i] <= page[m]
    BY <1>12
  <1>15. m > 0 => \A y \in S : y > cursor /\ y <= page[m] => Has(page, y)
    BY <1>13
  <1>16. m = Len(left) => \A y \in S : y > cursor => Has(page, y)
    BY <1>6, <1>13
  <1>17. QED BY <1>10, <1>11, <1>14, <1>15, <1>16 DEF IsPage

\* One page of a listing, from the call before it to the call after.
LEMMA OnePage ==
  ASSUME HandleTypeOK, NEW x \in HandleCall, Paging(x), x.stage = "sent",
         NEW left, left = InOrder(After(sessions, x.after)),
         NEW m, m = (IF Len(left) < PageSize THEN Len(left) ELSE PageSize),
         NEW page, page = SubSeq(left, 1, m),
         NEW more \in BOOLEAN, more <=> Len(left) > Len(page),
         NEW goesOn \in BOOLEAN, goesOn <=> more /\ x.page + 1 < MaxSessionPages,
         NEW y, y = [x EXCEPT !.seen = x.seen \o page, !.page = x.page + 1,
                              !.after = IF goesOn THEN Last(page) ELSE x.after,
                              !.stage = IF goesOn THEN "sent" ELSE IF more THEN "cut" ELSE "done"]
  PROVE  y \in HandleCall /\ IF goesOn THEN Paging(y) ELSE Whole(y)
  <1>1. /\ born \in Nat /\ sessions \in SUBSET (1..born)
        /\ MaxSessionPages \in Nat /\ PageSize \in Nat /\ PageSize > 0
    BY PagesAssumption DEF HandleTypeOK
  <1>2. PICK f \in Seq(Nat), cursor \in Nat, there \in SUBSET Nat, n \in Nat :
          f = x.seen /\ cursor = x.after /\ there = x.there /\ n = x.page
    BY DEF HandleCall
  <1>3. /\ n < MaxSessionPages /\ there \subseteq sessions /\ SeenUpto(f, cursor, there)
        /\ Len(f) = n * PageSize
    BY <1>2 DEF Paging
  <1>4. left = InOrder(After(sessions, cursor))
    BY <1>2
  <1>5. Len(left) \in Nat
    <2>1. After(sessions, cursor) \in SUBSET (1..born)
      BY <1>1 DEF After
    <2>2. QED BY <1>1, <1>4, <2>1, InOrderLists
  <1>6. m \in Nat /\ m <= Len(left) /\ (m < Len(left) => m > 0)
    BY <1>1, <1>5
  <1>7. /\ page \in Seq(Nat) /\ Len(page) = m /\ Increasing(page)
        /\ \A i \in 1..m : page[i] > cursor
        /\ m > 0 => \A i \in 1..m : page[i] <= page[m]
        /\ m > 0 => \A s \in sessions : s > cursor /\ s <= page[m] => Has(page, s)
        /\ m = Len(left) => \A s \in sessions : s > cursor => Has(page, s)
    <2>1. Bounded(sessions)
      BY <1>1 DEF Bounded
    <2>2. IsPage(sessions, cursor, left, m, page)
      BY <1>4, <1>6, <2>1, PageForm
    <2>3. QED BY <2>2 DEF IsPage
  <1>8. m > 0 => page[m] \in Nat /\ page[m] >= cursor /\ Last(page) = page[m]
    <2>1. SUFFICES ASSUME m > 0 PROVE page[m] \in Nat /\ page[m] >= cursor /\ Last(page) = page[m]
      OBVIOUS
    <2>2. m \in 1..m /\ m \in 1..Len(page)
      BY <1>6, <1>7, <2>1
    <2>3. page[m] > cursor /\ page[m] \in Nat
      BY <1>7, <2>2
    <2>4. Last(page) = page[m]
      BY <1>7 DEF Last
    <2>5. page[m] >= cursor
      <3>1. page[m] \in Nat /\ cursor \in Nat /\ page[m] > cursor
        BY <2>3
      <3>2. QED BY ONLY <3>1
    <2>6. QED BY <2>3, <2>4, <2>5
  <1>9. f \o page \in Seq(Nat) /\ Len(f \o page) = Len(f) + m
    BY <1>7, ConcatProperties
  <1>a. more => Len(f \o page) = (n + 1) * PageSize
    <2>1. SUFFICES ASSUME more PROVE n * PageSize + m = (n + 1) * PageSize
      BY <1>3, <1>9
    <2>2. m = PageSize
      BY <1>1, <1>5, <1>7, <2>1
    <2>3. n * PageSize + PageSize = (n + 1) * PageSize
      BY <1>1, <1>2
    <2>4. QED BY <2>2, <2>3
  <1>10. /\ y \in HandleCall /\ y.there = there /\ y.page = n + 1 /\ y.seen = f \o page
         /\ goesOn => y.after = page[m]
        /\ y.stage = IF goesOn THEN "sent" ELSE IF more THEN "cut" ELSE "done"
    <2>1. PICK after \in Nat : after = (IF goesOn THEN Last(page) ELSE x.after)
      <3>1. CASE goesOn
        <4>1. m > 0
          BY <1>5, <1>6, <1>7, <3>1
        <4>2. QED BY <1>8, <3>1, <4>1
      <3>2. CASE ~goesOn
        BY <1>2, <3>2
      <3>3. QED BY <3>1, <3>2
    <2>2. PICK stage \in {"sent", "cut", "done"} :
            stage = (IF goesOn THEN "sent" ELSE IF more THEN "cut" ELSE "done")
      OBVIOUS
    <2>3. PICK seen \in Seq(Nat) : seen = f \o page
      BY <1>9
    <2>4. PICK k \in Nat : k = n + 1
      OBVIOUS
    <2>5. y = [x EXCEPT !.seen = seen, !.page = k, !.after = after, !.stage = stage]
      BY <1>2, <2>1, <2>2, <2>3, <2>4
    <2>6. /\ y \in HandleCall /\ y.seen = seen /\ y.page = k /\ y.after = after
          /\ y.there = x.there /\ y.stage = stage
      BY <2>5 DEF HandleCall
    <2>7. goesOn => m > 0
      BY <1>5, <1>6, <1>7
    <2>8. QED BY <1>2, <1>8, <2>1, <2>2, <2>3, <2>4, <2>6, <2>7
  <1>11. CASE goesOn
    <2>1. m > 0 /\ n + 1 < MaxSessionPages
      BY <1>2, <1>6, <1>7, <1>11
    <2>2. SeenUpto(f \o page, page[m], there)
      <3>1. \A s \in there : s > cursor /\ s <= page[m] => Has(page, s)
        BY <1>3, <1>7, <2>1
      <3>2. \A i \in 1..Len(page) : page[i] > cursor /\ page[i] <= page[m]
        BY <1>7, <2>1
      <3>3. QED BY <1>3, <1>7, <1>8, <2>1, <3>1, <3>2, Continued
    <2>3. Paging(y)
      BY <1>3, <1>a, <1>10, <1>11, <2>1, <2>2 DEF Paging
    <2>4. QED BY <1>10, <1>11, <2>3
  <1>12. CASE ~goesOn
    <2>1. IF more THEN n + 1 = MaxSessionPages ELSE m = Len(left)
      BY <1>1, <1>2, <1>3, <1>5, <1>6, <1>7, <1>12
    <2>2. PICK end \in Nat : end >= cursor /\ (\A i \in 1..m : page[i] <= end)
                             /\ (m > 0 => end = page[m])
      <3>1. CASE m > 0
        <4>1. page[m] \in Nat /\ page[m] >= cursor /\ \A i \in 1..m : page[i] <= page[m]
          BY <1>7, <1>8, <3>1
        <4>2. QED BY <4>1
      <3>2. CASE m = 0
        <4>1. cursor >= cursor /\ \A i \in 1..m : page[i] <= cursor
          BY <3>2
        <4>2. QED BY <3>2, <4>1
      <3>3. QED BY <1>6, <3>1, <3>2
    <2>3. Increasing(f \o page) /\ (m = Len(left) => \A s \in there : Has(f \o page, s))
      <3>1. SeenUpto(f \o page, end, there \cap {s \in Nat : s <= end})
        <4> DEFINE T == there \cap {s \in Nat : s <= end}
        <4>1. T \in SUBSET Nat /\ SeenUpto(f, cursor, T)
          BY <1>3 DEF SeenUpto
        <4>2. \A s \in T : s > cursor /\ s <= end => Has(page, s)
          <5>1. \A s \in sessions : s > cursor /\ s <= end /\ m > 0 => Has(page, s)
            BY <1>7, <2>2
          <5>2. m = 0 /\ m = Len(left) => \A s \in sessions : s > cursor => Has(page, s)
            BY <1>7
          <5>3. m = 0 => m = Len(left)
            BY <1>1, <1>5, <1>6
          <5>4. QED BY <1>3, <1>6, <5>1, <5>2, <5>3
        <4>3. \A i \in 1..Len(page) : page[i] > cursor /\ page[i] <= end
          BY <1>7, <2>2
        <4> HIDE DEF T
        <4>4. SeenUpto(f \o page, end, T)
          BY <1>7, <2>2, <4>1, <4>2, <4>3, Continued
        <4>5. QED BY <4>4 DEF T
      <3>2. Increasing(f \o page)
        BY <3>1 DEF SeenUpto
      <3>3. ASSUME m = Len(left), NEW s \in there PROVE Has(f \o page, s)
        <4>1. s \in Nat /\ s \in sessions
          BY <1>3
        <4>2. s <= end
          <5>1. CASE s <= cursor
            BY <2>2, <4>1, <5>1
          <5>2. CASE ~(s <= cursor)
            <6>1. s > cursor
              BY <4>1, <5>2
            <6>2. Has(page, s)
              BY <1>7, <3>3, <4>1, <6>1
            <6>3. PICK i \in 1..m : page[i] = s
              BY <1>7, <6>2 DEF Has
            <6>4. QED BY <2>2, <6>3
          <5>3. QED BY <5>1, <5>2
        <4>3. QED BY <3>1, <4>1, <4>2 DEF SeenUpto
      <3>4. QED BY <3>2, <3>3
    <2>4. Whole(y)
      BY <1>a, <1>10, <1>12, <2>1, <2>3 DEF Whole
    <2>5. QED BY <1>10, <1>12, <2>4
  <1>13. QED BY <1>11, <1>12

\* A step in which no call on the handle moves, and no session is forgotten.
LEMMA StillSessions ==
  ASSUME SessionsInv, calls' = calls, sessions \subseteq sessions', born' \in Nat,
         sessions' \in SUBSET (1..born')
  PROVE  SessionsInv'
  BY DEF SessionsInv, HandleTypeOK, PagingInv, Paging, Whole

\* A step in which one call moves, and the sessions stay.
LEMMA OneCallMoves ==
  ASSUME SessionsInv, NEW c \in Callers, UNCHANGED sessionVars,
         NEW y \in HandleCall, calls' = [calls EXCEPT ![c] = y],
         y.op = "sessions" => \/ y.stage = "sent" /\ Paging(y)
                              \/ Whole(y)
  PROVE  SessionsInv'
  <1>1. calls' \in [Callers -> HandleCall] /\ calls'[c] = y
        /\ \A d \in Callers \ {c} : calls'[d] = calls[d]
    BY DEF SessionsInv, HandleTypeOK
  <1>2. UNCHANGED <<sessions, born>>
    BY DEF sessionVars
  <1>3. HandleTypeOK'
    BY <1>1, <1>2 DEF SessionsInv, HandleTypeOK
  <1>4. ASSUME NEW d \in Callers, calls'[d].op = "sessions"
        PROVE  \/ calls'[d].stage = "sent" /\ Paging(calls[d])'
               \/ Whole(calls'[d])
    <2>1. CASE d = c
      BY <1>1, <1>2, <1>4, <2>1 DEF Paging
    <2>2. CASE d # c
      BY <1>1, <1>2, <1>4, <2>2 DEF SessionsInv, PagingInv, Paging
    <2>3. QED BY <2>1, <2>2
  <1>5. PagingInv'
    BY <1>4 DEF PagingInv, Whole
  <1>6. QED BY <1>3, <1>5 DEF SessionsInv

\* A step that leaves the listings as they are.
LEMMA ListingsKeep ==
  ASSUME SessionsInv, UNCHANGED sessionVars, calls' \in [Callers -> HandleCall],
         \A d \in Callers : calls'[d].op = "sessions" =>
             /\ calls[d].op = "sessions" /\ calls'[d].stage = calls[d].stage
             /\ calls'[d].page = calls[d].page /\ calls'[d].there = calls[d].there
             /\ calls'[d].seen = calls[d].seen /\ calls'[d].after = calls[d].after
  PROVE  SessionsInv'
  <1>1. UNCHANGED <<sessions, born>>
    BY DEF sessionVars
  <1>2. HandleTypeOK'
    BY <1>1 DEF SessionsInv, HandleTypeOK
  <1>3. ASSUME NEW d \in Callers, calls'[d].op = "sessions"
        PROVE  \/ calls'[d].stage = "sent" /\ Paging(calls[d])'
               \/ Whole(calls'[d])
    BY <1>1, <1>3 DEF SessionsInv, PagingInv, Paging, Whole
  <1>4. PagingInv'
    BY <1>3 DEF PagingInv, Whole
  <1>5. QED BY <1>2, <1>4 DEF SessionsInv

LEMMA HandleKeepsSessions ==
  ASSUME SessionsInv, HandleStep, sandbox \in DOMAIN Rank
  PROVE  SessionsInv'
  <1>0. /\ calls \in [Callers -> HandleCall] /\ born \in Nat /\ sessions \in SUBSET (1..born)
        /\ sessions \in SUBSET Nat
    BY DEF SessionsInv, HandleTypeOK
  <1>1. ASSUME NEW c \in Callers, NEW op \in Refreshing \cup {"destroy", "sessions"}, Invoke(c, op)
        PROVE  SessionsInv'
    <2>1. PICK T \in SUBSET Nat : T = (IF op = "sessions" THEN sessions ELSE {})
      BY <1>0
    <2> DEFINE y == [NoCall EXCEPT !.op = op, !.stage = "sent", !.there = T]
    <2>2. y \in HandleCall /\ calls' = [calls EXCEPT ![c] = y] /\ UNCHANGED sessionVars
      BY <1>1, <2>1, CallStart DEF Invoke, sessionVars
    <2>3. /\ y.stage = "sent" /\ y.seen = <<>> /\ y.after = 0 /\ y.page = 0 /\ y.there = T
          /\ y.op = op
      BY DEF NoCall
    <2>4. op = "sessions" => Paging(y)
      <3>1. \A s \in sessions : ~(s <= 0)
        BY <1>0
      <3>2. MaxSessionPages \in Nat /\ 0 < MaxSessionPages
        BY PagesAssumption
      <3>a. PageSize \in Nat /\ 0 * PageSize = 0 /\ Len(<<>>) = 0
        BY PagesAssumption
      <3> HIDE DEF y
      <3>3. Len(y.seen) = y.page * PageSize
        BY <2>3, <3>a
      <3>4. op = "sessions" => y.there \subseteq sessions
        BY <2>1, <2>3
      <3>5. op = "sessions" => SeenUpto(y.seen, y.after, y.there)
        <4>1. SeenUpto(<<>>, 0, sessions)
          BY <3>1 DEF SeenUpto, Increasing
        <4>2. QED BY <2>1, <2>3, <4>1
      <3>6. QED BY <2>3, <3>2, <3>3, <3>4, <3>5 DEF Paging
    <2> HIDE DEF y
    <2>5. QED BY <2>2, <2>3, <2>4, OneCallMoves
  <1>2. ASSUME NEW c \in Callers, ServeStatus(c) PROVE SessionsInv'
    <2> DEFINE y == [calls[c] EXCEPT !.stage = "answered", !.answer = sandbox]
    <2>1. y \in HandleCall /\ y.op \in Refreshing
      BY <1>0, <1>2 DEF ServeStatus, HandleCall
    <2>2. calls' = [calls EXCEPT ![c] = y] /\ UNCHANGED sessionVars
      BY <1>0, <1>2 DEF ServeStatus, sessionVars
    <2> HIDE DEF y
    <2>3. QED BY <2>1, <2>2, OneCallMoves DEF Refreshing
  <1>3. ASSUME NEW c \in Callers, ServeDestroy(c) PROVE SessionsInv'
    <2> DEFINE y == [calls[c] EXCEPT !.stage = "answered"]
    <2>1. y \in HandleCall /\ y.op = "destroy"
      BY <1>0, <1>3 DEF ServeDestroy, HandleCall
    <2>2. calls' = [calls EXCEPT ![c] = y] /\ UNCHANGED sessionVars
      BY <1>0, <1>3 DEF ServeDestroy, sessionVars
    <2> HIDE DEF y
    <2>3. QED BY <2>1, <2>2, OneCallMoves
  <1>4. ASSUME NEW c \in Callers, StatusArrives(c) PROVE SessionsInv'
    <2>1. /\ UNCHANGED sessionVars
          /\ calls' = [d \in Callers |->
                         IF d = c THEN NoCall
                         ELSE [calls[d] EXCEPT !.alone = calls[d].stage \in Over]]
      BY <1>4 DEF StatusArrives
    <2>2. NoCall \in HandleCall /\ NoCall.op # "sessions"
      BY CallStart DEF NoCall
    <2>3. ASSUME NEW d \in Callers, NEW a \in BOOLEAN
          PROVE  LET z == [calls[d] EXCEPT !.alone = a]
                 IN  /\ z \in HandleCall /\ z.op = calls[d].op /\ z.stage = calls[d].stage
                     /\ z.page = calls[d].page /\ z.there = calls[d].there
                     /\ z.seen = calls[d].seen /\ z.after = calls[d].after
      BY <1>0 DEF HandleCall
    <2>4. ASSUME NEW d \in Callers, d # c
          PROVE  \E a \in BOOLEAN : calls'[d] = [calls[d] EXCEPT !.alone = a]
      <3>1. calls'[d] = [calls[d] EXCEPT !.alone = (calls[d].stage \in Over)]
        BY <2>1, <2>4
      <3>2. CASE calls[d].stage \in Over
        <4>1. (calls[d].stage \in Over) = TRUE
          BY <3>2
        <4>2. QED BY <3>1, <4>1
      <3>3. CASE ~(calls[d].stage \in Over)
        <4>1. (calls[d].stage \in Over) = FALSE
          BY <3>3
        <4>2. QED BY <3>1, <4>1
      <3>4. QED BY <3>2, <3>3
    <2>5. calls' \in [Callers -> HandleCall]
      <3>1. \A d \in Callers : calls'[d] \in HandleCall
        <4>1. calls'[c] \in HandleCall
          BY <2>1, <2>2
        <4>2. ASSUME NEW d \in Callers, d # c PROVE calls'[d] \in HandleCall
          BY <2>3, <2>4, <4>2
        <4>3. QED BY <4>1, <4>2
      <3>2. DOMAIN calls' = Callers /\ calls' = [d \in Callers |-> calls'[d]]
        BY <2>1
      <3>3. QED BY <3>1, <3>2
    <2>6. ASSUME NEW d \in Callers, calls'[d].op = "sessions"
          PROVE  /\ calls[d].op = "sessions" /\ calls'[d].stage = calls[d].stage
                 /\ calls'[d].page = calls[d].page /\ calls'[d].there = calls[d].there
                 /\ calls'[d].seen = calls[d].seen /\ calls'[d].after = calls[d].after
      <3>1. d # c
        BY <2>1, <2>2, <2>6
      <3>2. PICK a \in BOOLEAN : calls'[d] = [calls[d] EXCEPT !.alone = a]
        BY <2>4, <3>1
      <3>3. QED BY <2>3, <2>6, <3>2
    <2>7. QED BY <2>1, <2>5, <2>6, ListingsKeep
  <1>5. ASSUME NEW c \in Callers, Ends(c) PROVE SessionsInv'
    <2>1. calls' = [calls EXCEPT ![c] = NoCall] /\ UNCHANGED sessionVars
      BY <1>5 DEF Ends, sessionVars
    <2>2. NoCall \in HandleCall /\ NoCall.op # "sessions"
      BY CallStart DEF NoCall
    <2>3. QED BY <2>1, <2>2, OneCallMoves
  <1>6. ASSUME NEW c \in Callers, PageArrives(c) PROVE SessionsInv'
    <2> DEFINE x == calls[c]
               left == InOrder({s \in sessions : s > x.after})
               m == IF Len(left) < PageSize THEN Len(left) ELSE PageSize
               page == SubSeq(left, 1, m)
               more == Len(left) > Len(page)
               goesOn == more /\ x.page + 1 < MaxSessionPages
               y == [x EXCEPT !.seen = x.seen \o page, !.page = x.page + 1,
                              !.after = IF goesOn THEN Last(page) ELSE x.after,
                              !.stage = IF goesOn THEN "sent" ELSE IF more THEN "cut" ELSE "done"]
    <2>1. x \in HandleCall /\ x.stage = "sent" /\ x.op = "sessions"
      BY <1>0, <1>6 DEF PageArrives
    <2>2. Paging(x) /\ HandleTypeOK
      BY <2>1 DEF SessionsInv, PagingInv, Whole
    <2>3. calls' = [calls EXCEPT ![c] = y] /\ UNCHANGED sessionVars
      BY <1>0, <1>6 DEF PageArrives, sessionVars, NextCursor
    <2>4. left = InOrder(After(sessions, x.after))
      BY DEF After
    <2>5. goesOn \in BOOLEAN /\ more \in BOOLEAN
      OBVIOUS
    <2>6. y.op = x.op /\ (goesOn => y.stage = "sent")
      BY <2>1 DEF HandleCall
    <2>7. y \in HandleCall /\ IF goesOn THEN Paging(y) ELSE Whole(y)
      BY <2>1, <2>2, <2>4, <2>5, OnePage
    <2> HIDE DEF y, goesOn, more, page, m, left
    <2>8. QED BY <2>1, <2>3, <2>6, <2>7, OneCallMoves
  <1>7. QED BY <1>1, <1>2, <1>3, <1>4, <1>5, <1>6 DEF HandleStep

\* A session that is forgotten was not there throughout, for the listings under way.
LEMMA ForgottenKeeps ==
  ASSUME SessionsInv, SessionForgotten
  PROVE  SessionsInv'
  <1>1. PICK s \in sessions :
          /\ sessions' = sessions \ {s}
          /\ calls' = [c \in Callers |->
                         IF calls[c].stage = "sent" THEN [calls[c] EXCEPT !.there = @ \ {s}]
                         ELSE calls[c]]
    BY DEF SessionForgotten
  <1>2. born' = born
    BY DEF SessionForgotten
  <1>3. /\ calls \in [Callers -> HandleCall] /\ born \in Nat /\ sessions \in SUBSET (1..born)
    BY DEF SessionsInv, HandleTypeOK
  <1>4. ASSUME NEW c \in Callers
        PROVE  LET x == calls[c]  y == calls'[c]
               IN  /\ y \in HandleCall /\ y.op = x.op /\ y.stage = x.stage
                   /\ y.page = x.page /\ y.seen = x.seen /\ y.after = x.after
                   /\ x.stage # "sent" => y = x
                   /\ x.stage = "sent" => y.there = x.there \ {s}
    <2>1. calls[c] \in HandleCall
      BY <1>3
    <2>2. CASE calls[c].stage = "sent"
      <3>1. calls'[c] = [calls[c] EXCEPT !.there = calls[c].there \ {s}]
        BY <1>1, <2>2
      <3>2. QED BY <2>1, <2>2, <3>1 DEF HandleCall
    <2>3. CASE calls[c].stage # "sent"
      BY <1>1, <2>1, <2>3
    <2>4. QED BY <2>2, <2>3
  <1>5. HandleTypeOK'
    BY <1>1, <1>2, <1>3, <1>4 DEF HandleTypeOK
  <1>6. ASSUME NEW c \in Callers, calls'[c].op = "sessions", calls[c].stage = "sent"
        PROVE  calls'[c].stage = "sent" /\ Paging(calls[c])'
    <2>1. Paging(calls[c])
      BY <1>4, <1>6 DEF SessionsInv, PagingInv, Whole
    <2>2. calls'[c].there \subseteq sessions' /\ calls'[c].there \subseteq calls[c].there
      BY <1>1, <1>4, <1>6, <2>1 DEF Paging
    <2>3. SeenUpto(calls'[c].seen, calls'[c].after, calls'[c].there)
      BY <1>4, <2>1, <2>2 DEF Paging, SeenUpto
    <2>4. QED BY <1>4, <1>6, <2>1, <2>2, <2>3 DEF Paging
  <1>7. ASSUME NEW c \in Callers, calls'[c].op = "sessions", calls[c].stage # "sent"
        PROVE  Whole(calls'[c])
    BY <1>4, <1>7 DEF SessionsInv, PagingInv
  <1>8. PagingInv'
    BY <1>6, <1>7 DEF PagingInv, Whole
  <1>9. QED BY <1>5, <1>8 DEF SessionsInv

LEMMA SessionsNext == SInv /\ SessionsInv /\ [Next]_vars => SessionsInv'
  <1> SUFFICES ASSUME SInv, SessionsInv, [Next]_vars PROVE SessionsInv'
    OBVIOUS
  <1> USE DEF sessionVars
  <1>1. /\ born \in Nat /\ sessions \in SUBSET (1..born) /\ sandbox \in DOMAIN Rank
    BY DEF SInv, CreationTypeOK, SessionsInv, HandleTypeOK
  <1>2. ASSUME UNCHANGED <<sessionVars, calls>> PROVE SessionsInv'
    BY <1>1, <1>2, StillSessions
  <1>3. CASE CreationStep
    BY <1>2, <1>3 DEF CreationStep, Derive, Create, ChangeOptions, CreateRefused, BuildReady, SandboxReady,
       NeverReady, BeginWait, Poll, PollAgain, GiveUp, RequestFails, Tick
  <1>4. CASE ServeBuild \/ ServeCreate \/ ServePoll \/ PlatformMoves
    BY <1>2, <1>4 DEF ServeBuild, ServeCreate, ServePoll, PlatformMoves
  <1>5. CASE SessionStarts
    <2>1. /\ calls' = calls /\ born' = born + 1 /\ sessions' = sessions \cup {born + 1}
      BY <1>5 DEF SessionStarts
    <2>2. born' \in Nat /\ sessions' \in SUBSET (1..born') /\ sessions \subseteq sessions'
      BY <1>1, <2>1
    <2>3. QED BY <2>1, <2>2, StillSessions
  <1>6. CASE SessionForgotten
    BY <1>6, ForgottenKeeps
  <1>7. CASE HandleStep
    BY <1>1, <1>7, HandleKeepsSessions
  <1>8. CASE UNCHANGED vars
    BY <1>2, <1>8 DEF vars
  <1>9. QED BY <1>3, <1>4, <1>5, <1>6, <1>7, <1>8 DEF Next, PlatformStep

LEMMA SessionsInit == Init => SessionsInv
  <1> SUFFICES ASSUME Init PROVE SessionsInv
    OBVIOUS
  <1>1. NoCall \in HandleCall /\ NoCall.op # "sessions"
    BY CallStart DEF NoCall
  <1>2. calls = [c \in Callers |-> NoCall] /\ sessions = {} /\ born = 0
    BY DEF Init
  <1> HIDE DEF NoCall
  <1>3. QED BY <1>1, <1>2 DEF SessionsInv, HandleTypeOK, PagingInv

LEMMA WholeIsWhole == SessionsInv => SessionsWhole
  <1> SUFFICES ASSUME SessionsInv, NEW c \in Callers, calls[c].op = "sessions",
                      calls[c].stage \in {"done", "cut"}
               PROVE  /\ IsInjective(calls[c].seen)
                      /\ IF calls[c].stage = "done" THEN calls[c].there \subseteq ToSet(calls[c].seen)
                         ELSE Len(calls[c].seen) = MaxSessionPages * PageSize
    BY DEF SessionsWhole
  <1>1. Whole(calls[c]) /\ calls[c].seen \in Seq(Nat)
    BY DEF SessionsInv, PagingInv, HandleTypeOK, HandleCall
  <1>2. PICK f \in Seq(Nat), n \in Nat : f = calls[c].seen /\ n = Len(f)
    BY <1>1
  <1>3. DOMAIN f = 1..n /\ (\A i \in 1..n : f[i] \in Nat) /\ \A i, j \in 1..n : i < j => f[i] < f[j]
    BY <1>1, <1>2 DEF Whole, Increasing
  <1>4. IsInjective(f)
    <2>1. ASSUME NEW i \in 1..n, NEW j \in 1..n, f[i] = f[j] PROVE i = j
      BY <1>3, <2>1
    <2>2. QED BY <1>3, <2>1 DEF IsInjective
  <1>5. ASSUME NEW y \in calls[c].there, Has(f, y) PROVE y \in ToSet(f)
    <2>1. PICK i \in 1..n : f[i] = y
      BY <1>2, <1>5 DEF Has
    <2>2. QED BY <1>2, <1>3, <2>1 DEF ToSet
  <1>6. QED BY <1>1, <1>2, <1>4, <1>5 DEF Whole

\* The cursor loop of sessions(): what is on the list throughout is listed once, while
\* sessions start and are forgotten between the pages, for every size of a page.
THEOREM ListingIsWhole == Spec => []SessionsWhole
  <1>1. Spec => []SessionsInv
    BY SessionsInit, SessionsNext, CreationInvariant, PTL DEF Spec
  <1>2. QED BY <1>1, WholeIsWhole, PTL

-----------------------------------------------------------------------------
(* The status a handle shows.                                              *)

UnderWay(x) == x.stage = "answered" /\ x.op \in Refreshing

\* What the handle shows, and the answers on their way to it, are not newer than the
\* sandbox; and an answer that no other has overtaken is not older than what is shown.
ShownInv ==
  /\ call.stage # "none" => outcome = "none"
  /\ info # "none" => outcome # "none" /\ info \in DOMAIN Rank /\ Rank[info] <= Rank[sandbox]
  /\ call.of = "sandbox" /\ call.answer # "none" =>
       call.answer \in DOMAIN Rank /\ Rank[call.answer] <= Rank[sandbox]
  /\ \A c \in Callers : calls[c].stage \in {"sent", "answered"} => outcome # "none"
  /\ \A c \in Callers : UnderWay(calls[c]) =>
       /\ calls[c].answer \in DOMAIN Rank
       /\ Rank[calls[c].answer] <= Rank[sandbox]
       /\ calls[c].alone /\ info # "none" => Rank[info] <= Rank[calls[c].answer]

LEMMA RankGrows ==
  ASSUME NEW s \in DOMAIN Rank
  PROVE  /\ Rank[s] \in Nat
         /\ \A t \in NextStatus[s] : t \in DOMAIN Rank /\ Rank[s] <= Rank[t]
  BY DEF Rank, NextStatus

LEMMA RankOrder ==
  ASSUME NEW s \in DOMAIN Rank, NEW t \in DOMAIN Rank, NEW u \in DOMAIN Rank,
         Rank[s] <= Rank[t], Rank[t] <= Rank[u]
  PROVE  Rank[s] <= Rank[u]
  <1>1. Rank[s] \in Nat /\ Rank[t] \in Nat /\ Rank[u] \in Nat
    BY RankGrows
  <1>2. QED BY <1>1

\* The sandbox moves on, or nothing does.
LEMMA ShownWhileMoving ==
  ASSUME ShownInv, sandbox \in DOMAIN Rank, UNCHANGED <<calls, info, outcome, call>>,
         sandbox' = sandbox \/ sandbox' \in NextStatus[sandbox]
  PROVE  ShownInv'
  <1>1. sandbox' \in DOMAIN Rank /\ Rank[sandbox] <= Rank[sandbox']
    BY RankGrows
  <1>2. \A s \in DOMAIN Rank : Rank[s] <= Rank[sandbox] => Rank[s] <= Rank[sandbox']
    BY <1>1, RankOrder
  <1>3. QED BY <1>2 DEF ShownInv, UnderWay

\* A step of a creation: there is no handle yet, or this step makes it.
LEMMA ShownInCreation ==
  ASSUME ShownInv, outcome = "none", calls' = calls,
         call'.stage # "none" => outcome' = "none",
         \/ info' = info
         \/ /\ outcome' # "none"
            /\ info' \in DOMAIN Rank /\ Rank[info'] <= Rank[sandbox'],
         call'.of = "sandbox" /\ call'.answer # "none" =>
            call'.answer \in DOMAIN Rank /\ Rank[call'.answer] <= Rank[sandbox']
  PROVE  ShownInv'
  <1>1. info = "none" /\ \A c \in Callers : calls[c].stage \notin {"sent", "answered"}
    BY DEF ShownInv
  <1>2. QED BY <1>1 DEF ShownInv, UnderWay

LEMMA ShownCreationStep ==
  ASSUME SInv, ShownInv, CreationStep
  PROVE  ShownInv'
  <1>1. calls' = calls /\ sandbox' = sandbox
    BY DEF CreationStep, Derive, Create, ChangeOptions, CreateRefused, BuildReady, SandboxReady,
       NeverReady, BeginWait, Poll, PollAgain, GiveUp, RequestFails, Tick
  <1>2. call.stage # "none" => outcome = "none"
    BY DEF ShownInv
  <1>3. call.answer # "none" => call.stage # "none"
    BY DEF SInv, BuildInv
  <1>4. CreationTypeOK
    BY DEF SInv
  <1>5. ASSUME outcome = "none", info' = info, NEW r, End(r) PROVE ShownInv'
    <2>1. call'.stage = "none" /\ call'.answer = "none"
      BY <1>5 DEF End, Idle
    <2>2. QED BY <1>1, <1>5, <2>1, ShownInCreation
  <1>6. ASSUME outcome = "none", outcome' = outcome, info' = info, call'.answer = "none"
        PROVE  ShownInv'
    BY <1>1, <1>6, ShownInCreation
  <1>7. CASE Derive
    BY <1>1, <1>4, <1>7, ShownWhileMoving DEF Derive, CreationTypeOK
  <1>8. CASE Create
    <2>1. outcome = "none" /\ info' = info
      BY <1>8 DEF Create
    <2>2. \E r : End(r) \/ Send("mutate", "build", r) \/ Send("mutate", "sandbox", r)
      BY <1>8 DEF Create, SendCreate
    <2>3. ASSUME NEW of, NEW r, Send("mutate", of, r)
          PROVE  outcome' = outcome /\ call'.answer = "none"
      BY <1>4, <2>3 DEF Send, CreationTypeOK
    <2>4. QED BY <1>5, <1>6, <2>1, <2>2, <2>3
  <1>9. CASE CreateRefused \/ NeverReady \/ GiveUp \/ RequestFails
    <2>1. info' = info /\ outcome = "none"
      BY <1>2, <1>3, <1>9 DEF CreateRefused, NeverReady, GiveUp, RequestFails, Answered
    <2>2. \E r : End(r)
      BY <1>9 DEF CreateRefused, NeverReady, GiveUp, RequestFails
    <2>3. QED BY <1>5, <2>1, <2>2
  <1>10. CASE BuildReady
    <2>1. outcome = "none" /\ info' = info
      BY <1>2, <1>3, <1>10 DEF BuildReady
    <2>2. (\E r : End(r)) \/ (outcome' = outcome /\ call'.answer = "none")
      BY <1>10 DEF BuildReady, Idle
    <2>3. QED BY <1>5, <1>6, <2>1, <2>2
  <1>11. CASE SandboxReady
    <2>1. /\ outcome = "none" /\ call.of = "sandbox" /\ call.answer # "none"
          /\ info' = call.answer /\ End("handle")
      BY <1>2, <1>3, <1>11 DEF SandboxReady
    <2>2. info' \in DOMAIN Rank /\ Rank[info'] <= Rank[sandbox']
      BY <1>1, <2>1 DEF ShownInv
    <2>3. outcome' = "handle" /\ call'.stage = "none" /\ call'.answer = "none"
      BY <2>1 DEF End, Idle
    <2>4. QED BY <1>1, <2>1, <2>2, <2>3, ShownInCreation
  <1>12. CASE BeginWait \/ PollAgain
    <2>1. info' = info /\ outcome' = outcome /\ outcome = "none"
      BY <1>2, <1>3, <1>12 DEF BeginWait, PollAgain, Answered, Sleep
    <2>2. call'.answer = "none"
      BY <1>4, <1>12 DEF BeginWait, PollAgain, Sleep, CreationTypeOK
    <2>3. QED BY <1>6, <2>1, <2>2
  <1>13. CASE Poll \/ Tick
    <2>1. /\ info' = info /\ outcome' = outcome /\ outcome = "none"
          /\ call'.answer = call.answer /\ call'.of = call.of
      BY <1>2, <1>4, <1>13 DEF Poll, Tick, CreationTypeOK
    <2>2. QED BY <1>1, <2>1, ShownInCreation DEF ShownInv
  <1>14. CASE ChangeOptions
    BY <1>1, <1>4, <1>14, ShownWhileMoving DEF ChangeOptions, CreationTypeOK
  <1>15. QED
    BY <1>14, <1>7, <1>8, <1>9, <1>10, <1>11, <1>12, <1>13 DEF CreationStep

LEMMA ShownPlatformStep ==
  ASSUME SInv, ShownInv, PlatformStep, SessionsInv
  PROVE  ShownInv'
  <1>1. CreationTypeOK /\ sandbox \in DOMAIN Rank
    BY DEF SInv, CreationTypeOK
  <1>2. call.stage # "none" => outcome = "none"
    BY DEF ShownInv
  <1>3. CASE ServeBuild
    <2>1. /\ UNCHANGED <<calls, info, outcome, sandbox>> /\ outcome = "none"
          /\ call'.of = "build" /\ call'.stage = "mutate"
      BY <1>1, <1>2, <1>3 DEF ServeBuild, Unserved, CreationTypeOK
    <2>2. QED BY <2>1, ShownInCreation
  <1>4. CASE ServeCreate
    <2>1. PICK status \in {"CREATING", "RUNNING", "FAILED"} :
            sandbox' = status /\ call' = [call EXCEPT !.answer = status]
      BY <1>4 DEF ServeCreate
    <2>2. UNCHANGED <<calls, info, outcome>> /\ outcome = "none" /\ call'.answer = status
      BY <1>1, <1>2, <1>4, <2>1 DEF ServeCreate, Unserved, CreationTypeOK
    <2>3. status \in DOMAIN Rank /\ Rank[status] <= Rank[status]
      BY <2>1, RankGrows DEF Rank
    <2>4. QED BY <2>1, <2>2, <2>3, ShownInCreation
  <1>5. CASE ServePoll
    <2>1. /\ UNCHANGED <<calls, info, outcome, sandbox>> /\ outcome = "none"
          /\ call'.of = call.of
          /\ call'.answer = IF call.of = "build" THEN build.status ELSE sandbox
      BY <1>1, <1>2, <1>5 DEF ServePoll, Unserved, CreationTypeOK
    <2>2. Rank[sandbox] <= Rank[sandbox]
      BY <1>1, RankGrows
    <2>3. QED BY <1>1, <2>1, <2>2, ShownInCreation
  <1>6. CASE PlatformMoves
    BY <1>1, <1>6, ShownWhileMoving DEF PlatformMoves
  <1>7. CASE SessionStarts
    BY <1>1, <1>7, ShownWhileMoving DEF SessionStarts, createVars
  <1>8. CASE SessionForgotten
    <2>1. UNCHANGED <<sandbox, info, outcome, call>>
      BY <1>8 DEF SessionForgotten, createVars
    <2>2. ASSUME NEW c \in Callers
          PROVE  /\ calls'[c].stage = calls[c].stage /\ calls'[c].op = calls[c].op
                 /\ calls'[c].answer = calls[c].answer /\ calls'[c].alone = calls[c].alone
      <3>1. calls[c] \in HandleCall
        BY DEF SessionsInv, HandleTypeOK
      <3>2. \/ calls'[c] = calls[c]
            \/ \E T : calls'[c] = [calls[c] EXCEPT !.there = T]
        BY <1>8 DEF SessionForgotten
      <3>3. QED BY <3>1, <3>2 DEF HandleCall
    <2>3. QED BY <2>1, <2>2 DEF ShownInv, UnderWay
  <1>9. QED BY <1>3, <1>4, <1>5, <1>6, <1>7, <1>8, Zenon DEF PlatformStep

\* One call moves: the others, the handle and the sandbox stay.
LEMMA ShownWhileCalling ==
  ASSUME SessionsInv, ShownInv, NEW c \in Callers, NEW y, calls' = [calls EXCEPT ![c] = y],
         UNCHANGED <<info, outcome, call, sandbox>>,
         y.stage \in {"sent", "answered"} => outcome # "none",
         UnderWay(y) => /\ y.answer \in DOMAIN Rank
                        /\ Rank[y.answer] <= Rank[sandbox]
                        /\ y.alone /\ info # "none" => Rank[info] <= Rank[y.answer]
  PROVE  ShownInv'
  <1>1. calls'[c] = y /\ \A d \in Callers \ {c} : calls'[d] = calls[d]
    BY DEF SessionsInv, HandleTypeOK
  <1>2. ASSUME NEW d \in Callers
        PROVE  /\ calls'[d].stage \in {"sent", "answered"} => outcome # "none"
               /\ UnderWay(calls'[d]) =>
                    /\ calls'[d].answer \in DOMAIN Rank
                    /\ Rank[calls'[d].answer] <= Rank[sandbox]
                    /\ calls'[d].alone /\ info # "none" => Rank[info] <= Rank[calls'[d].answer]
    <2>1. CASE d = c
      BY <1>1, <2>1
    <2>2. CASE d # c
      BY <1>1, <2>2 DEF ShownInv
    <2>3. QED BY <2>1, <2>2
  <1>3. QED BY <1>2 DEF ShownInv, UnderWay

LEMMA ShownHandleStep ==
  ASSUME SInv, ShownInv, SessionsInv, HandleStep
  PROVE  ShownInv'
  <1>0. sandbox \in DOMAIN Rank /\ Rank[sandbox] \in Nat /\ calls \in [Callers -> HandleCall]
    BY RankGrows DEF SInv, CreationTypeOK, SessionsInv, HandleTypeOK
  <1> USE DEF createVars
  <1>1. ASSUME NEW c \in Callers, NEW op \in Refreshing \cup {"destroy", "sessions"}, Invoke(c, op)
        PROVE  ShownInv'
    <2> DEFINE y == [NoCall EXCEPT !.op = op, !.stage = "sent",
                                  !.there = IF op = "sessions" THEN sessions ELSE {}]
    <2>1. calls' = [calls EXCEPT ![c] = y]
      BY <1>1 DEF Invoke
    <2>2. y.stage = "sent"
      BY DEF NoCall
    <2>3. UNCHANGED <<info, outcome, call, sandbox>> /\ outcome # "none"
      BY <1>1 DEF Invoke, Errors, ShownInv
    <2> HIDE DEF y
    <2>4. ~UnderWay(y)
      BY <2>2 DEF UnderWay
    <2>5. QED BY <2>1, <2>3, <2>4, ShownWhileCalling
  <1>2. ASSUME NEW c \in Callers, ServeStatus(c) PROVE ShownInv'
    <2> DEFINE y == [calls[c] EXCEPT !.stage = "answered", !.answer = sandbox]
    <2>1. /\ calls' = [calls EXCEPT ![c] = y] /\ UNCHANGED <<info, outcome, call, sandbox>>
          /\ calls[c].stage = "sent"
      BY <1>2 DEF ServeStatus
    <2>2. y.answer = sandbox
      BY <1>0 DEF HandleCall
    <2>3. outcome # "none" /\ (info # "none" => Rank[info] <= Rank[sandbox])
      BY <2>1 DEF ShownInv
    <2>4. Rank[sandbox] <= Rank[sandbox]
      BY <1>0
    <2> HIDE DEF y
    <2>5. /\ y.answer \in DOMAIN Rank /\ Rank[y.answer] <= Rank[sandbox]
          /\ y.alone /\ info # "none" => Rank[info] <= Rank[y.answer]
      BY <1>0, <2>2, <2>3, <2>4
    <2>6. QED BY <2>1, <2>3, <2>5, ShownWhileCalling
  <1>3. ASSUME NEW c \in Callers, ServeDestroy(c) PROVE ShownInv'
    <2>1. /\ UNCHANGED <<info, outcome, call>> /\ outcome # "none"
          /\ sandbox' = sandbox \/ sandbox' \in NextStatus[sandbox]
      BY <1>3 DEF ServeDestroy, ShownInv
    <2>2. sandbox' \in DOMAIN Rank /\ Rank[sandbox] <= Rank[sandbox']
      BY <1>0, <2>1, RankGrows
    <2>3. \A s \in DOMAIN Rank : Rank[s] <= Rank[sandbox] => Rank[s] <= Rank[sandbox']
      BY <1>0, <2>2, RankOrder
    <2>4. ASSUME NEW d \in Callers
          PROVE  calls'[d] = calls[d] \/ ~UnderWay(calls'[d])
      <3>1. CASE d = c
        BY <1>0, <1>3, <3>1 DEF ServeDestroy, UnderWay, Refreshing, HandleCall
      <3>2. CASE d # c
        BY <1>0, <1>3, <3>2 DEF ServeDestroy
      <3>3. QED BY <3>1, <3>2
    <2>5. \A d \in Callers : UnderWay(calls'[d]) =>
            /\ calls'[d].answer \in DOMAIN Rank
            /\ Rank[calls'[d].answer] <= Rank[sandbox']
            /\ calls'[d].alone /\ info # "none" => Rank[info] <= Rank[calls'[d].answer]
      BY <2>3, <2>4 DEF ShownInv
    <2>6. QED BY <2>1, <2>3, <2>5 DEF ShownInv, UnderWay
  <1>4. ASSUME NEW c \in Callers, StatusArrives(c) PROVE ShownInv'
    <2>1. /\ calls[c].stage = "answered" /\ calls[c].op \in Refreshing
          /\ info' = calls[c].answer /\ outcome' = "handle"
          /\ UNCHANGED <<call, sandbox>>
      BY <1>4 DEF StatusArrives, Shown
    <2>2. call.stage = "none" /\ info' \in DOMAIN Rank /\ Rank[info'] <= Rank[sandbox']
      BY <2>1 DEF ShownInv, UnderWay
    <2>3. ASSUME NEW d \in Callers, UnderWay(calls'[d])
          PROVE  /\ calls'[d].answer \in DOMAIN Rank /\ Rank[calls'[d].answer] <= Rank[sandbox]
                 /\ ~calls'[d].alone
      <3>1. d # c
        BY <1>4, <2>3 DEF StatusArrives, UnderWay, NoCall
      <3>2. calls'[d] = [calls[d] EXCEPT !.alone = (calls[d].stage \in Over)]
        BY <1>4, <3>1 DEF StatusArrives
      <3>3. /\ calls'[d].stage = calls[d].stage /\ calls'[d].op = calls[d].op
            /\ calls'[d].answer = calls[d].answer
            /\ calls'[d].alone <=> calls[d].stage \in Over
        <4>1. calls[d] \in HandleCall
          BY <1>0
        <4>2. QED BY <3>2, <4>1 DEF HandleCall
      <3>4. UnderWay(calls[d]) /\ calls[d].stage = "answered"
        BY <2>3, <3>3 DEF UnderWay
      <3>5. QED BY <3>3, <3>4 DEF ShownInv, Over
    <2>4. QED BY <2>1, <2>2, <2>3 DEF ShownInv, UnderWay
  <1>5. ASSUME NEW c \in Callers, Ends(c) PROVE ShownInv'
    BY <1>5, ShownWhileCalling DEF Ends, NoCall, UnderWay
  <1>6. ASSUME NEW c \in Callers, PageArrives(c) PROVE ShownInv'
    <2> DEFINE left == InOrder({s \in sessions : s > calls[c].after})
               page == SubSeq(left, 1, IF Len(left) < PageSize THEN Len(left) ELSE PageSize)
               more == Len(left) > Len(page)
               goesOn == more /\ calls[c].page + 1 < MaxSessionPages
               y == [calls[c] EXCEPT !.seen = @ \o page, !.page = @ + 1,
                                     !.after = IF goesOn THEN NextCursor(c, page) ELSE @,
                                     !.stage = IF goesOn THEN "sent"
                                               ELSE IF more THEN "cut" ELSE "done"]
    <2>1. y.op = calls[c].op
      <3> HIDE DEF left, page, more, goesOn
      <3>1. calls[c] \in HandleCall
        BY <1>0
      <3>2. QED BY <3>1 DEF HandleCall
    <2>2. calls' = [calls EXCEPT ![c] = y]
      BY <1>0, <1>6 DEF PageArrives
    <2>3. /\ UNCHANGED <<info, outcome, call, sandbox>> /\ calls[c].op = "sessions"
          /\ outcome # "none"
      BY <1>6 DEF PageArrives, ShownInv
    <2> HIDE DEF y
    <2>4. ~UnderWay(y)
      BY <2>1, <2>3 DEF UnderWay, Refreshing
    <2>5. QED BY <2>2, <2>3, <2>4, ShownWhileCalling
  <1>7. QED BY <1>1, <1>2, <1>3, <1>4, <1>5, <1>6 DEF HandleStep

LEMMA ShownNext == SInv /\ SessionsInv /\ ShownInv /\ [Next]_vars => ShownInv'
  <1> SUFFICES ASSUME SInv, SessionsInv, ShownInv, [Next]_vars PROVE ShownInv'
    OBVIOUS
  <1>1. CASE UNCHANGED vars
    BY <1>1, ShownWhileMoving DEF vars, createVars, SInv, CreationTypeOK
  <1>2. QED BY <1>1, ShownCreationStep, ShownPlatformStep, ShownHandleStep DEF Next

LEMMA ShownInit == Init => ShownInv
  BY DEF Init, ShownInv, Idle, NoCall, UnderWay

\* A step that shows an older status is the arrival of an answer that was overtaken.
LEMMA ShownAdvances ==
  ASSUME SInv, SessionsInv, ShownInv, [Next]_vars, info # "none", Rank[info'] < Rank[info]
  PROVE  \E c \in Callers : /\ calls[c].stage = "answered" /\ calls'[c] = NoCall
                            /\ ~calls[c].alone
  <1>1. info \in DOMAIN Rank /\ Rank[info] \in Nat /\ outcome # "none"
    BY RankGrows DEF ShownInv
  <1>2. info' # info
    BY <1>1
  <1>3. call.stage = "none" /\ call.answer = "none"
    BY <1>1 DEF ShownInv, SInv, BuildInv
  <1>4. PICK c \in Callers : StatusArrives(c)
    <2>1. ~SandboxReady
      BY <1>3 DEF SandboxReady
    <2>2. CreationStep => info' = info
      BY <2>1 DEF CreationStep, Derive, Create, ChangeOptions, CreateRefused, BuildReady,
         NeverReady, BeginWait, Poll, PollAgain, GiveUp, RequestFails, Tick
    <2>3. PlatformStep => info' = info
      BY DEF PlatformStep, ServeBuild, ServeCreate, ServePoll, PlatformMoves, SessionStarts,
         SessionForgotten
    <2>4. HandleStep => info' = info \/ \E c \in Callers : StatusArrives(c)
      BY DEF HandleStep, Invoke, ServeStatus, ServeDestroy, Ends, PageArrives
    <2>5. QED BY <1>2, <2>2, <2>3, <2>4 DEF Next, vars
  <1>5. /\ calls[c].stage = "answered" /\ UnderWay(calls[c]) /\ info' = calls[c].answer
        /\ calls'[c] = NoCall
    BY <1>4 DEF StatusArrives, Shown, UnderWay
  <1>6. calls[c].alone => Rank[info] <= Rank[info']
    BY <1>5 DEF ShownInv
  <1>7. info' \in DOMAIN Rank
    BY <1>5 DEF ShownInv
  <1>8. Rank[info'] \in Nat
    BY <1>7, RankGrows
  <1>9. ~calls[c].alone
    BY <1>1, <1>6, <1>8
  <1>10. QED BY <1>5, <1>9

\* refresh(), heartbeat() and connect() write #info after their await: only an answer
\* that another call has overtaken takes the handle back to an earlier status.
THEOREM HandleGoesForward == Spec => HandleAdvances
  <1>1. Spec => []SessionsInv
    BY SessionsInit, SessionsNext, CreationInvariant, PTL DEF Spec
  <1>2. Spec => []ShownInv
    BY ShownInit, ShownNext, CreationInvariant, <1>1, PTL DEF Spec
  <1>3. SInv /\ SessionsInv /\ ShownInv /\ [Next]_vars =>
          [info # "none" /\ Rank[info'] < Rank[info] =>
             \E c \in Callers : calls[c].stage = "answered" /\ calls'[c] = NoCall
                                /\ ~calls[c].alone]_vars
    BY ShownAdvances
  <1>4. QED BY CreationInvariant, <1>1, <1>2, <1>3, PTL DEF Spec, HandleAdvances
=============================================================================
