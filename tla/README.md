# The Railway SDK in TLA+

TLA+ models of the parts of `railway-ts-sdk` that wait, retry, share and clean
up: running a command in a sandbox, feeding its standard input and keeping its
output, moving files over pooled connections, creating a sandbox and using its
handle, and keeping feature flags fresh; and of the algorithms that decide a flag
and normalise a service. TLC checks them on small instances; TLAPS proves all of their
safety properties for every choice of constants. `PROJECT.json` ties
each definition to the lines of the code it models.

Paths below are relative to the repository (`src/sandbox/exec.ts` is
`src/src/sandbox/exec.ts` from the directory that holds both trees).

Contents: [inventory](#inventory), [what an action is](#what-an-action-is),
[modules](#modules), [runs](#runs), [fairness](#fairness), [proofs](#proofs),
[findings](#findings), [limits](#limits), [not modelled](#not-modelled), [plan](#plan).

## Inventory

The SDK runs on one JavaScript event loop. It has no threads; everything hard in
it comes from the order of callbacks, from state that is read before an `await`
and used after it, and from two network peers that stop answering.

### Commands: `sandbox/exec.ts`, `core/exec-ws-client.ts`

`Sandbox.exec()` returns a handle at once. Behind it `runExec` mints a shell
token, opens a WebSocket, negotiates, sends one `init_exec` frame, and turns
frames (output, exit, errors, session name, stdin credits) into one result.

* State: the connection's closure (socket, `opened`, `closed`, `hello`), the
  shared `control` record (connection, kept signal, `detached`, `terminating`),
  `settled` and the `done` promise, `exitCode`, `timedOut`, `failure`, three
  timers, the `sessionName` promise; per output, an `OutputCapture` and the decoder
  of its callback.
* Operations: start, one retry of a connect that failed early, one fallback to
  a proxy without exec control, `kill`, `detach`, abort by signal, timeout,
  termination (TERM, then KILL, then a deadline), settle.
* Interaction: `exec.ts` calls `connectExecWs` with handlers; the connection
  calls them from socket events; timers and the user's handle call into the same
  record.
* Hard: frames that arrive between the resolution of `connectExecWs` and the
  continuation that stores the connection; output callbacks that throw, kill or
  abort in the middle of the handler that calls them; `detach()` that suspends on the
  session name while an abort or timeout begins to terminate; signals kept for a
  connection that comes later; failures around the send of `init_exec`.
* Correct when: the command is submitted at most once; errors that say it was
  not submitted are true; a detached command is not signalled; there is one
  result, explained by what happened, and nothing is left open behind it; an
  exec the caller gave up on ends; the output kept is that of the whole characters
  within the limit, however it is cut into frames.

### Standard input: the same two files

Writes and the end of input run one after the other on a promise chain. Each
chunk costs a credit of the proxy's window, and frames wait while the socket's
buffer is above a mark.

* State: the chain, the credits, the waiters, the buffered amount.
* Operations: `write`, `end`, grants of credit, abort, stall.
* Hard: a write that suspends in the middle while the next ones queue; an abort
  or close that must wake a waiter which has no deadline.
* Correct when: the stream is in order without gap or repetition; credits are
  conserved; a resolved write was sent; every call settles.

### Files: `sandbox/files.ts`, `sandbox/files-transfer.ts`, `core/files-ws-client.ts`

A `/ws/files` connection serves one request at a time. `SandboxFiles` keeps a
small pool of them, each with a token for reading or for both. Downloads fetch
segments, resume after a lost connection and feed a stream; uploads hold one
chunk back so that the last carries the end marker, and are retried only when
the content can be sent again.

* State: per connection the requests by id; the pool and its idle timers; per lease
  whether a request failed; per download the position, the retry budget and the stream's
  queue; per upload the iterator, the held chunk, whether the source was consumed, and
  how the request settled.
* Operations: lease, dial, release, idle timeout; read, write and the one-shot
  calls; cancel of a stream.
* Hard: cancellation at any await; a request still in flight when its lease goes back,
  whose id comes round again; a loss in the middle of a segment; failures before and
  after content has been pulled; an acknowledgement that comes before the content has
  been sent; frames of an attempt that was given up, which the close of its socket still
  flushes.
* Correct when: a connection has one holder; one that failed its holder is not reused;
  an answer reaches the operation that asked; bytes
  arrive once and in order; retries are bounded yet restored by progress; success
  of an upload means the whole content is stored, if the server keeps to the protocol;
  no lease leaks.

### Flags: `flags/client.ts`, and the resolver beside it

`flags.init()` loads a registry and starts polling. Reads are answered from
memory, mark the client active and may start a refresh. Fetches of the same
registry are shared across the process.

* State: one client (initialized, config, options, default and scoped
  registries, timer, refresh in flight), the registries, the shared fetches.
* Operations: `init` (required or not, with or without a time limit), `close`,
  `scope`, reads, `refresh`, the timer, rounds, responses.
* Hard: `close()` and a second `init()` while the first is suspended; one timer
  that every read re-arms; staleness set by one promise and cleared by another.
* Correct when: snapshots do not go back; an init that resolves tells the truth;
  stale registries recover; nothing is fetched without a configuration.
* The resolver (`resolver.ts`, `clause.ts`, `expression*.ts`, `bucket.ts`,
  `context.ts`) is pure: which rules match, whether they agree, which reason is
  given. It is written twice, asynchronously and synchronously. Correct when both
  are the same function, and every matching rule counts the same.

### Sandboxes: `sandbox/engine.ts`, `sandbox/sandbox.ts`, `sandbox/template.ts`

`Sandbox.create()` and `fork()` send one mutation and poll until the sandbox runs;
a template is first built and polled until it is ready. The handle that is returned
keeps the last info it was given.

* State: the poll's delay and deadline, the immutable recipe, the handle's `#info`;
  behind them the platform's build, sandbox and sessions.
* Operations: create, create from a template, build only, fork, connect; `refresh`,
  `heartbeat`, `destroy`, `sessions`.
* Hard: a recipe and its options are converted twice, for the build and, after the await
  of it, for the create, and the caller's options object may have changed in between;
  the deadline is looked at only after a poll, which may be slow; the delay grows; a
  state may pass by between two polls; overlapping calls on a handle store their answers
  in the order the answers come; the pages of `sessions()` are read while sessions come
  and go.
* Correct when: a wait is bounded and notices in time; a sandbox comes from the build
  that was waited for, in its region; a handle only goes back to an older state through
  calls that overlap; a listing neither misses nor repeats a session that was there
  throughout.

### Services: `iac/sdk.ts`

`service()` accepts several spellings of most settings and builds one node; `fn()`
puts a source file into a start command, which has a size limit. Sequential and pure.
Correct when spellings with one value build one node, and a function is refused for
its size exactly when its command would not fit.

### The rest

* `core/graphql-client.ts`: a request is sent, served at one moment and answered at
  a later one, or fails; so it appears in `SandboxLifecycle`. It has no timeout.
* `core/config.ts`, `core/logger.ts`: text in, text out; no state.
* The other builders of `iac/`, its graph and validation: see
  [not modelled](#not-modelled).
* Types, errors, generated GraphQL types: no behaviour of their own.

The hazards of the code, each at its line with the properties that watch it, are
in `PROJECT.json`.

## What an action is

JavaScript runs a callback to completion. So an action is one callback, timer,
user call, or stretch of code between two awaits, with everything it calls: all
its assignments are the primed variables of one action. Promise continuations
that run in the same turn, with nothing in between that could observe them, are
folded into the step that triggers them; where frames, timers or user calls can
come in between, the continuation is an action of its own. `ExecSession` has the
clearest case: `Start` resolves the connect, `Connected` is the continuation,
and frames are received between them.

Peers are left as free as the code assumes them to be: a proxy may send any
frame, or none; a server may refuse, answer early, or vanish. Nothing below
depends on a peer being alive, except where a fairness assumption says so.

Data is abstracted to what the properties tell apart: a frame of output is
present only by whether the caller's callback throws; a file is positions 0 to
Size-1; a chunk is its number; a snapshot is its version. Byte counts stand in
units of chunks. Times are an order of timers, or a count of ticks.

A definition named `Operator_Fault` is `Operator` with one plausible bug. No
specification uses them; `PROJECT.json` names, for each checked property, the
fault that breaks it, which shows that the property depends on that code.

## Modules

| module | models | state and actions in the code |
|---|---|---|
| `ExecSession` | `startExec`, `runExec`, the connect half of `connectExecWs` | `ws` is the closure and socket of the current connection; `connected`, `pending`, `detached`, `terminating` are `control`; `phase` is where `runExec` is suspended. One action per socket event (`SocketOpen`, `Recv...`, `SocketClosed`), per timer, per user call, per continuation. `Settle` and `Terminate` are the functions of that name, used by the actions that call them; what an output callback does (`Throw`, kill, abort) happens inside the frame's action. |
| `ExecContract` | what the caller of `exec()` may rely on | abstract: `submitted`, `side`, `signals`, `name`, `result`; `ExecSession` implements it under the mapping `Contract`. |
| `FilesLeases` | what an operation may rely on when it leases a connection | abstract: `open`, `tokens`, `pool`, `leases`, the requests `adrift` of cancelled reads, and the connections on which a request failed, seen by its lease (`failed`) or not (`spoiled`); `FilesPool` implements it under the mapping `Leases`. |
| `DownloadContract` | what the caller of a read may rely on | abstract: `wanted`, `got`, `losses`, `leased`, `asking`, `state`; `FilesPull` implements it under `Download`. |
| `UploadContract` | what the caller of a write may rely on | abstract: `content`, `taken`, `stored`, `whole`, `breached`, `attempts`, `state`; `FilesWrite` implements it under `Upload`. |
| `OutputCapture` | `OutputCapture`, the callbacks' `TextDecoder`s, the result's text | `captured` and `shown` per output; a frame of any size is one action, the exit or interruption another. |
| `ExecStdin` | `stdin.write`, `stdin.end`, `writeStdin`, `closeStdin`, credits | `calls` and `okCalls` are the chain `stdinTail`; `writer` is the await the running write is suspended in; `credits`, `window` are those of the connection; `wire`, `held`, `freed` follow a chunk through proxy and command. |
| `FilesConnection` | `register`, `sendJson`, frame dispatch, `failAll`, `closeSocket` of `files-ws-client.ts` | a connection as a record: `nextId`, `pending` by id, and the bridge's `queue` (external); operators, no variables. |
| `FilesPool` | `#connect`, `#lease`, `#release`, `#dial`, request lifecycle | `conns` are connections of `FilesConnection` (`INSTANCE` as `Wire`); `idle` is the pool, `timers` its idle timers; a worker is one caller and where its operation is; `noticed` and `unnoticed` are histories of connections on which a request failed, while its lease was held or after. |
| `FilesPull` | `startPull`, `resolveRange`, `pullSegments`, the stream around them | `range.position` is the position reached, `retries` the budget used, `queued` the queue of the stream, `leased` the lease; `phase` is the await the loop is in. |
| `FilesWrite` | `write`, `#writeOnce`, upload sources, the write request | `pulled`, `held`, `consumed` are the iterator, the lookahead and the source; `settled` is how the request ended, whichever await the loop is in; `sent` and `wire` are the frames of this attempt, `late` and `lateStart` those of given-up ones that are still under way, `file` the chunks the server has stored, each at its place; `breach` notes that the server broke the protocol. |
| `FlagsClient` | `FlagsModule`, `FlagsRegistry`, `syncRegistryWithPolicy`, shared refreshes | the fields have the code's names; `inits`, `rounds`, `fetches` are the suspended calls and who waits for whom; `registries` are the objects, which old calls keep after `close()`. |
| `FlagsResolver` | `resolver.ts`, `clause.ts`, `expression.ts`, `expression-sync.ts`, `bucket.ts`, `context.ts`; the `evaluate...` and `get...` reads | operators with the code's names, one set per evaluator, recursive over the constants `FlagValues` and `FlagExpressions`; a behaviour is one read and one asynchronous evaluation of the same flag. |
| `SandboxLifecycle` | the creations, waits and handle of `sandbox.ts`, `engine.ts`, `template.ts` | `options` is the caller's object, which it may change while the build is awaited; `BuildInput` and `CreateInput` are the two conversions; `call` is the creation and what it is suspended in, `elapsed` the clock of `pollUntilReady`; `info` is `#info`, `calls` the calls on the handle under way; `build`, `sandbox`, `sessions` are the platform (external). |
| `InfraService` | `service()`, `fn()` and the normalisers they call | operators with the code's names; a behaviour builds one configuration and gives the node back to `service()`. What a configuration says, whatever its spelling, is defined beside it (`Says`), without reference to the normalisers. |
| `MCAlgorithms` | | `FlagsResolver`, `OutputCapture` and `InfraService` side by side, for one run: a behaviour is of one of them. |
| other `MC...` | | the definitions that give constants their values for TLC. |
| `...Proofs` | | theorems about the module of that name; the refinement of a contract is with the module that implements it, and `AlgorithmsProofs` is about `FlagsResolver`, `OutputCapture` and `InfraService`. |

`ExecSession` and `ExecStdin` meet in three flags (`finished`, `detached`,
`terminating`) and the connection. `ExecStdin` folds them into `writable` and
`conn`, because `exec.ts` aborts the stdin controller wherever it sets one of
them; `ExecSession` in turn knows stdin by the `stdin_error` frame and the
failed send of an EOF. `FilesPool` knows a transfer as a sequence of requests
that may be cancelled; `FilesPull` and `FilesWrite` know the pool as a lease that
is granted, refused, and given back.

## Runs

**`exec`** (`ExecSession.cfg`, all 16 option records, 75 thousand states).
`AtMostOneCommand`: over token, connect, retry and fallback, with any of them
failing at any point, `init_exec` is given to a socket at most once.
`ResultExplained`, `NothingLeftOver`: the first settle decides, no failure is
swallowed, and timers, socket and session name are dealt with, also when an output
callback kills, aborts or throws inside the handler that settles.
`UnconfirmedIsTrue`: a command is reported as not confirmed only when a signal and then
KILL have been tried and no exit has come, whatever order the escalation, the deadline and
a kept signal come in.
`DetachedLeftAlone`: nothing is signalled after a detach. `ContractHolds`: the run
implements `ExecContract`, so that no error denies a command that was sent, detach
and termination never both take effect, KILL follows a gentler signal, and the result
is final and true to all of that. `StoppedEnds`: an exec that was aborted, is being
terminated, was detached, or runs under a time limit gets its result though the proxy
is silent for ever. One user signal on a live connection is enough: more of them only
repeat the step, which changes nothing but the count.

**`stdin`** (`ExecStdin.cfg`, 42 thousand states). Windows of one and three chunks,
a buffer mark of one, three calls of up to three chunks: a write can need more
than a window, and wait for credit or, with credits left, for the buffer, with two
more calls behind it. `CreditsConserved`, `StreamInOrder`, `ResolvedWasSent`,
`WriterReleased`, `EveryCallSettles`.

**`pool`** (`FilesPool.cfg`, 186 thousand states up to symmetry). Two callers, two
connections, room for one idle connection; ids wrap after two, so that a cancelled read
meets its own id again. Two connections are enough: each caller can hold one, the
pool can be full when the other comes back, and a caller that finds the pool empty or
unfit dials; a third would only be dialled in the place of one that is closed. Requests
fail in either way, also after their read was cancelled.
`LeaseExclusive`, `Accounted`, `RepliesReachOwner`; and `LeasesHold`: the pool
implements `FilesLeases`, so that a caller gets an open connection of its own with a
token that suffices, on which no request of any lease has failed, and a release keeps
exactly the connections worth keeping. That is less than "no request has failed on it":
a cancelled read gives its lease back with the request in flight (it is `adrift`), and if
the server refuses it afterwards, nobody notices and the connection stays in the pool.

**`pull`** (`FilesPull.cfg`, 54 thousand states). Every valid combination of
offset, length and tail of a three-byte file, offsets and lengths past the end
included, streamed or not, in segments of one or two bytes with a budget of two
retries: short last segments, segments that end exactly at the end, losses in the
middle of one, and a budget that is used up and restored all occur. `Delivered`,
`GivesUpLate`, `OneSegmentHeld`, `LeaseReturned`, `PullEnds`; and `DownloadHolds`: the
loop implements `DownloadContract`, in which a loss is fatal exactly when it is one more
than the budget at its place, a read resolves only with all of its content, and nothing
is delivered or asked for after a cancel.

**`write`** (`FilesWrite.cfg`, 122 thousand states). Contents of none to three
frames, replayable or one-shot, with and without a missing parent directory and a
mode to set, a buffer mark of one frame and two retries. The server may acknowledge at
any time. What an attempt that was given up has sent arrives late or not at all: its
frames through the handle of its own upload, and a `write_start` nobody answered, which
empties the file. `StoredWhenOk`: when `write()` resolves, every chunk is in its place, the
end is marked, and nothing of this upload is under way behind it; except when the server
broke the protocol (`breach`: it said `ok` before it had read the end marker, or served
an old `write_start` after a new one). `RetriedWhilePossible`, `SettledReleases`; and
`UploadHolds`: the retries implement `UploadContract`, in which each piece of the content
is stored, the file is emptied only while the content can still be sent from its
beginning, and a write succeeds only on a whole file or through such a breach.

**`flags`** (`FlagsClient.cfg`, 141 thousand states). Two registries: two inits
with a close or a failure between them, or one init and a scope. Delays and the
active interval of up to two ticks, so that the timer may come before, with or
after the interval; one snapshot published on the way; outages. `VersionsAdvance`,
`InitAnswers`, `Recovers`.

**`sandbox`** (`SandboxLifecycle.cfg`, 737 thousand states). A creation of every kind,
then two calls at once on its handle. A deadline of six ticks, delays of one growing to
three, requests of none or one tick: the deadline falls between two polls, during one,
and after the delay has stopped growing. Recipes of one step with and without build-time
variables; options with a region, an empty one or none, with good or bad resources,
which the caller may change while the build is awaited. Listings of at most two pages of
one session, with three sessions coming and going: a listing may be complete with its
first page, with its second, or be cut short after that; `ListingIsWhole` has the other
sizes. `TemplateFromBuild`: the create that follows a build asks for the very recipe
that was built, and for the region the build is in, unless the region is the empty text
or the caller changed its options. `WaitBounded`, `NoticedInTime`. `SessionsWhole`: a
listing that ends repeats no session and misses none that was there throughout; one that
is cut short has as many full pages as the cap. `HandleAdvances`, `CreationEnds`.

**`algorithms`** (`Algorithms.cfg`, 460 thousand states). Three sequential parts.

* Flags: four families of inputs: one rule with any clause, bucket or nesting of two,
  negated or not, against 400 contexts (keys of each kind, given by `key`, by
  `targetingKey` or inside `attributes`; nested, missing, null and array attributes);
  rollouts with every pair of hashes and thresholds at, below and above the ratio;
  every list of up to three rules that match or not, with two values, null and a
  sandbox; and every state of the registry with every typed read. Three rules are the
  fewest of which the first agrees with the last and not with the one between.
  `EvaluatorsAgree`, `RuleOrderIrrelevant`.
* Output: up to three bytes in every division into characters, the last perhaps cut
  short, in every division into frames, with limits of 0, 1, 2 and 4: inside a
  character, between two, and beyond the end. `OutputExact`.
* Services: families of configurations that say the same (`SayTheSame`, which TLC
  evaluates for each of them): each setting in each spelling with one value, and several
  spellings with different values at once; functions of the smallest sizes and of every
  size around the limit, over more than one group of the encoding. `SpellingsAgree`,
  `FunctionFits`.

Four runs show where the code departs from what the repository says of it; see
[findings](#findings).

`CHECK_DEADLOCK FALSE` stands where the system really stops: an exec, a transfer, a
creation or an evaluation that has ended, or a pool whose callers are done and whose
connections are closed.

## Fairness

Only what the event loop guarantees is assumed, and never that a peer answers.

* `ExecSession`: continuations and timers run, an aborted or finished token
  request ends, and a socket this side has closed gets its close event. No frame
  and no close of the proxy is assumed.
* `ExecStdin`: runnable continuations run. The end of the handshake is not assumed: the
  wait for `exec_capabilities` has no timeout, so a silent proxy leaves every call
  pending until something aborts stdin. `EveryCallSettles` has two premises of its own:
  that the connect ends (`HandshakeEnds`), and that the command reads and is credited
  (`ReadingCommand`), the code giving a wait for credit no deadline, on purpose.
  `WriterReleased` needs neither.
* `FilesPull`: an await of the loop ends, by an answer or by the inactivity
  timer of `files-ws-client.ts`, or by the failure of a dial. `PullEnds` adds a
  consumer that reads.
* `FilesWrite`: the same for the waits the code bounds. A wait for the buffer ends when
  it has drained, the socket closes or the stall timer fires, so the loop and `Stall`
  share one fairness condition. The source is owed nothing, which is the point of
  `SettledReleases`.
* `FlagsClient`: timers fire, and a request is answered or fails. `fetch` itself
  sets that limit; the client has none, so a request that hangs for ever stops
  polling. `Recovers` supposes outages that end.
* `SandboxLifecycle`: time passes and timers fire, and a request is answered or fails
  and its continuation runs. `requestGraphQL` has no timeout of its own, so this is
  owed by `fetch`; a request that hangs for ever would hang the creation. Nothing is
  assumed of what the answers say: `CreationEnds` holds for a platform that never
  makes up its mind.
* `FilesPool` and the parts of `MCAlgorithms` have no liveness property.

## Proofs

Each theorem holds for every value of the constants that satisfies the assumptions
named in the module it is about; TLC evaluates these in every run of the module. One
theorem has an assumption of its own, `EnoughIds`, below.

**Commands.** `ExecSessionProofs` proves `TypeCorrect`, with one case per action and
a typing lemma for each shared operator (`Settle`, `Terminate`, `Record`, `Throw`,
...), and `OneCommand`, `NotStartedHolds`, `DetachExclusion` and `DetachIsFinal`.
None of the last four is inductive as it stands. `IInv` adds to `TypeOK`:

* `CommandInv`: the number of `init_exec` frames is one if the connection went
  live (`ws.opened`) and zero if it did not; while `runExec` is still minting,
  connecting or waiting to retry it did not; and a connect that failed after it
  carries the one error (`transport`) that is neither retried nor taken for "not
  started". Without it nothing relates `phase` to the count, and the retry looks
  as if it could follow a send.
* `ErrorInv`: what settles a live session, or is recorded for it, is an error of
  live sessions, so that no "not started" error can be the result of one.
* `TimerInv`: escalation and deadline are only armed while terminating, so that
  with `DetachExcludesTerminate` no timer signals a detached command.
* `DetachExcludesTerminate` itself: `terminate()` leaves a detached handle alone
  and `detach()` refuses a handle that is being terminated.

`EInv` extends it: a connect that ended badly has left no connection open (`SocketInv`);
settling happens once, to a live connection, and takes timers, socket and name with it
(`SettledInv`); what resolves without an exit is detached or terminated
(`ExplainedInv`); and `terminate()` has sent a signal or has one kept for the connection
to come (`SignalInv`: without it the escalation's KILL would not be preceded by
anything). From it follow `Explanation`, `NothingLeft` and the refinement.
`UnconfirmedHolds` adds `KillInv`: whenever the deadline is armed, the escalation is
too, or KILL has been sent; without it an exec whose deadline fires first could be told
of a KILL that never went out. `KeepsContract` is a step simulation: each action is a
`Submit`, a `NotSubmitted`, a `Proceed`, a `Detach` or a stutter of `ExecContract` under
the mapping. The contract's one liveness clause is model-checked; `KeepsWholeContract`
reduces it to `StoppedEnds`.

**Standard input.** For every window, mark, chunking and number of calls.
`CreditsAreConserved` and `CreditsInWindow` rest on `CreditInv`, the equation of the flow
with the types of what it is computed from. `FramesInCallOrder` and `FulfilledWasSent`
rest on `StreamInv`: the socket has got all frames of the fulfilled calls and then exactly
the chunks of the running call that are no longer in `left`. The properties say only that
the log is a beginning of the stream, which a chunk sent twice or left out at the right
moment would not contradict at once.

**The pool.** For any number of callers and connections and any size of the pool.
`PoolTypes`, `LeasesAreExclusive`, `FailedStaysOut` and `NoneForgotten` come from
`LeasesInv`, in which the pool, its timers and the callers refer to each other: the pool
holds a connection once, and the timers are those of the pool (`IdleInv`); no caller
holds a connection that another holds or the pool has (`LeaseInv`); who holds a
connection on which a leased request failed knows it (`PoisonInv`: `#release` decides on
the lease's `failed`, not on the connection); and an open connection has a holder or is
in the pool (`AccountInv`).

`PoolKeepsLeases` is the refinement of `FilesLeases`, a lemma per action: a `#connect`
that finds an idle connection is a `Reuse`, one that finds only dead ones a `Discard`, an
operation that ends a `GiveBack`, and so on; requests and answers that settle nothing are
stutters. It rests on `LeasesInv` and, in the other direction, on `NotedInv`: a lease that
knows of a failed request has put its connection among the failed ones. Without it a
sound connection could be closed for a failure it never had. A read that is cancelled in
flight is a `GiveBack` that sets its request adrift, and the failure of that request a
`FailUnseen`, which changes nothing in where the connection is. So `FailedStaysOut`
speaks only of requests that fail while their lease is held. The comment at
`files.ts:392-398` speaks of every failure, and that is not so (see [findings](#findings)).

`AnswersReachOwner` also needs to know which ids are in use. `QueueInv` says that the
requests the bridge has not answered bear the ids given out last, one after the other,
modulo the wrap; `WaitInv` and `PendingInv` tie each of them to the caller that waits for
it or to nobody, and each entry of `pending` to one of them. `EnoughIds` says that there
are no more callers than ids: a caller has at most one unanswered request on a
connection, so `nextId` cannot come round to an id in use. The code has 65535 ids, and
the unanswered requests on one connection are that of its holder and those of cancelled
reads. With fewer ids the theorem is false, as it would be of the code.

**Downloads.** `PullTypeCorrect`, `Delivery`, `OneSegment`, `LeasesReturn`,
`GivingUp` and `CancelledForGood`, for every file, range, segment size and budget.
`PullInv` says that until the
consumer cancels, the position reached is that of what the caller has; that the end of
the range stops the loop neither too early nor, when the file is longer, too late; that
what is queued has been received; and that the retries used are no more than the losses
at the place the download is at now, which is what makes progress restore the budget.
`CancelledForGood` is a property of steps: from each await of the loop, the step that
finds the stream cancelled neither delivers nor requests.

`DownloadKeepsContract` refines `DownloadContract`. `PullInv` bounds the retries from
above, which is enough to say that a read does not give up early; the contract says when
it does give up, and needs the count exactly. `LoopInv` has it: before the end, the retries
are the losses at the place reached, and nothing has been lost at a later one. It also
ties the lease to the awaits of the loop.

**Uploads.** `WriteTypes`, `SuccessIsStored`, `StoredInPlace` and
`GivesUpOnlyWhenSpent`, for every content, buffer mark and budget. In `WriteInv`,
`LoopInv` says which chunks the loop holds back at each await and `SentInv` that those
before them have been sent; `PlaceInv` says that every chunk that is stored or under way,
of whichever attempt, goes to its own place; `CoverInv` says that what the running
attempt has sent is stored or under way; `MarkerInv` says that the end marker is the last
frame of its upload, so that the whole content is stored when the server comes to it;
`PullsInv` says that a one-shot source is pulled by one attempt; and `OutcomeInv` says that
nothing but an `ok` lets a write succeed, and that an `ok` which keeps to the protocol
comes after the end marker. `StoredWhenOk` alone is not inductive: it says nothing of an
`ok` that has come but has not been looked at, nor of frames of earlier attempts, which
may overwrite a piece after the write has succeeded, and do so with the same piece.

Two things can make success untrue, and `breach` records them: an `ok` that comes before
the server has read the end marker, and a `write_start` of a given-up attempt served after
the one that followed it. The client cannot tell either; the theorems hold up to them.
`StoredInPlace` holds in part without that premise: nothing but chunks of the content, each
at its place, is ever stored.

`UploadKeepsContract` refines `UploadContract`; beside `WriteInv` it needs `TakenInv`,
that nothing is on its way before the source has been read from. Only then does what the
contract calls `taken`, which forbids emptying the file again, cover every chunk the
service could store. Frames of a given-up attempt are a `Store` of the contract, its late
`write_start` an `EmptyLate`, and an early `ok` an `AcknowledgeEarly`.

**Sandboxes.** `CreationTypeCorrect`, `WaitIsBounded`, `Noticed` and `FromBuild`, for
every timeout, backoff and speed of requests. `SInv` adds to the types what has been
asked and answered (`BuildInv`: the build under way is of the input that `BuildInput`
made of the request, and a create from a recipe is only sent after READY for it; what
the create asks for is made by `CreateInput` from the request and the options of that
later moment) and where in a delay or a request the clock is (`TimeInv`: time spent plus
what is left of the delay stays below the deadline plus one delay). The bounds
themselves say nothing of the delay in progress and are not inductive.

`ListingIsWhole`, for every page size and number of pages, callers and sessions: the
invariant `PagingInv` says of a listing under way what `SessionsWhole` says of one that
has ended, up to its cursor, and that it has had as many full pages as it has asked for.
Completeness is claimed of every listing that the platform ended, however many pages it
took, and waived only for one that the cap cut short. `HandleGoesForward` is a property
of steps: `ShownInv` says that neither what the handle shows nor an answer on its way is
newer than the sandbox, and that an answer which was not overtaken is not older than
what is shown.

**Flags.** `FlagsInvariant`, `NeverOlder` and `InitsAnswer`, for any number of inits,
registries, rounds and loads. `FlagsInv` has the reason snapshots never go back: an
owner has one fetch in flight, and that one began after every response any registry of
this owner has had.

**The resolver.** `OneEvaluator` and `OrderIsIrrelevant`, for every flag, context and
hash. Expressions nest, so the evaluators are recursive functions, over the
`FlagExpressions`, and attributes nest, so flattening is one over the `FlagValues`. That
two recursive functions are equal needs no induction here: `ClausesAgree` shows that
their bodies are the same expression, so both are chosen by the same equation. The rest
of `OneEvaluator` is that a context that has been normalised is normalised already
(`NormalizedOnce`), because one entry point normalises once more than the other.
`OrderIsIrrelevant` is about what a trace is read for: whether any value is given,
whether all that are agree, and which rules gave one; each is kept by a permutation.

**Output.** `OutputIsExact`, for every output, limit and division into frames. The
property speaks of the result; `CInv` says what a capture and a decoder hold after any
number of bytes: the bytes kept are the smaller of what came and the limit, the text is
that of their whole characters, and truncation is noted as soon as there was more.

**Services.** `LimitIsExact` and `FunctionsFit`: the size limit is the largest source
whose start command fits, for any size; every configuration is refused exactly by it.
`SpellingsMakeOneNode` is `SpellingsAgree` for every set of configurations that say the
same. `Says` lists, for each setting, the values given for it in any of its spellings;
`Unambiguous` asks that they be one value where there are several, that an empty
pre-deploy command does not stand beside one that is not, that a build is a text or an
object, that a number of replicas does not stand beside regions, and that an untyped
`source` carries nothing that `service()` drops (`UntypedSourceKept`): where a
configuration contradicts itself, the order of the code decides, and the theorem does not
say how. These are the whole premise (`FamiliesAssumption`, which also gives a configuration
the shape of its type). The argument is that what `a ?? b ?? ...` chooses is one of the
values said (`CoalescePicks`), with one lemma for each part of the node; the regions, which
are given as a number under three names, and the variables, of which `env` hides some, are
compared as what they say (`RegionsForm`, `VariablesForm`). Its second half is
`NodeIsASpelling`, which has no such premise: for every configuration, the node that
`service()` makes of it is a configuration of the same node, part by part (`NodeKept`).

Two habits of these proofs. What a recursive definition of the library computes
(`FlattenSeq` over the calls, the last of an object's entries with a key) is proved by
the absence of a least counterexample, `Nat` being well-founded: the induction theorems
themselves take an operator and cannot be applied. And operators over sequences and
functions are stated as predicates of their arguments, with one lemma each, so that no
step expands more than one of them.

Proving changed the models in three places and showed one mistake. `RemoveConns`, the
expressions and the attributes were `RECURSIVE` operators or filters with an operator
argument, and are recursive functions or sets now. The arms of the `CASE` in
`EvaluateClauseNullable` overlapped for an attribute that is null, which TLC resolves by
taking the first; null is decided first now, as the code does.

Model-checked only is all liveness, which under fairness is beyond the prover:
`StoppedEnds`, `WriterReleased`, `EveryCallSettles`, `PullEnds`, `SettledReleases`,
`Recovers`, `CreationEnds`. For the exec contract, `KeepsWholeContract` reduces the
contract's liveness to the first of them. That what a download delivers and an upload
stores is right says nothing of when: the two contracts are safety only.

## Findings

1. `exec_timedout_terminated`. `detach()` leaves the timeout timer armed
   (`exec.ts:600`). When it fires, `timedOut` is set and `terminate()` returns at
   once; the close then resolves the result with `timedOut: true` for a command
   that nobody killed. `types.ts:24` says "True when the client-side `timeoutSec`
   deadline killed the command."
2. `pool_sequential`. Cancelling a stream closes its lease while the read is in
   flight; the lease has not failed, so the connection goes back to the pool and
   the next request overlaps the read (`files-transfer.ts:150`).
   `files-ws-client.ts:105-107` and `:151-153` say requests on a connection are
   sequential.
3. `pull_abort`. A cancelled stream has no desired size, so a pull that reaches
   `waitForCapacity()` after the cancel (it came during the stat of a tail read,
   or between the last bytes of a segment and its empty end frame) waits for ever
   (`files.ts:319`). `files-transfer.ts:80` says "`abort()` stops it and resolves
   `done`".
4. `flags_readable`. A required `init()` that fails after `close()` resets the
   client a later `init()` has set up (`flags/client.ts:236`): that one resolves,
   and reads still throw "Call `await flags.init()` at startup ...".

Also seen while modelling; the first four concern statements about cases the models
now contain, with the exception named in the property or the contract, and the others
contradict no plain statement of the repository:

* `ok` at any time after `write_ready` settles a write (`files-ws-client.ts:312-326`), so
  one that comes in the middle of the content makes `write()` resolve with part of it sent;
  `:80-83` says that it resolves once the server acknowledges the completed write, and
  `:317-318` refuses only an `ok` before `write_ready`. It takes a server that answers early.
* `awaitDrain` (`files-ws-client.ts:187-198`) does not look whether the request has
  settled: a write the server refused may wait out the stall and be tried again as a lost
  connection.
* A read cancelled in flight pools its connection; if the server refuses it after that, an
  open connection with a failed request behind it is leased again, which is what the comment
  at `files.ts:392-398` says does not happen.
* `region: ""` is dropped from the build (`engine.ts:178`) and sent with the create
  (`engine.ts:151-153`), which also reads the options object again after the await of
  the build (`sandbox.ts:124-125`): with changed options the sandbox is asked for in a
  region its template was not built in.
* A timeout without a confirmed exit resolves with `timedOut: true` and no exit
  (`exec.ts:459`), as README.md:153-154 says and README.md:65 ("... and the server
  reported an exit") does not.
* The error of an interrupted exec carries text that may end in U+FFFD, which the
  callback was not given.
* `close()` leaves whoever awaits the old `flags.ready` waiting, and an old init
  resolves the `ready` of a new one early; a failed first load of a scope leaves an
  empty registry that is not marked stale until a round fails.
* Two overlapping calls on a handle may leave the older answer in `#info`. A poll
  that fails after a create leaves a sandbox whose id the error does not carry. Bad
  `resources` beside a template are refused only after the build. `sessions()` is
  cut short after 20 pages without saying so.
* `service()`: `networking.customDomains` and `networking.tcpProxies` given raw are
  dropped (docs/railway-config-dsl.md:741 says to use `domains`); an untyped
  `source: {repo, ...}` drops `rootDirectory`, `checkSuites` and `commitSha`, though its type
  (`sdk.ts:81`) has them, and
  `{image, autoUpdates}` drops `autoUpdates`; one volume at two paths keeps the last;
  `replicas: n` beside `deploy.multiRegionConfig` sets both. `fn()` with `start: ""`
  lets another spelling of start pass the check (docs line 534) and be dropped. Nested
  groups overwrite the inner `groupId`; `group()` copies lose `env`.

## Limits

* Argument checks that throw before anything happens are left out.
* The send of the EOF and of signals fails as a whole or not at all. What an output
  callback does to the handle is part of the action only while `onExit` flushes the
  decoders, where more of the handler follows it; elsewhere it is a step of the caller,
  just before the next.
* Segment sizes and the delays of transfers and polling are free within a bound: what
  the adaptive sizes, backoff and jitter compute is not checked. The readiness waits
  are the exception: their backoff is that of the code, in ticks.
* The file does not change while it is read.
* An upload's frames go to the file through the handle of their own upload, and a
  replayable source gives the same content each time; else a late frame could put anything
  anywhere. When the server marks a file complete is known from its `ok` only.
* Operations on a files connection are requests without payload in `FilesPool`; the
  header of a frame and the cutting of an upload into frames are left out.
* All flags fetches use one token and endpoint; several clients sharing fetches in
  one process are not modelled.
* The hash of a bucket is any function to a few ratios; that the digest spreads
  subjects evenly is not a question for a model checker. Attribute names with a dot
  in them, which could collide with a nested path, and names every JavaScript
  object answers to are left out. Rows that fail `parseRegistrySignal` fail the
  fetch in `FlagsClient`.
* A creation waits alone: time is counted only while it does, and the calls on the
  handle begin when it has ended. Sessions are served in the order they began; a
  platform that pages in another order is not modelled.
* A bounded number of calls, connections, inits, sessions and build steps, as in the
  runs above. The models keep no counter over those but histories and budgets, and
  each bound leaves room for one more than the shortest way to reach every action.

## Not modelled

* `generated/graphql.ts`, more than half of the repository's implementation lines, is
  generated types without behaviour. Much of what remains are types, doc comments,
  argument checks and the formatting of requests and errors, which no definition
  stands for; so the models cover a small share of all lines but most of the state.
* `iac/`: the records for groups, references, databases, volumes and buckets, the
  graph's index and validation, file reading and the call-site lookup of `fn()`. Each is
  a pass over data with no order of events; `service()` and `fn()`, where several
  inputs compete, are the part with a question to check.
* `core/config.ts`, `core/logger.ts`, `flags/scope.ts`, the flags transport and shell
  quoting: text to text. A model would restate the string operations.
* The header and the cutting of file frames; error classes, accessors and types.

## Plan

Done: the models, runs and proofs above.

Next:

1. Downloads and uploads over the abstract pool: `FilesPull` and `FilesWrite` composed
   with `FilesLeases`, instead of a lease that is granted or refused at will.
2. `IacGraph`: groups and references, with the validation that rejects a dangling one.
3. Several flags clients in one process that share fetches.
