---------------------------- MODULE ExecSession ----------------------------
(***************************************************************************)
(* One Sandbox.exec() call: startExec and runExec (sandbox/exec.ts) on top *)
(* of the connect half of connectExecWs (core/exec-ws-client.ts).          *)
(*                                                                         *)
(* JavaScript runs one callback at a time, so one action is one callback   *)
(* or promise continuation run to completion: a socket event, a timer, a   *)
(* call of the handle by the user, or the code after an `await'.  What can *)
(* interleave is the order of those.  In particular the continuation that  *)
(* stores `control.connection' runs some time after the promise of         *)
(* connectExecWs is resolved, and frames may be handled in between.        *)
(*                                                                         *)
(* The proxy is left free: it may send any frame it likes once it has an   *)
(* init_exec, and close at any time.  Output bytes are not represented, a  *)
(* frame of output only by whether the caller's callback throws on it.     *)
(*                                                                         *)
(* A definition named Operator_Fault is Operator with one plausible bug; no *)
(* specification uses it, PROJECT.json names the property that rejects it. *)
(***************************************************************************)
EXTENDS Naturals

CONSTANTS
    Options,    \* the option records the caller may choose from
    MaxKills    \* bound: signals the user sends by kill() on a live connection

OptionType == [stdin: BOOLEAN, ephemeral: BOOLEAN, timeout: BOOLEAN, signal: BOOLEAN]

ASSUME OptionsAssumption == Options \subseteq OptionType
ASSUME MaxKillsAssumption == MaxKills \in Nat

VARIABLES
    opts,        \* the options of this call
    aborted,     \* options.signal?.aborted
    phase,       \* where runExec is suspended
    attempt,     \* which connectExecWs call is being made
    thrown,      \* what runExec threw before it returned `done', or "none"
    ws,          \* the closure and the socket of the current connectExecWs call
    connErr,     \* what that call rejected with
    connected,   \* control.connection is set
    pending,     \* control.pendingSignal
    detached,    \* control.detached
    terminating, \* control.terminating
    settled,     \* `settled': settle() has run
    done,        \* the outcome settle() gave the `done' promise
    exited,      \* exitCode !== null
    timedOut,    \* `timedOut'
    failure,     \* `failure'
    timers,      \* the timers armed: timeout, escalation and deadline
    sessionName, \* the sessionName promise
    detachCall,  \* the user's detach() call
    commands,    \* history: init_exec frames given to a socket, over all attempts
    sent         \* history: signal frames given to the socket, by origin

connectVars == <<phase, attempt, thrown, ws, connErr, commands>>
controlVars == <<connected, pending, detached, terminating>>
\* what settle() assigns, the close of the socket apart
settleVars == <<settled, done, sessionName, timers>>
runVars == <<exited, timedOut, failure>>
callerVars == <<opts, aborted, detachCall>>
vars == <<connectVars, controlVars, settleVars, runVars, callerVars, sent>>

-----------------------------------------------------------------------------
Origins == {"user", "TERM", "KILL"}

\* Rejections of connectExecWs. "retryable" and "denied" are ExecNotStartedError.
ConnectErrors ==
    {"abort", "unsupported", "retryable", "denied", "capabilities", "transport"}

Errors == ConnectErrors \cup {"token", "stdin", "callback", "interrupted", "unconfirmed"}

Phases == {"mint", "connecting", "connectFailed", "delay", "opened", "running", "thrown"}

Outcomes == [status: {"pending", "resolved", "rejected"}, exit: BOOLEAN,
             timedOut: BOOLEAN, error: Errors \cup {"none"}]

Pending == [status |-> "pending", exit |-> FALSE, timedOut |-> FALSE, error |-> "none"]

Rejected(e) == [status |-> "rejected", exit |-> FALSE, timedOut |-> FALSE, error |-> e]

Resolved(exit, late) ==
    [status |-> "resolved", exit |-> exit, timedOut |-> late, error |-> "none"]

\* What the caller's `result' promise shows: runExec's own throw, or `done'.
Result == IF phase = "thrown" THEN Rejected(thrown)
          ELSE IF phase = "running" THEN done ELSE Pending

\* control.finished
Finished == settled \/ phase = "thrown"

Sockets == [sock: {"none", "connecting", "open", "closing", "closed"},
            hello: BOOLEAN, opened: BOOLEAN, closed: BOOLEAN]

\* No connectExecWs call yet, a new one, and one whose side called close().
NoSocket == [sock |-> "none", hello |-> FALSE, opened |-> FALSE, closed |-> FALSE]
Dialled == [NoSocket EXCEPT !.sock = "connecting"]
CloseWs(w) == [w EXCEPT !.closed = TRUE,
                        !.sock = IF @ = "closed" THEN @ ELSE "closing"]

TypeOK ==
    /\ opts \in Options
    /\ aborted \in BOOLEAN
    /\ phase \in Phases
    /\ attempt \in {"first", "retry", "legacy"}
    /\ thrown \in Errors \cup {"none"}
    /\ ws \in Sockets
    /\ connErr \in ConnectErrors \cup {"none"}
    /\ connected \in BOOLEAN
    /\ pending \in Origins \cup {"none"}
    /\ detached \in BOOLEAN
    /\ terminating \in BOOLEAN
    /\ settled \in BOOLEAN
    /\ done \in Outcomes
    /\ exited \in BOOLEAN
    /\ timedOut \in BOOLEAN
    /\ failure \in Errors \cup {"none"}
    /\ timers \subseteq {"timeout", "escalation", "deadline"}
    /\ sessionName \in {"pending", "named", "failed"}
    /\ detachCall \in {"none", "awaiting", "done", "refused"}
    /\ commands \in Nat
    /\ sent \in [Origins -> Nat]

\* startExec up to runExec's first await: a signal already aborted throws there.
Init ==
    /\ opts \in Options
    /\ aborted \in (IF opts.signal THEN BOOLEAN ELSE {FALSE})
    /\ phase = IF aborted THEN "thrown" ELSE "mint"
    /\ thrown = IF aborted THEN "abort" ELSE "none"
    /\ attempt = "first"
    /\ ws = NoSocket
    /\ connErr = "none"
    /\ connected = FALSE /\ pending = "none"
    /\ detached = FALSE /\ terminating = FALSE
    /\ settled = FALSE /\ done = Pending
    /\ exited = FALSE /\ timedOut = FALSE /\ failure = "none"
    /\ timers = {}
    /\ sessionName = IF opts.ephemeral \/ aborted THEN "failed" ELSE "pending"
    /\ detachCall = "none"
    /\ commands = 0
    /\ sent = [s \in Origins |-> 0]

-----------------------------------------------------------------------------
(* The functions of runExec that its handlers share.                       *)

NotNamed == IF sessionName = "pending" THEN "failed" ELSE sessionName

\* settle(): the first call decides, clears every timer and closes the socket.
\* w is the connection as the calling handler left it.
Settle(outcome, w) ==
    IF settled
    THEN ws' = w /\ UNCHANGED settleVars
    ELSE /\ settled' = TRUE
         /\ done' = outcome
         /\ sessionName' = NotNamed
         /\ timers' = {}
         /\ ws' = IF connected THEN CloseWs(w) ELSE w

Plain_IgnoresFailure(exit, reason) == Resolved(exit, timedOut)

\* What settle() without an error leaves: the recorded failure wins.
Plain(exit, reason) ==
    IF reason # "none" THEN Rejected(reason) ELSE Resolved(exit, timedOut)

\* runExec throws: the wrapper of startExec rejects result and sessionName.
Throw(e) ==
    /\ phase' = "thrown"
    /\ thrown' = e
    /\ sessionName' = NotNamed

\* connection.signal(): one frame per signal, on a connection not closed.
Record(signals) ==
    sent' = [s \in Origins |-> sent[s] + (IF s \in signals THEN 1 ELSE 0)]

\* signalRemote("TERM") inside terminate() finds no connection to signal yet.
PendTerm ==
    /\ pending' = "TERM"
    /\ timers' = {"escalation", "deadline"}
    /\ UNCHANGED <<settled, done, sessionName, ws, sent>>

\* It sends, and the two timers are armed; or the send throws, which settles.
SendTerm ==
    \/ /\ ~ws.closed
       /\ Record({"TERM"})
       /\ timers' = {"escalation", "deadline"}
       /\ UNCHANGED <<settled, done, sessionName, ws, pending>>
    \/ Settle(Rejected("transport"), ws) /\ UNCHANGED <<pending, sent>>

\* terminate(): only once, never for a detached, settled or exited command.
Terminate(why) ==
    IF settled \/ detached
    THEN UNCHANGED <<failure, terminating, pending, sent, ws, settleVars>>
    ELSE /\ failure' = IF failure = "none" THEN why ELSE failure
         /\ terminating' = TRUE
         /\ IF terminating
            THEN UNCHANGED <<pending, sent, ws, settleVars>>
            ELSE IF connected THEN SendTerm ELSE PendTerm

-----------------------------------------------------------------------------
(* Token, connect, retry once, fall back to a legacy connect once.         *)

\* mintShellToken() ends and, unless it failed or the signal was aborted
\* meanwhile, connectExecWs constructs the socket.
MintShellToken ==
    /\ phase = "mint"
    /\ \/ \E e \in (IF aborted THEN {"abort"} ELSE {"token"}) :
            Throw(e) /\ UNCHANGED ws
       \/ /\ ~aborted
          /\ phase' = "connecting"
          /\ ws' = Dialled
          /\ UNCHANGED <<thrown, sessionName>>
    /\ UNCHANGED <<attempt, connErr, commands, controlVars, settled, done, timers,
                   runVars, callerVars, sent>>

\* connectExecWs rejects; runExec's catch runs later.
RejectConnect(e, w) ==
    /\ phase' = "connectFailed"
    /\ connErr' = e
    /\ ws' = w

\* start(): init_exec is sent and the promise resolved, or the send throws.
\* A frame whose send threw is counted: nobody knows whether it left.
Start(w) ==
    /\ commands' = commands + 1
    /\ \/ /\ phase' = "opened"
          /\ ws' = [w EXCEPT !.opened = TRUE]
          /\ UNCHANGED connErr
       \/ RejectConnect("transport", CloseWs([w EXCEPT !.opened = TRUE]))

\* socket.onopen: a legacy connection starts at once, any other negotiates.
SocketOpen ==
    /\ phase = "connecting" /\ ws.sock = "connecting" /\ ~ws.closed
    /\ LET w == [ws EXCEPT !.sock = "open"] IN
       IF attempt = "legacy"
       THEN Start(w)
       ELSE /\ \/ /\ ws' = [w EXCEPT !.hello = TRUE]
                  /\ UNCHANGED <<phase, connErr>>
               \/ RejectConnect("transport", CloseWs(w))
            /\ UNCHANGED commands
    /\ UNCHANGED <<attempt, thrown, controlVars, settleVars, runVars, callerVars, sent>>

\* The exec_capabilities frame, acceptable or not.
RecvCapabilities ==
    /\ ws.sock = "open" /\ ~ws.closed /\ ws.hello /\ ~ws.opened
    /\ \/ Start(ws)
       \/ RejectConnect("capabilities", CloseWs(ws)) /\ UNCHANGED commands
    /\ UNCHANGED <<attempt, thrown, controlVars, settleVars, runVars, callerVars, sent>>

\* socket.onerror before the session is live.
SocketError ==
    /\ ws.sock \in {"connecting", "open"} /\ ~ws.opened /\ phase = "connecting"
    /\ RejectConnect("retryable", CloseWs(ws))
    /\ UNCHANGED <<attempt, thrown, commands, controlVars, settleVars, runVars,
                   callerVars, sent>>

\* What a close before the session is live means, by its close code: a normal
\* closure answers the bare hello of an old proxy, transient codes are retried.
CloseErrors == {"retryable", "denied"} \cup (IF ws.hello THEN {"unsupported"} ELSE {})

\* socket.onclose. Once live, the onClose handler of runExec settles.
SocketClosed ==
    /\ ws.sock \in {"connecting", "open", "closing"}
    /\ LET w == [ws EXCEPT !.sock = "closed", !.closed = TRUE] IN
       IF ws.opened
       THEN /\ Settle(IF detached THEN Plain(exited, failure) ELSE Rejected("interrupted"), w)
            /\ UNCHANGED <<phase, connErr>>
       ELSE /\ IF phase = "connecting"
               THEN \E e \in CloseErrors : RejectConnect(e, w)
               ELSE ws' = w /\ UNCHANGED <<phase, connErr>>
            /\ UNCHANGED settleVars
    /\ UNCHANGED <<attempt, thrown, commands, controlVars, runVars, callerVars, sent>>

MayRetry_AfterSend == attempt = "first" /\ connErr \in {"retryable", "transport"}

MayRetry == attempt = "first" /\ connErr = "retryable"

\* The exec-control fallback: only for a command that can do without it.
MayFallBack == connErr = "unsupported" /\ ~opts.stdin /\ ~opts.ephemeral

\* The continuation of a rejected connect: the two catch blocks of runExec.
ConnectFailed ==
    /\ phase = "connectFailed"
    /\ \/ /\ MayRetry /\ ~aborted
          /\ phase' = "delay"
          /\ UNCHANGED <<attempt, thrown, sessionName>>
       \/ /\ MayFallBack
          /\ phase' = "mint"
          /\ attempt' = "legacy"
          /\ UNCHANGED <<thrown, sessionName>>
       \/ /\ ~MayFallBack /\ (MayRetry => aborted)
          /\ Throw(IF MayRetry THEN "abort" ELSE connErr)
          /\ UNCHANGED attempt
    /\ UNCHANGED <<ws, connErr, commands, controlVars, settled, done, timers, runVars,
                   callerVars, sent>>

\* abortableDelay(CONNECT_RETRY_DELAY_MS) ends and a new token is asked for.
RetryDelay ==
    /\ phase = "delay"
    /\ phase' = "mint"
    /\ attempt' = "retry"
    /\ UNCHANGED <<thrown, ws, connErr, commands, controlVars, settleVars, runVars,
                   callerVars, sent>>

-----------------------------------------------------------------------------
(* The continuation of a successful connect.                               *)

BecomeConnected == phase = "opened" /\ phase' = "running" /\ connected' = TRUE

ConnectedTooLate_LeavesOpen ==
    /\ BecomeConnected
    /\ settled \/ detached
    /\ UNCHANGED <<ws, attempt, thrown, connErr, commands, pending, detached, terminating,
                   settleVars, runVars, callerVars, sent>>

\* Settled by a frame or detached meanwhile: close and wait.
ConnectedTooLate ==
    /\ BecomeConnected
    /\ settled \/ detached
    /\ ws' = CloseWs(ws)
    /\ UNCHANGED <<attempt, thrown, connErr, commands, pending, detached, terminating,
                   settleVars, runVars, callerVars, sent>>

PendingSignals_Dropped == {}

PendingSignals == IF pending = "none" THEN {} ELSE {pending}

AbortNow_NotChecked == FALSE

\* An abort that fell between connectExecWs and here is noticed here.
AbortNow == aborted /\ ~terminating

Connected_DetachedToo ==
    /\ BecomeConnected
    /\ ~settled
    /\ Record(PendingSignals \cup (IF AbortNow THEN {"TERM"} ELSE {}))
    /\ terminating' = (terminating \/ AbortNow)
    /\ failure' = IF failure = "none" /\ AbortNow THEN "abort" ELSE failure
    /\ timers' = IF terminating \/ AbortNow THEN {"escalation", "deadline"}
                 ELSE IF opts.timeout THEN {"timeout"} ELSE {}
    /\ UNCHANGED <<attempt, thrown, ws, connErr, commands, pending, detached, settled,
                   done, sessionName, exited, timedOut, callerVars>>

\* Pending signal, abort check, stdin EOF, timeout timer, all sent. (An abort
\* found while terminating already has left its reason when it fired, if any.)
Connected ==
    /\ BecomeConnected
    /\ ~settled /\ ~detached
    /\ Record(PendingSignals \cup (IF AbortNow THEN {"TERM"} ELSE {}))
    /\ terminating' = (terminating \/ AbortNow)
    /\ failure' = IF failure = "none" /\ AbortNow THEN "abort" ELSE failure
    /\ timers' = IF terminating \/ AbortNow THEN {"escalation", "deadline"}
                 ELSE IF opts.timeout THEN {"timeout"} ELSE {}
    /\ UNCHANGED <<attempt, thrown, ws, connErr, commands, pending, detached, settled,
                   done, sessionName, exited, timedOut, callerVars>>

\* The same, when one of the sends throws: the exec settles there, and what
\* follows finds it settled. failed names the send.
ConnectedSendFails(failed) ==
    /\ BecomeConnected
    /\ ~settled /\ ~detached
    /\ failed = "pending" => pending # "none"
    /\ failed = "TERM" => AbortNow
    /\ failed = "eof" => ~opts.stdin
    /\ Record((IF failed = "pending" THEN {} ELSE PendingSignals)
              \cup (IF failed = "eof" /\ AbortNow THEN {"TERM"} ELSE {}))
    /\ terminating' = (terminating \/ (AbortNow /\ failed # "pending"))
    /\ failure' = IF failure = "none" /\ AbortNow /\ failed # "pending"
                  THEN "abort" ELSE failure
    /\ settled' = TRUE
    /\ done' = Rejected("transport")
    /\ sessionName' = NotNamed
    /\ timers' = {}
    /\ ws' = CloseWs(ws)
    /\ UNCHANGED <<attempt, thrown, connErr, commands, pending, detached, exited,
                   timedOut, callerVars>>

-----------------------------------------------------------------------------
(* Frames of the live session.                                             *)

Receive == ws.opened /\ ~ws.closed /\ ws.sock = "open"

\* What the output callbacks may do to the handle while onExit flushes the decoders
\* to them, before it settles: kill(), and abort. The command has exited, so that
\* terminate() records the failure and does no more.
FlushCallbacks(kills, aborts) ==
    /\ kills => ~detached /\ (connected => sent["user"] < MaxKills)
    /\ IF kills /\ connected THEN Record({"user"}) ELSE UNCHANGED sent
    /\ pending' = IF kills /\ ~connected THEN "user" ELSE pending
    /\ aborts => opts.signal /\ ~aborted
    /\ aborted' = (aborted \/ aborts)
    /\ failure' = IF aborts /\ phase = "running" /\ ~detached /\ failure = "none"
                  THEN "abort" ELSE failure

\* exit with a valid code. A callback that throws settles before the exit does.
RecvExit ==
    /\ Receive /\ ~settled
    /\ exited' = TRUE
    /\ \E kills, aborts, throws \in BOOLEAN :
          /\ FlushCallbacks(kills, aborts)
          /\ Settle(IF throws THEN Rejected("callback") ELSE Plain(TRUE, failure'), ws)
    /\ UNCHANGED <<phase, attempt, thrown, connErr, commands, connected, detached,
                   terminating, timedOut, opts, detachCall>>

\* stdout or stderr whose callback throws. (What else a callback does is a step of
\* the caller just before.)
RecvOutput ==
    /\ Receive /\ ~settled
    /\ Settle(Rejected("callback"), ws)
    /\ UNCHANGED <<phase, attempt, thrown, connErr, commands, controlVars, runVars,
                   callerVars, sent>>

\* A typed error, an exit without a valid code, a credit grant out of bounds.
RecvError ==
    /\ Receive
    /\ Settle(Rejected("interrupted"), ws)
    /\ UNCHANGED <<phase, attempt, thrown, connErr, commands, controlVars, runVars,
                   callerVars, sent>>

\* stdin_error: the remote write failed, so the command is terminated.
RecvStdinError ==
    /\ Receive
    /\ Terminate("stdin")
    /\ UNCHANGED <<phase, attempt, thrown, connErr, commands, connected, detached, exited,
                   timedOut, callerVars>>

\* durable_session: the first name counts.
RecvDurableSession ==
    /\ Receive /\ sessionName = "pending"
    /\ sessionName' = "named"
    /\ UNCHANGED <<connectVars, controlVars, settled, done, timers, runVars, callerVars,
                   sent>>

-----------------------------------------------------------------------------
(* Timers.                                                                 *)

KILL_GRACE_MS == 5000

TERMINATION_CONFIRM_MS_Halved == KILL_GRACE_MS \div 2

TERMINATION_CONFIRM_MS == KILL_GRACE_MS * 2

\* The escalation and the deadline are armed by one call: the one due first fires first.
EscalationDue == "deadline" \in timers => KILL_GRACE_MS <= TERMINATION_CONFIRM_MS
DeadlineDue == "escalation" \in timers => TERMINATION_CONFIRM_MS < KILL_GRACE_MS

TimeoutFires ==
    /\ phase = "running" /\ "timeout" \in timers
    /\ timedOut' = TRUE
    /\ \/ /\ settled \/ detached \/ terminating
          /\ timers' = timers \ {"timeout"}
          /\ UNCHANGED <<failure, terminating, pending, sent, ws, settled, done, sessionName>>
       \/ /\ ~(settled \/ detached \/ terminating)
          /\ Terminate("none")
    /\ UNCHANGED <<phase, attempt, thrown, connErr, commands, connected, detached, exited,
                   callerVars>>

EscalationFires ==
    /\ phase = "running" /\ "escalation" \in timers /\ EscalationDue
    /\ \/ /\ ~ws.closed
          /\ Record({"KILL"})
          /\ timers' = timers \ {"escalation"}
          /\ UNCHANGED <<settled, done, sessionName, ws>>
       \/ Settle(Rejected("transport"), ws) /\ UNCHANGED sent
    /\ UNCHANGED <<phase, attempt, thrown, connErr, commands, controlVars, runVars,
                   callerVars>>

DeadlineFires ==
    /\ phase = "running" /\ "deadline" \in timers /\ DeadlineDue
    /\ Settle(IF timedOut /\ failure = "none" THEN Plain(exited, failure)
              ELSE Rejected("unconfirmed"), ws)
    /\ UNCHANGED <<phase, attempt, thrown, connErr, commands, controlVars, runVars,
                   callerVars, sent>>

-----------------------------------------------------------------------------
(* The caller.                                                             *)

\* options.signal fires. Who listens depends on where runExec is.
Abort ==
    /\ opts.signal /\ ~aborted
    /\ aborted' = TRUE
    /\ CASE phase = "connecting" ->
              /\ RejectConnect("abort", CloseWs(ws))
              /\ UNCHANGED <<thrown, failure, terminating, pending, sent, settleVars>>
         [] phase = "delay" ->
              /\ Throw("abort")
              /\ UNCHANGED <<connErr, ws, failure, terminating, pending, sent, settled,
                             done, timers>>
         [] phase = "running" ->
              /\ Terminate("abort")
              /\ UNCHANGED <<phase, thrown, connErr>>
         [] OTHER ->
              UNCHANGED <<phase, thrown, connErr, ws, failure, terminating, pending, sent,
                          settleVars>>
    /\ UNCHANGED <<attempt, commands, connected, detached, exited, timedOut, opts,
                   detachCall>>

\* kill(signal): kept for later when there is no connection yet. A send that
\* throws only makes kill() return false.
Kill ==
    /\ ~Finished /\ ~detached
    /\ IF connected
       THEN /\ sent["user"] < MaxKills
            /\ ~ws.closed
            /\ Record({"user"})
            /\ UNCHANGED pending
       ELSE pending' = "user" /\ UNCHANGED sent
    /\ UNCHANGED <<connectVars, connected, detached, terminating, settleVars, runVars,
                   callerVars>>

\* detach() awaits the session name.
Detach ==
    /\ ~opts.ephemeral
    /\ detachCall # "awaiting" /\ ~detached
    /\ detachCall' = "awaiting"
    /\ UNCHANGED <<connectVars, controlVars, settleVars, runVars, opts, aborted, sent>>

\* and continues when it is known: refused if there is none or the command is
\* being terminated, else the connection is closed behind the command.
DetachNamed ==
    /\ detachCall = "awaiting" /\ sessionName # "pending"
    /\ IF sessionName = "failed" \/ terminating
       THEN detachCall' = "refused" /\ UNCHANGED <<detached, ws>>
       ELSE /\ detachCall' = "done"
            /\ detached' = TRUE
            /\ ws' = IF connected THEN CloseWs(ws) ELSE ws
    /\ UNCHANGED <<phase, attempt, thrown, connErr, commands, connected, pending,
                   terminating, settleVars, runVars, opts, aborted, sent>>

-----------------------------------------------------------------------------
ConnectStep ==
    \/ MintShellToken \/ ConnectFailed \/ RetryDelay
    \/ SocketOpen \/ RecvCapabilities \/ SocketError \/ SocketClosed
    \/ ConnectedTooLate \/ Connected
    \/ \E failed \in {"pending", "TERM", "eof"} : ConnectedSendFails(failed)

FrameStep ==
    RecvExit \/ RecvOutput \/ RecvError \/ RecvStdinError \/ RecvDurableSession

TimerStep == TimeoutFires \/ EscalationFires \/ DeadlineFires

CallerStep == Abort \/ Kill \/ Detach \/ DetachNamed

Next == ConnectStep \/ FrameStep \/ TimerStep \/ CallerStep

\* The event loop runs every continuation and every timer, an aborted fetch
\* ends, and a socket this side closed gets its close event. The proxy owes
\* nothing.
Fairness ==
    /\ WF_vars(MintShellToken)
    /\ WF_vars(ConnectFailed)
    /\ WF_vars(RetryDelay)
    /\ WF_vars(ConnectedTooLate \/ Connected)
    /\ WF_vars(TimeoutFires)
    /\ WF_vars(EscalationFires)
    /\ WF_vars(DeadlineFires)
    /\ WF_vars(DetachNamed)
    /\ WF_vars(ws.sock = "closing" /\ SocketClosed)

Spec == Init /\ [][Next]_vars /\ Fairness

-----------------------------------------------------------------------------
(* Safety.                                                                 *)

\* Over the retry and the legacy fallback, init_exec is given to a socket at
\* most once: no failure path runs the caller's command twice.
AtMostOneCommand == commands <= 1

\* An exec rejected by an error that tells the caller no command was sent (a
\* refused capability, ExecNotStartedError, ExecControlUnsupportedError, a
\* failed token) sent none on any of its connections.
NotSent == {"token", "unsupported", "retryable", "denied", "capabilities"}
NotStartedIsTrue ==
    Result.status = "rejected" /\ Result.error \in NotSent => commands = 0

\* detach() and terminate() exclude each other, however the name, the abort,
\* the timeout and a stdin error are ordered around detach()'s await.
DetachExcludesTerminate == ~(detached /\ terminating)

\* A resolved result is explained: the command exited, or the handle was detached,
\* or the command ran out of its time; and no recorded abort or stdin failure is
\* swallowed by whichever frame, timer or close settled the exec.
ResultExplained ==
    done.status = "resolved" =>
        failure = "none" /\ (done.exit \/ done.timedOut \/ detached)

\* "Termination was not confirmed" is only told of a command that was signalled to
\* end, was then sent KILL, and of which no exit has come: whatever came between the
\* two timers, and though the first signal may have waited for the connection.
UnconfirmedIsTrue ==
    Result.error = "unconfirmed" =>
        terminating /\ ~exited /\ sent["TERM"] + sent["user"] > 0 /\ sent["KILL"] > 0

\* When the result is there nothing of the exec is left over: no timer, no open
\* socket, and sessionName (which detach() awaits) is settled too.
NothingLeftOver ==
    Result.status # "pending" =>
        timers = {} /\ (ws.sock = "none" \/ ws.closed) /\ sessionName # "pending"

-----------------------------------------------------------------------------
(* Action properties.                                                      *)

\* After detach() returned, nothing more is signalled to the command: not by a
\* kill() kept for later, nor by a timer armed before.
DetachedLeftAlone == [][detached => sent' = sent]_vars

-----------------------------------------------------------------------------
(* Liveness.                                                               *)

\* An exec that was aborted, detached or is being terminated ends, whatever the
\* proxy does or fails to do; so does one with a time limit, once connected.
Stopped == aborted \/ terminating \/ detached \/ (opts.timeout /\ phase = "running")
StoppedEnds == Stopped ~> Result.status # "pending"

-----------------------------------------------------------------------------
(* Refinement.                                                             *)

\* What of this exec its caller sees.
SideShown == IF detached THEN "detached" ELSE IF terminating THEN "terminating" ELSE "attached"

SignalsShown == IF sent["KILL"] > 0 THEN "KILL"
                ELSE IF sent["TERM"] + sent["user"] > 0 THEN "signal" ELSE "none"

ResultShown ==
    CASE Result.status = "pending" -> "pending"
      [] Result.status = "rejected" -> IF Result.error \in NotSent THEN "not started" ELSE "failed"
      [] OTHER -> IF Result.exit THEN "exited" ELSE IF detached THEN "detached" ELSE "timed out"

Contract == INSTANCE ExecContract WITH
    submitted <- commands > 0, side <- SideShown, signals <- SignalsShown,
    name <- sessionName, result <- ResultShown

\* The exec keeps what ExecContract promises its caller: one result, true to what
\* was sent, signalled and detached, in every order of events.
ContractHolds == Contract!Spec

-----------------------------------------------------------------------------
(* What the documentation says and the code does not do.                   *)

\* ExecResult.timedOut is documented as true when the deadline killed the command.
TimedOutTerminated == Result.timedOut => terminating
=============================================================================
