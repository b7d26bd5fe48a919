------------------------------ MODULE ExecStdin ------------------------------
(***************************************************************************)
(* The standard input of one exec: the queue behind handle.stdin           *)
(* (sandbox/exec.ts) and writeStdin, closeStdin and the credits of the     *)
(* connection (core/exec-ws-client.ts).                                    *)
(*                                                                         *)
(* Calls of stdin.write() and stdin.end() run one after the other on the   *)
(* promise chain `stdinTail'.  A write is cut into chunks, each costs one  *)
(* credit, and the proxy gives credits back as the command reads.  The     *)
(* proxy and the command are modelled from how the client counts on them:  *)
(* a chunk is sent, then held by the proxy, then read, and what was read   *)
(* comes back in stdin_credit frames of any size.                          *)
(*                                                                         *)
(* control.finished, .detached and .terminating are each set together with *)
(* stdinController.abort(), so `writable' stands for all of them.          *)
(*                                                                         *)
(* Operator_Fault is Operator with one plausible bug; no specification     *)
(* uses it.                                                                *)
(***************************************************************************)
EXTENDS Naturals, Sequences, FiniteSetsExt, SequencesExt

CONSTANTS
    Windows,    \* the windows the proxy may offer, in chunks
    HighWater,  \* SEND_HIGH_WATER_BYTES, in chunks
    MaxChunks,  \* bound: chunks of one write
    MaxCalls    \* bound: calls of write() and end()

ASSUME WindowsAssumption == Windows \subseteq Nat \ {0}
ASSUME BoundsAssumption == HighWater \in Nat /\ MaxChunks \in Nat /\ MaxCalls \in Nat

VARIABLES
    conn,      \* the `ready' connection: pending, open, closed or failed
    writable,  \* stdin not aborted
    ended,     \* stdinEnded
    calls,     \* the calls queued: the number of chunks of a write, or Eof
    okCalls,   \* how many of them are fulfilled, in order
    broken,    \* stdinTail is rejected: every call after those rejects
    writer,    \* what the running call waits for
    left,      \* chunks the running write has not sent
    window,    \* `window'
    credits,   \* `credits'
    wire,      \* chunks sent, not yet with the proxy
    held,      \* chunks with the proxy, not yet read by the command
    freed,     \* chunks read, their credits not yet back
    log        \* history: frames sent, <<call, chunk>>, chunk 0 for the EOF

callVars == <<ended, calls>>
chainVars == <<okCalls, broken, writer, left>>
flowVars == <<credits, wire, held, freed>>
vars == <<conn, writable, callVars, chainVars, window, flowVars, log>>

Eof == MaxChunks + 1

Init ==
    /\ conn = "pending" /\ writable = TRUE
    /\ ended = FALSE /\ calls = <<>>
    /\ okCalls = 0 /\ broken = FALSE /\ writer = "idle" /\ left = 0
    /\ window \in Windows /\ credits = window
    /\ wire = 0 /\ held = 0 /\ freed = 0
    /\ log = <<>>

Current == okCalls + 1
Settled(i) == i <= okCalls \/ broken

-----------------------------------------------------------------------------
(* The calls.                                                              *)

\* stdin.write(): refused after end() and when stdin is no longer writable.
Write(n) ==
    /\ Len(calls) < MaxCalls
    /\ ~ended /\ writable
    /\ calls' = Append(calls, n)
    /\ UNCHANGED <<conn, writable, ended, chainVars, window, flowVars, log>>

\* stdin.end(): the first one queues the EOF behind the writes. (Once the exec
\* has settled it does nothing; here it may also queue and be rejected.)
End ==
    /\ Len(calls) < MaxCalls
    /\ ~ended
    /\ ended' = TRUE
    /\ calls' = Append(calls, Eof)
    /\ UNCHANGED <<conn, writable, chainVars, window, flowVars, log>>

-----------------------------------------------------------------------------
(* The chain.                                                              *)

\* The running call fails, and with it every call chained after it.
Reject ==
    /\ broken' = TRUE
    /\ writer' = "idle" /\ left' = 0
    /\ UNCHANGED okCalls

\* The abort of stdinController rejects a wait for credit at once; a write that
\* polls the send buffer sees it at its next look.
AbortWriter_KeepsWaiter == UNCHANGED chainVars

AbortWriter == IF writer = "credit" THEN Reject ELSE UNCHANGED chainVars

Fulfil ==
    /\ okCalls' = okCalls + 1
    /\ writer' = "idle" /\ left' = 0
    /\ UNCHANGED broken

\* The loop of writeStdin from one await to the next with n chunks to send: as
\* many as credits and the send buffer allow. bufferedAmount is checked before
\* each frame, so one frame more than the mark gets in.
Room == IF wire > HighWater THEN 0 ELSE HighWater + 1 - wire

SendChunks_Restarts(n) ==
    LET sending == Min({n, credits, Room}) IN
    /\ credits' = credits - sending
    /\ wire' = wire + sending
    /\ log' = log \o [k \in 1..sending |-> <<Current, k>>]
    /\ IF sending = n
       THEN Fulfil
       ELSE /\ left' = n - sending
            /\ writer' = IF sending = credits THEN "credit" ELSE "buffer"
            /\ UNCHANGED <<okCalls, broken>>
    /\ UNCHANGED <<held, freed>>

SendChunks_SettlesEarly(n) ==
    LET sending == Min({n, credits, Room}) IN
    /\ credits' = credits - sending
    /\ wire' = wire + sending
    /\ log' = log \o [k \in 1..sending |-> <<Current, calls[Current] - n + k>>]
    /\ Fulfil
    /\ UNCHANGED <<held, freed>>

SendChunks(n) ==
    LET sending == Min({n, credits, Room}) IN
    /\ credits' = credits - sending
    /\ wire' = wire + sending
    /\ log' = log \o [k \in 1..sending |-> <<Current, calls[Current] - n + k>>]
    /\ IF sending = n
       THEN Fulfil
       ELSE /\ left' = n - sending
            /\ writer' = IF sending = credits THEN "credit" ELSE "buffer"
            /\ UNCHANGED <<okCalls, broken>>
    /\ UNCHANGED <<held, freed>>

\* closeStdin()
SendEof ==
    /\ log' = Append(log, <<Current, 0>>)
    /\ Fulfil
    /\ UNCHANGED flowVars

\* The next call of the chain runs once the connection is ready or has failed.
StartCall ==
    /\ conn # "pending"
    /\ Current <= Len(calls) /\ ~broken /\ writer = "idle"
    /\ IF ~writable THEN Reject /\ UNCHANGED <<flowVars, log>>
       ELSE IF calls[Current] = Eof THEN SendEof ELSE SendChunks(calls[Current])
    /\ UNCHANGED <<conn, writable, callVars, window>>

\* A write resumes: woken by credits, or polling the send buffer. An abort that
\* came while it polled is noticed here.
Resume ==
    /\ \/ writer = "woken"
       \/ writer = "buffer" /\ (Room > 0 \/ ~writable)
    /\ IF writable THEN SendChunks(left)
       ELSE Reject /\ UNCHANGED <<flowVars, log>>
    /\ UNCHANGED <<conn, writable, callVars, window>>

\* SEND_STALL_TIMEOUT_MS above the mark: the write gives up.
Stall ==
    /\ writer = "buffer" /\ Room = 0
    /\ Reject
    /\ UNCHANGED <<conn, writable, callVars, window, flowVars, log>>

-----------------------------------------------------------------------------
(* The exec around it, and the other end.                                  *)

\* connectExecWs resolves, or runExec ends without a connection.
Ready ==
    /\ conn = "pending"
    /\ \/ conn' = "open" /\ UNCHANGED writable
       \/ conn' = "failed" /\ writable' = FALSE
    /\ UNCHANGED <<callVars, chainVars, window, flowVars, log>>

\* stdinController.abort(): by terminate(), which keeps the connection open, or
\* by settle() and detach(), which close it.
StopWriting ==
    /\ writable /\ conn = "open"
    /\ writable' = FALSE
    /\ conn' \in {"open", "closed"}
    /\ AbortWriter
    /\ UNCHANGED <<callVars, window, flowVars, log>>

\* The exec being terminated settles.
Close ==
    /\ ~writable /\ conn = "open"
    /\ conn' = "closed"
    /\ UNCHANGED <<writable, callVars, chainVars, window, flowVars, log>>

ProxyReceives ==
    /\ conn = "open" /\ wire > 0
    /\ wire' = wire - 1 /\ held' = held + 1
    /\ UNCHANGED <<conn, writable, callVars, chainVars, window, credits, freed, log>>

CommandReads ==
    /\ conn = "open" /\ held > 0
    /\ held' = held - 1 /\ freed' = freed + 1
    /\ UNCHANGED <<conn, writable, callVars, chainVars, window, credits, wire, log>>

\* validCreditGrant: a grant that would exceed the window is an error.
ValidGrant(chunks) == chunks > 0 /\ chunks <= window - credits

RecvCredit_NoWake(chunks) ==
    /\ conn = "open" /\ chunks <= freed /\ ValidGrant(chunks)
    /\ credits' = credits + chunks /\ freed' = freed - chunks
    /\ UNCHANGED <<conn, writable, callVars, chainVars, window, wire, held, log>>

RecvCredit_TopsUp(chunks) ==
    /\ conn = "open" /\ chunks <= freed /\ ValidGrant(chunks)
    /\ credits' = window /\ freed' = freed - chunks
    /\ writer' = IF writer = "credit" THEN "woken" ELSE writer
    /\ UNCHANGED <<conn, writable, callVars, okCalls, broken, left, window, wire, held, log>>

\* A stdin_credit frame adds its chunks and wakes the write that waits.
RecvCredit(chunks) ==
    /\ conn = "open" /\ chunks <= freed /\ ValidGrant(chunks)
    /\ credits' = credits + chunks /\ freed' = freed - chunks
    /\ writer' = IF writer = "credit" THEN "woken" ELSE writer
    /\ UNCHANGED <<conn, writable, callVars, okCalls, broken, left, window, wire, held, log>>

\* An invalid one is a connection error, which settles the exec and closes.
RecvBadCredit(chunks) ==
    /\ conn = "open" /\ ~ValidGrant(chunks)
    /\ conn' = "closed" /\ writable' = FALSE
    /\ AbortWriter
    /\ UNCHANGED <<callVars, window, flowVars, log>>

-----------------------------------------------------------------------------
ClientStep ==
    \/ \E n \in 0..MaxChunks : Write(n)
    \/ End \/ StartCall \/ Resume \/ Stall

ProxyStep ==
    \/ ProxyReceives \/ CommandReads
    \/ \E chunks \in 1..window : RecvCredit(chunks)
    \/ \E chunks \in 0..window + 1 : RecvBadCredit(chunks)

Next == ClientStep \/ ProxyStep \/ Ready \/ StopWriting \/ Close

\* The event loop runs what is runnable. Nothing is assumed of the proxy: the
\* wait for its exec_capabilities has no timeout, so Ready may never come.
Fairness == WF_vars(StartCall) /\ WF_vars(Resume)

Spec == Init /\ [][Next]_vars /\ Fairness

\* The proxy answers the handshake, or the connect fails.
HandshakeEnds == WF_vars(Ready)

\* The command reads its input and the proxy forwards and credits it. The code
\* does not rely on it: a write waits for credits without a deadline.
ReadingCommand ==
    WF_vars(ProxyReceives) /\ WF_vars(CommandReads) /\ WF_vars(RecvCredit(1))

-----------------------------------------------------------------------------
(* Properties.                                                             *)

\* No chunk's credit is lost or made twice: each is with the client, on its way,
\* held by the proxy, or on its way back.
CreditsConserved == credits + wire + held + freed = window

\* What the calls ask for, in call order.
Frames(i) == IF calls[i] = Eof THEN <<<<i, 0>>>>
             ELSE [k \in 1..calls[i] |-> <<i, k>>]

StreamOf(count) == FlattenSeq([i \in 1..count |-> Frames(i)])

\* The socket gets exactly the frames of the calls, in the order of the calls: no
\* chunk is repeated or skipped by a wait, or sent after a failed call; and the
\* EOF follows every chunk of the writes before it.
StreamInOrder == IsPrefix(log, StreamOf(Len(calls)))

\* A write() or end() that resolved has given all its frames to the socket.
ResolvedWasSent == IsPrefix(StreamOf(okCalls), log)

\* When stdin is aborted or the connection gone, every call settles: no write is
\* left waiting for credits that cannot come.
WriterReleased == ~writable ~> \A i \in 1..Len(calls) : Settled(i)

\* Once the handshake ends, and while the command reads, every call settles. A
\* proxy that stays silent leaves them all pending, and one that stops crediting
\* the one it stopped in: neither wait has a deadline, so the premise says both.
EveryCallSettles ==
    HandshakeEnds /\ ReadingCommand =>
        \A i \in 1..MaxCalls : Len(calls) >= i ~> Settled(i)
=============================================================================
