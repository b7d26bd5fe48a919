------------------------------ MODULE FilesWrite ------------------------------
(***************************************************************************)
(* One upload: write() and #writeOnce of sandbox/files.ts, the upload      *)
(* sources and the retry rule of sandbox/files-transfer.ts, and the write  *)
(* request of core/files-ws-client.ts.                                     *)
(*                                                                         *)
(* The content is the chunks 1 .. source.chunks, one frame each.  The last *)
(* chunk travels with the end marker, so the loop always holds one chunk   *)
(* back; chunk 0 stands for an empty payload.  A frame <<place, chunk,     *)
(* last>> names the place in the file where the service's handle stands    *)
(* when it comes to it: the number of chunks sent on its connection.       *)
(*                                                                         *)
(* The service is modelled from what the client can take of it.            *)
(* write_ready truncates the file, frames are written where the handle of  *)
(* their upload stands, `ok' is believed at any time after write_ready.    *)
(* The connection may be lost, or the write refused, at any time.  The     *)
(* close of a connection flushes what was sent on it: the frames of a      *)
(* given-up attempt, and a write_start nobody answered, may reach the file *)
(* during a later attempt or after the last.                               *)
(*                                                                         *)
(* Operator_Fault is Operator with one plausible bug; no specification     *)
(* uses it.                                                                *)
(***************************************************************************)
EXTENDS Naturals, Sequences

CONSTANTS
    MaxChunks,   \* bound: chunks of the content
    HighWater,   \* SEND_HIGH_WATER_BYTES, in frames
    MaxRetries   \* TRANSFER_MAX_RETRIES

ASSUME BoundsAssumption == MaxChunks \in Nat /\ HighWater \in Nat /\ MaxRetries \in Nat

VARIABLES
    source,    \* the content: its chunks, replayable or one-shot
    mode,      \* options.mode is given
    phase,     \* what write() awaits
    parent,    \* the parent directory exists
    madeParent,\* this attempt has been through mkdir
    retries,   \* `retries'
    pulled,    \* chunks the iterator in use has yielded
    held,      \* `held', 0 if undefined
    consumed,  \* consumed() of the source
    settled,   \* how the running write request settled
    sent,      \* chunks sent on the connection
    wire,      \* frames sent, not yet with the service: <<place, chunk, last>>
    late,      \* chunks of given-up attempts still under way: <<place, chunk>>
    lateStart, \* a write_start of one is
    file,      \* the file: <<place, chunk>>s, and whether its upload's end was marked
    outcome,   \* how write() settled
    pulls,     \* history: attempts that pulled the source
    breach     \* history: the service said `ok' to the running upload before its end
               \* marker, or emptied the file again for a late write_start

sourceVars == <<source, mode>>
loopVars == <<pulled, held, consumed, pulls>>
lateVars == <<late, lateStart>>
fileVars == <<file, breach>>
vars == <<sourceVars, phase, parent, madeParent, retries, loopVars, settled, sent, wire,
          lateVars, fileVars, outcome>>

Streaming == {"pull", "drain", "drainLast"}

Init ==
    /\ source \in [chunks: 0..MaxChunks, replayable: BOOLEAN]
    /\ mode \in BOOLEAN
    /\ phase = "connect"
    /\ parent \in BOOLEAN /\ madeParent = FALSE
    /\ retries = 0
    /\ pulled = 0 /\ held = 0 /\ consumed = FALSE
    /\ settled = "no"
    /\ sent = 0 /\ wire = <<>>
    /\ late = {} /\ lateStart = FALSE
    /\ file = [pieces |-> {}, complete |-> FALSE] /\ breach = FALSE
    /\ outcome = "none"
    /\ pulls = 0

-----------------------------------------------------------------------------
(* Attempts.  A failure is "closed" (the socket is gone, or was given up), *)
(* "lost" (the service reports that it lost the sandbox) or "failed".      *)

Kinds == {"closed", "lost", "failed"}

\* isTransientTransfer(error)
Transient(kind) == kind \in {"closed", "lost"}

CanRetry_ForgetsSource(kind) ==
    /\ Transient(kind)
    /\ retries + 1 <= MaxRetries

\* canRetryWrite(error, source, ++retries)
CanRetry(kind) ==
    /\ Transient(kind)
    /\ source.replayable \/ ~consumed
    /\ retries + 1 <= MaxRetries

\* The chunks among the frames s, each with its place.
Pieces(s) == {<<s[i][1], s[i][2]>> : i \in {j \in 1..Len(s) : s[j][2] # 0}}

\* #writeOnce rejects and closes its connection; what was sent on it is flushed.
AttemptFails(kind) ==
    /\ retries' = retries + 1
    /\ wire' = <<>> /\ late' = late \cup Pieces(wire)
    /\ lateStart' = (lateStart \/ (phase = "start" /\ Transient(kind)))
    /\ IF CanRetry(kind) THEN phase' = "delay" /\ UNCHANGED outcome
       ELSE phase' = "ended" /\ outcome' = IF Transient(kind) THEN "lost" ELSE "failed"

\* #writeOnce resolves; a mode is left to apply.
AttemptSucceeds ==
    /\ IF mode THEN phase' = "chmod" /\ UNCHANGED outcome
       ELSE phase' = "ended" /\ outcome' = "ok"
    /\ UNCHANGED <<retries, wire, lateVars>>

\* `return done'
AttemptEnds == IF settled = "ok" THEN AttemptSucceeds ELSE AttemptFails(settled)

RetryDelay ==
    /\ phase = "delay"
    /\ phase' = "connect"
    /\ UNCHANGED <<sourceVars, parent, madeParent, retries, loopVars, settled, sent, wire,
                   lateVars, fileVars, outcome>>

Connect_MarksConsumed ==
    /\ phase = "connect"
    /\ phase' = "start"
    /\ madeParent' = FALSE /\ settled' = "no" /\ held' = 0
    /\ pulled' = IF source.replayable THEN 0 ELSE pulled
    /\ consumed' = TRUE
    /\ UNCHANGED <<sourceVars, parent, retries, pulls, sent, wire, lateVars, fileVars, outcome>>

\* A lease is there; chunks() restarts a replayable source, and continues a
\* one-shot one. write_start is sent.
Connect ==
    /\ phase = "connect"
    /\ phase' = "start"
    /\ madeParent' = FALSE /\ settled' = "no" /\ held' = 0
    /\ pulled' = IF source.replayable THEN 0 ELSE pulled
    /\ UNCHANGED <<sourceVars, parent, retries, consumed, pulls, sent, wire, lateVars,
                   fileVars, outcome>>

ConnectFails(kind) ==
    /\ phase = "connect"
    /\ AttemptFails(kind)
    /\ UNCHANGED <<sourceVars, parent, madeParent, loopVars, settled, sent, fileVars>>

-----------------------------------------------------------------------------
(* The write_start handshake.                                              *)

\* write_ready: the server has created or truncated the file, and opened it.
WriteReady ==
    /\ phase = "start" /\ parent
    /\ phase' = "ready"
    /\ file' = [pieces |-> {}, complete |-> FALSE] /\ breach' = FALSE
    /\ sent' = 0
    /\ UNCHANGED <<sourceVars, parent, madeParent, retries, loopVars, settled, wire,
                   lateVars, outcome>>

\* The parent directory is missing: once per attempt it is made.
MissingParent ==
    /\ phase = "start" /\ ~parent
    /\ IF madeParent
       THEN AttemptFails("failed")
       ELSE phase' = "mkdir" /\ UNCHANGED <<retries, wire, lateVars, outcome>>
    /\ UNCHANGED <<sourceVars, parent, madeParent, loopVars, settled, sent, fileVars>>

MadeParent ==
    /\ phase = "mkdir"
    /\ phase' = "start"
    /\ parent' = TRUE /\ madeParent' = TRUE
    /\ UNCHANGED <<sourceVars, retries, loopVars, settled, sent, wire, lateVars, fileVars,
                   outcome>>

\* ok before write_ready is a protocol error.
OkBeforeReady ==
    /\ phase = "start"
    /\ AttemptFails("failed")
    /\ UNCHANGED <<sourceVars, parent, madeParent, loopVars, settled, sent, fileVars>>

\* The request is refused, or lost with the connection: a mkdir may have been done.
HandshakeFails(kind) ==
    /\ phase \in {"start", "mkdir"}
    /\ AttemptFails(kind)
    /\ parent' \in {parent, parent \/ phase = "mkdir"}
    /\ UNCHANGED <<sourceVars, madeParent, loopVars, settled, sent, fileVars>>

-----------------------------------------------------------------------------
(* streamUpload.                                                           *)

\* The continuation of `await writeReady' pulls the source, settled or not.
Pull ==
    /\ phase = "ready"
    /\ phase' = "pull"
    /\ consumed' = TRUE
    /\ pulls' = pulls + 1
    /\ UNCHANGED <<sourceVars, parent, madeParent, retries, pulled, held, settled, sent,
                   wire, lateVars, fileVars, outcome>>

\* awaitDrain()
Drained == Len(wire) <= HighWater

SettledEarly_AwaitsSource ==
    /\ phase \in {"drain", "drainLast"} /\ settled # "no"
    /\ AttemptEnds
    /\ UNCHANGED <<sourceVars, parent, madeParent, loopVars, settled, sent, fileVars>>

\* The request settled early. A pull ends at once, and a source that yields nothing
\* more is left behind; a drain ends when the buffer has drained or the socket is
\* closed, which it may be at any time.
SettledEarly ==
    /\ phase \in Streaming /\ settled # "no"
    /\ AttemptEnds
    /\ UNCHANGED <<sourceVars, parent, madeParent, loopVars, settled, sent, fileVars>>

\* The source yields a chunk. The one held before it is now known not to be last.
SourceYields ==
    /\ phase = "pull" /\ settled = "no" /\ pulled < source.chunks
    /\ pulled' = pulled + 1
    /\ IF held = 0 THEN held' = pulled' /\ UNCHANGED phase
       ELSE phase' = "drain" /\ UNCHANGED held
    /\ UNCHANGED <<sourceVars, parent, madeParent, retries, consumed, pulls, settled, sent,
                   wire, lateVars, fileVars, outcome>>

SourceEnds ==
    /\ phase = "pull" /\ settled = "no" /\ pulled = source.chunks
    /\ phase' = "drainLast"
    /\ UNCHANGED <<sourceVars, parent, madeParent, retries, loopVars, settled, sent, wire,
                   lateVars, fileVars, outcome>>

\* The source throws: the socket is closed on the half-written file.
SourceFails ==
    /\ phase = "pull" /\ settled = "no"
    /\ AttemptFails("failed")
    /\ UNCHANGED <<sourceVars, parent, madeParent, loopVars, settled, sent, fileVars>>

\* sendContent
SendContent(chunk, last) ==
    /\ wire' = Append(wire, <<sent + 1, chunk, last>>)
    /\ sent' = IF chunk = 0 THEN sent ELSE sent + 1

Send ==
    /\ phase = "drain" /\ settled = "no" /\ Drained
    /\ SendContent(held, FALSE)
    /\ held' = pulled
    /\ phase' = "pull"
    /\ UNCHANGED <<sourceVars, parent, madeParent, retries, pulled, consumed, pulls, settled,
                   lateVars, fileVars, outcome>>

\* The end marker, on the chunk held or on an empty frame.
SendLast ==
    /\ phase = "drainLast" /\ settled = "no" /\ Drained
    /\ SendContent(held, TRUE)
    /\ phase' = "ack"
    /\ UNCHANGED <<sourceVars, parent, madeParent, retries, loopVars, settled, lateVars,
                   fileVars, outcome>>

\* INACTIVITY_TIMEOUT_MS above the mark. awaitDrain does not look whether the
\* request has settled, and its error is thrown in place of the request's.
Stall ==
    /\ phase \in {"drain", "drainLast"} /\ settled # "closed" /\ ~Drained
    /\ AttemptFails("closed")
    /\ UNCHANGED <<sourceVars, parent, madeParent, loopVars, settled, sent, fileVars>>

Heartbeat_NotCleared ==
    /\ phase \in {"ack"} \cup Streaming /\ settled = "no" /\ Drained
    /\ SendContent(0, FALSE)
    /\ UNCHANGED <<sourceVars, phase, parent, madeParent, retries, loopVars, settled,
                   lateVars, fileVars, outcome>>

\* An empty frame keeps the server's idle timer fresh while the source is slow.
\* Bound: not while the buffer is above the mark.
Heartbeat ==
    /\ phase \in Streaming /\ settled = "no" /\ Drained
    /\ SendContent(0, FALSE)
    /\ UNCHANGED <<sourceVars, phase, parent, madeParent, retries, loopVars, settled,
                   lateVars, fileVars, outcome>>

-----------------------------------------------------------------------------
(* The service, and how the request settles.                               *)

\* A chunk is written at its place.
Put(pieces, place, chunk) == {p \in pieces : p[1] # place} \cup {<<place, chunk>>}

ServerReceives ==
    /\ wire # <<>>
    /\ LET frame == Head(wire) IN
       file' = [pieces |-> IF frame[2] = 0 THEN file.pieces
                           ELSE Put(file.pieces, frame[1], frame[2]),
                complete |-> file.complete \/ frame[3]]
    /\ wire' = Tail(wire)
    /\ UNCHANGED <<sourceVars, phase, parent, madeParent, retries, loopVars, settled, sent,
                   lateVars, breach, outcome>>

\* A frame of a given-up attempt arrives, through the handle of its own upload.
LateFrame ==
    /\ \E piece \in late :
          file' = [pieces |-> Put(file.pieces, piece[1], piece[2]),
                   complete |-> file.complete]
    /\ UNCHANGED <<sourceVars, phase, parent, madeParent, retries, loopVars, settled, sent,
                   wire, lateVars, breach, outcome>>

\* And its write_start, which empties the file.
LateStart ==
    /\ lateStart
    /\ file' = [pieces |-> {}, complete |-> file.complete]
    /\ breach' = TRUE
    /\ UNCHANGED <<sourceVars, phase, parent, madeParent, retries, loopVars, settled, sent,
                   wire, lateVars, outcome>>

\* An error reply, the inactivity timer, or the close of the socket.
RequestFails(kind) ==
    /\ phase \in {"ready", "ack"} \cup Streaming /\ settled = "no"
    /\ settled' = kind
    /\ UNCHANGED <<sourceVars, phase, parent, madeParent, retries, loopVars, sent, wire,
                   lateVars, fileVars, outcome>>

\* ok, whatever has been sent.
RecvOk ==
    /\ phase \in {"ready", "ack"} \cup Streaming /\ settled = "no"
    /\ settled' = "ok"
    /\ breach' = (breach \/ ~file.complete)
    /\ UNCHANGED <<sourceVars, phase, parent, madeParent, retries, loopVars, sent, wire,
                   lateVars, file, outcome>>

\* The continuation of the attempt, after its last await.
WriteSettles ==
    /\ phase = "ack" /\ settled # "no"
    /\ AttemptEnds
    /\ UNCHANGED <<sourceVars, parent, madeParent, loopVars, settled, sent, fileVars>>

\* #applyMode: a chmod by exec, which may fail, time out or lose its connection; it
\* is not tried again, and the write rejects.
ApplyMode ==
    /\ phase = "chmod"
    /\ phase' = "ended"
    /\ outcome' \in {"ok", "unset"}
    /\ UNCHANGED <<sourceVars, parent, madeParent, retries, loopVars, settled, sent, wire,
                   lateVars, fileVars>>

-----------------------------------------------------------------------------
Source == SourceYields \/ SourceEnds

Loop ==
    \/ RetryDelay \/ Connect \/ WriteReady \/ MissingParent \/ MadeParent \/ OkBeforeReady
    \/ Pull \/ SettledEarly \/ Send \/ SendLast \/ WriteSettles \/ ApplyMode

Failure ==
    \/ \E kind \in Kinds : ConnectFails(kind) \/ HandshakeFails(kind) \/ RequestFails(kind)
    \/ SourceFails \/ Stall

Service == ServerReceives \/ LateFrame \/ LateStart \/ RecvOk

Next == Source \/ Loop \/ Failure \/ Heartbeat \/ Service

\* Every await ends but the source's: a handshake, a chmod and the wait for the
\* ack by an answer or a timer, the drain by the stall timeout.
Spec == /\ Init /\ [][Next]_vars
        /\ WF_vars(Loop \/ Stall)
        /\ WF_vars(phase = "ack" /\ RequestFails("closed"))

-----------------------------------------------------------------------------
(* Properties.                                                             *)

Whole == {<<k, k>> : k \in 1..source.chunks}

\* A write that succeeds on a service that keeps to the protocol has stored the
\* whole content, each chunk at its place, and nothing follows the end marker: not
\* a frame of an attempt that was given up, not a heartbeat, can undo or delay it.
StoredWhenOk ==
    outcome = "ok" /\ ~breach => file.pieces = Whole /\ file.complete /\ wire = <<>>

\* Whatever arrives late, nothing is ever stored but the content's chunks at their
\* places, and the end of an upload is marked only when it is all there.
ContentInPlace ==
    /\ file.pieces \subseteq Whole
    /\ file.complete /\ ~breach => file.pieces = Whole

\* A write gives up on a lost connection only after all its attempts, or when a
\* one-shot source has been pulled.
RetriedWhilePossible ==
    outcome = "lost" =>
        \/ retries > MaxRetries
        \/ ~source.replayable /\ pulls = 1

\* A request that settled releases its attempt, though the source may never
\* yield again.
SettledReleases == phase \in Streaming /\ settled # "no" ~> phase \notin Streaming

\* What of an upload its caller sees.
StateShown ==
    CASE outcome = "none" /\ phase # "chmod" -> "writing"
      [] outcome = "none" /\ phase = "chmod" -> "stored"
      [] outcome = "ok" -> "done"
      [] outcome \in {"failed", "lost", "unset"} -> "failed"

Upload == INSTANCE UploadContract WITH
    Contents <- {{<<k, k>> : k \in 1..n} : n \in 0..MaxChunks}, content <- Whole,
    replay <- source.replayable, taken <- consumed, stored <- file.pieces,
    whole <- file.complete, breached <- breach, attempts <- retries, state <- StateShown

\* Over any losses, refusals, stalls and late arrivals, the upload keeps what
\* UploadContract promises: canRetryWrite tries again exactly when the content can be
\* sent once more, write_start never empties a file that cannot be filled again, and
\* streamUpload sends each chunk to its place and marks the end after the last.
UploadHolds == Upload!Spec
=============================================================================
