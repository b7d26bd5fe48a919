------------------------------ MODULE FilesPull ------------------------------
(***************************************************************************)
(* One download: startPull, resolveRange and pullSegments of               *)
(* sandbox/files-transfer.ts, read() and #readAsStream of sandbox/files.ts *)
(* around them, and the read request of core/files-ws-client.ts below.     *)
(*                                                                         *)
(* The file is the positions 0 .. Size-1, and does not change while it is  *)
(* read.  The size of a segment, which the code adapts to the speed of the *)
(* link, is any number up to MaxSegment.  The server is modelled from what *)
(* the client expects of it: a read request is answered by content frames  *)
(* from its offset, the last of them marked and possibly empty; a request  *)
(* past the end of the file by an empty one.  Any step may be lost to the  *)
(* connection or refused by the server.                                    *)
(*                                                                         *)
(* Operator_Fault is Operator with one plausible bug; no specification     *)
(* uses it.                                                                *)
(***************************************************************************)
EXTENDS Integers, Sequences, FiniteSetsExt, SequencesExt

CONSTANTS
    Size,        \* bytes of the file
    MaxSegment,  \* READ_SEGMENT_MAX_BYTES
    MaxRetries,  \* TRANSFER_MAX_RETRIES
    Requests     \* the read options the caller may choose from

NoLength == 0    \* options.length is undefined

RequestType == [start: 0..Size + 1, length: 0..Size + 1, fromEnd: BOOLEAN,
                stream: BOOLEAN]

\* validateReadOptions: a tail read has a length and no offset.
ValidRequests ==
    {r \in RequestType : r.fromEnd => r.start = 0 /\ r.length # NoLength}

ASSUME BoundsAssumption == Size \in Nat /\ MaxSegment \in Nat \ {0} /\ MaxRetries \in Nat
ASSUME RequestsAssumption == Requests \subseteq ValidRequests

VARIABLES
    request,   \* the options of this read
    phase,     \* what the pull loop awaits
    range,     \* position, and end once resolveRange has run
    want,      \* length of the running segment
    received,  \* bytes of it that have arrived
    retries,   \* `retries'
    queued,    \* bytes in the queue of the ReadableStream
    aborted,   \* `aborted': the consumer cancelled the stream
    leased,    \* a connection is leased and not closed
    outcome,   \* how `done' settled
    out,       \* history: positions delivered to the caller
    lostAt     \* history: transient failures after so many bytes

segmentVars == <<want, received>>
vars == <<request, phase, range, segmentVars, retries, queued, aborted, leased, outcome,
          out, lostAt>>

\* More than any position reached plus a segment.
Infinity == 2 * Size + MaxSegment + 2

Unresolved == [position |-> 0, end |-> -1]
Resolved == range # Unresolved

TypeOK ==
    /\ request \in Requests
    /\ phase \in {"connect", "stat", "capacity", "segment", "read", "delay", "ended"}
    /\ range \in [position: Nat, end: {-1} \cup Nat]
    /\ want \in 0..MaxSegment /\ received \in 0..want
    /\ retries \in 0..MaxRetries + 1
    /\ queued \in Nat
    /\ aborted \in BOOLEAN /\ leased \in BOOLEAN
    /\ outcome \in {"none", "done", "refused", "lost"}
    /\ out \in Seq(0..Size - 1)
    /\ lostAt \in [0..Size -> Nat]

Init ==
    /\ request \in Requests
    /\ phase = "connect"
    /\ range = Unresolved
    /\ want = 0 /\ received = 0
    /\ retries = 0
    /\ queued = 0
    /\ aborted = FALSE /\ leased = FALSE
    /\ outcome = "none"
    /\ out = <<>>
    /\ lostAt = [n \in 0..Size |-> 0]

-----------------------------------------------------------------------------
(* Pieces of the loop.                                                     *)

HasCapacity_Always(inQueue) == TRUE

\* desiredSize > 0: the queue of an open stream is empty. A cancelled stream has
\* no desired size left.
HasCapacity(inQueue) == ~request.stream \/ (~aborted /\ inQueue = 0)

\* The loop ends without an error, the finally closes the lease.
Return == phase' = "ended" /\ outcome' = "done" /\ leased' = FALSE

\* The head of the segment loop: done, or waitForCapacity().
NextSegment(r, inQueue) ==
    IF r.position >= r.end
    THEN Return
    ELSE /\ phase' = IF HasCapacity(inQueue) THEN "segment" ELSE "capacity"
         /\ UNCHANGED <<outcome, leased>>

\* canResumePull(error, ++retries)
MayResume(transient) == transient /\ retries + 1 <= MaxRetries

\* The catch and the finally: an aborted pull returns, a transient failure within
\* the budget is retried, anything else rejects.
Fail(transient) ==
    /\ leased' = FALSE
    /\ IF aborted
       THEN phase' = "ended" /\ outcome' = "done" /\ UNCHANGED <<retries, lostAt>>
       ELSE /\ retries' = retries + 1
            /\ lostAt' = [lostAt EXCEPT ![Len(out)] = @ + (IF transient THEN 1 ELSE 0)]
            /\ IF MayResume(transient)
               THEN phase' = "delay" /\ UNCHANGED outcome
               ELSE phase' = "ended" /\ outcome' = IF transient THEN "lost" ELSE "refused"

-----------------------------------------------------------------------------
(* The pull loop.                                                          *)

\* resolveRange without a stat.
PlainRange ==
    [position |-> request.start,
     end |-> IF request.length = NoLength THEN Infinity ELSE request.start + request.length]

\* resolveRange with the size that stat found.
TailRange == [position |-> Max({0, Size - request.length}), end |-> Size]

\* connect() resolves with a lease. The range is resolved once, and a resumed
\* pull goes on from the position it had reached.
Connected ==
    /\ phase = "connect"
    /\ IF aborted
       THEN Return /\ UNCHANGED range
       ELSE IF request.fromEnd /\ ~Resolved
       THEN phase' = "stat" /\ leased' = TRUE /\ UNCHANGED <<range, outcome>>
       ELSE /\ range' = IF Resolved THEN range ELSE PlainRange
            /\ IF range'.position >= range'.end
               THEN Return
               ELSE /\ phase' = IF HasCapacity(queued) THEN "segment" ELSE "capacity"
                    /\ leased' = TRUE
                    /\ UNCHANGED outcome
    /\ UNCHANGED <<request, segmentVars, retries, queued, aborted, out, lostAt>>

\* The stat of a tail read.
StatReply ==
    /\ phase = "stat"
    /\ range' = TailRange
    /\ NextSegment(TailRange, queued)
    /\ UNCHANGED <<request, segmentVars, retries, queued, aborted, out, lostAt>>

\* connect(), stat or read fails. A stream that errors drops its queue.
StepFails(transient) ==
    /\ phase \in {"connect", "stat", "read"}
    /\ Fail(transient)
    /\ queued' = IF phase' = "ended" THEN 0 ELSE queued
    /\ UNCHANGED <<request, range, segmentVars, aborted, out>>

RetryDelay ==
    /\ phase = "delay"
    /\ IF aborted THEN Return
       ELSE phase' = "connect" /\ UNCHANGED <<outcome, leased>>
    /\ UNCHANGED <<request, range, segmentVars, retries, queued, aborted, out, lostAt>>

ReadSegment_Stale(bytes) ==
    /\ phase = "segment"
    /\ want' = Min({bytes, range.end - range.position})
    /\ received' = 0
    /\ phase' = "read"
    /\ UNCHANGED <<request, range, retries, queued, aborted, leased, outcome, out, lostAt>>

\* waitForCapacity() has resolved: the next segment is requested.
ReadSegment(bytes) ==
    /\ phase = "segment"
    /\ IF aborted
       THEN Return /\ UNCHANGED segmentVars
       ELSE /\ want' = Min({bytes, range.end - range.position})
            /\ received' = 0
            /\ phase' = "read"
            /\ UNCHANGED <<outcome, leased>>
    /\ UNCHANGED <<request, range, retries, queued, aborted, out, lostAt>>

\* What the server still has to send of the segment.
Owed == Min({want - received, Max({0, Size - range.position})})

\* The bytes of a frame go to a reader that waits, or into the queue.
Enqueued(n) ==
    {queued + n} \cup (IF request.stream /\ queued > 0 THEN {} ELSE {0})

\* A segment that comes back short is EOF.
EndOfFile(got) == got < want

Frame_PositionLate(n, last) ==
    /\ phase = "read" /\ ~aborted
    /\ received' = received + n
    /\ queued' \in Enqueued(n)
    /\ out' = out \o [k \in 1..n |-> range.position + received + k - 1]
    /\ retries' = IF n > 0 THEN 0 ELSE retries
    /\ range' = IF last THEN [range EXCEPT !.position = @ + received'] ELSE range
    /\ IF ~last THEN UNCHANGED <<phase, outcome, leased>>
       ELSE IF EndOfFile(received') THEN Return
       ELSE NextSegment(range', queued')
    /\ UNCHANGED <<request, want, aborted, lostAt>>

Frame_KeepsRetries(n, last) ==
    /\ phase = "read" /\ ~aborted
    /\ received' = received + n
    /\ range' = [range EXCEPT !.position = @ + n]
    /\ queued' \in Enqueued(n)
    /\ out' = out \o [k \in 1..n |-> range.position + k - 1]
    /\ IF ~last THEN UNCHANGED <<phase, outcome, leased>>
       ELSE IF EndOfFile(received') THEN Return
       ELSE NextSegment(range', queued')
    /\ UNCHANGED <<request, want, retries, aborted, lostAt>>

\* A content frame of n bytes: position advances with every frame, and bytes that
\* arrive restore the retry budget.
Frame(n, last) ==
    /\ phase = "read" /\ ~aborted
    /\ received' = received + n
    /\ range' = [range EXCEPT !.position = @ + n]
    /\ queued' \in Enqueued(n)
    /\ out' = out \o [k \in 1..n |-> range.position + k - 1]
    /\ retries' = IF n > 0 THEN 0 ELSE retries
    /\ IF ~last THEN UNCHANGED <<phase, outcome, leased>>
       ELSE IF EndOfFile(received') THEN Return
       ELSE NextSegment(range', queued')
    /\ UNCHANGED <<request, want, aborted, lostAt>>

\* A frame for a cancelled stream. With bytes in it enqueue() throws, which ends
\* the read and the pull; without, the loop goes on.
FrameAfterCancel(n) ==
    /\ phase = "read" /\ aborted
    /\ IF n > 0
       THEN /\ received' = received + n
            /\ range' = [range EXCEPT !.position = @ + n]
            /\ retries' = 0
            /\ Return
       ELSE /\ IF EndOfFile(received) THEN Return ELSE NextSegment(range, queued)
            /\ UNCHANGED <<range, received, retries>>
    /\ UNCHANGED <<request, want, queued, aborted, out, lostAt>>

-----------------------------------------------------------------------------
(* The consumer of a stream.                                               *)

ConsumerReads_NoNotify(n) ==
    /\ request.stream /\ ~aborted
    /\ n \in 1..queued
    /\ queued' = queued - n
    /\ UNCHANGED <<request, phase, range, segmentVars, retries, aborted, leased, outcome, out,
                   lostAt>>

\* It takes bytes; when the queue is empty pull() ends the wait for capacity.
ConsumerReads(n) ==
    /\ request.stream /\ ~aborted
    /\ n \in 1..queued
    /\ queued' = queued - n
    /\ phase' = IF phase = "capacity" /\ queued' = 0 THEN "segment" ELSE phase
    /\ UNCHANGED <<request, range, segmentVars, retries, aborted, leased, outcome, out, lostAt>>

Cancel_KeepsLease ==
    /\ request.stream /\ ~aborted /\ phase # "ended"
    /\ aborted' = TRUE
    /\ queued' = 0
    /\ phase' = IF phase = "capacity" THEN "segment" ELSE phase
    /\ UNCHANGED <<request, range, segmentVars, retries, leased, outcome, out, lostAt>>

\* cancel(): abort() closes the lease it finds, then a wait for capacity is ended
\* so that the loop can see it.
Cancel ==
    /\ request.stream /\ ~aborted /\ phase # "ended"
    /\ aborted' = TRUE
    /\ queued' = 0
    /\ leased' = FALSE
    /\ phase' = IF phase = "capacity" THEN "segment" ELSE phase
    /\ UNCHANGED <<request, range, segmentVars, retries, outcome, out, lostAt>>

-----------------------------------------------------------------------------
Pull ==
    \/ Connected \/ StatReply \/ RetryDelay
    \/ \E transient \in BOOLEAN : StepFails(transient)
    \/ \E bytes \in 1..MaxSegment : ReadSegment(bytes)
    \/ \E n \in 0..Owed, last \in BOOLEAN :
          (last => n = Owed) /\ (n = 0 => last) /\ Frame(n, last)
    \/ \E n \in 0..Owed : (n = 0 => Owed = 0) /\ FrameAfterCancel(n)

Consume == \E n \in 1..queued : ConsumerReads(n)

Next == Pull \/ Consume \/ Cancel

\* Every await of the loop ends: requests by an answer or the inactivity timer.
\* The wait for capacity is the consumer's.
Spec == Init /\ [][Next]_vars /\ WF_vars(Pull)

-----------------------------------------------------------------------------
(* Properties.                                                             *)

\* The positions the caller asked for, as the options' documentation defines them.
FirstWanted == IF request.fromEnd THEN Max({0, Size - request.length}) ELSE request.start
LastWanted == IF request.fromEnd \/ request.length = NoLength THEN Size - 1
              ELSE Min({Size, request.start + request.length}) - 1
Wanted == [k \in 1..Max({0, LastWanted - FirstWanted + 1}) |-> FirstWanted + k - 1]

\* However often the connection drops, and wherever in a segment, the caller
\* gets the bytes asked for in order, none twice and none left out; and all of
\* them when the read succeeds.
Delivered ==
    /\ IsPrefix(out, Wanted)
    /\ outcome = "done" /\ ~aborted => out = Wanted

\* A read that gives up on lost connections has had more than the budget of them
\* at one and the same position: progress restores the budget.
GivesUpLate == outcome = "lost" => lostAt[Len(out)] > MaxRetries

\* A slow consumer of a stream has at most one segment waiting for it.
OneSegmentHeld == request.stream => queued <= MaxSegment

\* No lease outlives the pull, nor its cancellation.
LeaseReturned == phase = "ended" \/ aborted => ~leased

\* After the cancellation nothing more is delivered or requested, whatever the
\* loop was awaiting.
CancelIsFinal ==
    [][aborted => out' = out /\ (phase' = "read" => phase = "read")]_vars

\* While the consumer reads, the read ends, on any sequence of losses.
PullEnds == WF_vars(Consume) => <>(phase = "ended" \/ aborted)

\* What of a download its caller sees.
LossesShown == lostAt[Len(out)]

StateShown ==
    CASE aborted -> "cancelled"
      [] ~aborted /\ outcome = "none" -> "reading"
      [] ~aborted /\ outcome = "done" -> "done"
      [] ~aborted /\ outcome \in {"refused", "lost"} -> "failed"

Download == INSTANCE DownloadContract WITH
    Contents <- Seq(0..Size - 1), wanted <- Wanted, got <- out, losses <- LossesShown,
    asking <- phase = "read", state <- StateShown

\* Over any losses, refusals and cancellations, the download keeps what
\* DownloadContract promises: it delivers, retries, gives up, resolves and stops
\* exactly when that allows it.
DownloadHolds == Download!Spec

\* files-transfer.ts: "`abort()' stops it and resolves `done'".
AbortResolves == aborted ~> phase = "ended"
=============================================================================
