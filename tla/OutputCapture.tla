---------------------------- MODULE OutputCapture ----------------------------
(***************************************************************************)
(* What becomes of a command's output (sandbox/exec.ts): the OutputCapture *)
(* of stdout and stderr, the decoders of the callbacks, and the result.    *)
(*                                                                         *)
(* An output is the number of its bytes and, for each prefix of them, how  *)
(* many bytes the whole characters of the prefix take: its last character  *)
(* may be cut short.  It arrives in frames of any size.  A text is the     *)
(* number of bytes whose characters it shows, and whether U+FFFD follows   *)
(* them, which a decoder adds that is flushed inside a character.  No      *)
(* limit (maxOutputBytes is not given) is a limit no output reaches.       *)
(*                                                                         *)
(* A callback that throws, and the ways an exec ends before or without its *)
(* command, are in ExecSession.  Operator_Fault is Operator with one       *)
(* plausible bug; no specification uses it.                                *)
(***************************************************************************)
EXTENDS Naturals

CONSTANTS
    Streams,  \* what a command may write to one output
    Limits    \* the values of maxOutputBytes

ASSUME StreamsAssumption ==
    \A s \in Streams :
        /\ s.length \in Nat
        /\ s.whole \in [0..s.length -> Nat]
        /\ \A n \in 0..s.length : s.whole[n] <= n
        /\ \A n \in 0..s.length : \A m \in 0..n : s.whole[m] <= s.whole[n]
ASSUME LimitsAssumption == Limits \subseteq Nat

VARIABLES
    options,   \* captureOutput and maxOutputBytes
    written,   \* for each output: what the command writes
    received,  \* for each output: how many of its bytes have arrived
    captured,  \* for each output: its OutputCapture
    shown,     \* for each output: the text its callback was given
    result     \* what the exec resolves or rejects with

vars == <<options, written, received, captured, shown, result>>

Outputs == {"stdout", "stderr"}

NoResult == [kind |-> "none"]

-----------------------------------------------------------------------------
(* OutputCapture.                                                          *)

\* What a decoder has shown of an output once it was given its first n bytes.
Decoded(s, n) == s.whole[n]

NewCapture == [bytes |-> 0, text |-> 0, tail |-> FALSE, truncated |-> FALSE, finished |-> FALSE]

Smaller(a, b) == IF a <= b THEN a ELSE b

\* append() of a frame of n bytes.
Captured(capture, s, n) ==
    LET available == Smaller(n, options.limit - capture.bytes)
        bytes == capture.bytes + available
    IN  IF ~options.capture THEN capture
        ELSE [capture EXCEPT !.bytes = bytes, !.text = Decoded(s, bytes),
                             !.truncated = @ \/ available < n]

Finished_KeepsTail(capture) ==
    IF capture.finished THEN capture
    ELSE [capture EXCEPT !.finished = TRUE, !.tail = capture.text < capture.bytes]

\* finish(): what is left in the decoder is dropped when the output was cut.
Finished(capture) ==
    IF capture.finished THEN capture
    ELSE [capture EXCEPT !.finished = TRUE,
                         !.tail = capture.text < capture.bytes /\ ~capture.truncated]

Text(capture) == [length |-> capture.text, tail |-> capture.tail]

-----------------------------------------------------------------------------
(* The exec.                                                               *)

Init ==
    /\ options \in [capture: BOOLEAN, limit: Limits]
    /\ written \in [Outputs -> Streams]
    /\ received = [o \in Outputs |-> 0]
    /\ captured = [o \in Outputs |-> NewCapture]
    /\ shown = [o \in Outputs |-> [length |-> 0, tail |-> FALSE]]
    /\ result = NoResult

\* onStdout(), onStderr(): a frame of n bytes.
Receive(o, n) ==
    /\ result = NoResult
    /\ received[o] + n <= written[o].length
    /\ received' = [received EXCEPT ![o] = @ + n]
    /\ captured' = [captured EXCEPT ![o] = Captured(@, written[o], n)]
    /\ shown' = [shown EXCEPT ![o].length = Decoded(written[o], received'[o])]
    /\ UNCHANGED <<options, written, result>>

\* What settle() makes of the captures, after `finish' of both.
Settled(kind, finished) ==
    [kind |-> kind, text |-> [o \in Outputs |-> Text(finished[o])],
     truncated |-> \E o \in Outputs : finished[o].truncated]

\* onExit(): the callbacks' decoders are flushed before the result is made.
Exit ==
    /\ result = NoResult
    /\ shown' = [o \in Outputs |->
                    [shown[o] EXCEPT !.tail = shown[o].length < received[o]]]
    /\ captured' = [o \in Outputs |-> Finished(captured[o])]
    /\ result' = Settled("exit", captured')
    /\ UNCHANGED <<options, written, received>>

\* onError(), or onClose() without an exit: the ExecInterruptedError, or the result
\* of a detached handle, carries the text.  When the exec has settled already, the
\* error is built and dropped.
Interrupted ==
    /\ captured' = [o \in Outputs |-> Finished(captured[o])]
    /\ result' = IF result = NoResult THEN Settled("interrupted", captured') ELSE result
    /\ UNCHANGED <<options, written, received, shown>>

Next == (\E o \in Outputs : \E n \in 1..written[o].length : Receive(o, n)) \/ Exit \/ Interrupted

Spec == Init /\ [][Next]_vars

-----------------------------------------------------------------------------
(* Properties.                                                             *)

\* The text that a limit leaves of the first n bytes of an output.
Whole(s, n) ==
    IF ~options.capture THEN [length |-> Decoded(s, 0), tail |-> FALSE]
    ELSE LET kept == Smaller(n, options.limit) IN
         [length |-> Decoded(s, kept), tail |-> n <= options.limit /\ Decoded(s, kept) < kept]

\* "The final character is not split at the byte cap" (exec.ts:627), however the
\* output is cut into frames and wherever the cap falls: the captured text is that
\* of the whole characters within the cap; U+FFFD ends it only when the output
\* itself stops inside a character; and truncated is true when, and only when,
\* more bytes came than the cap of one of the outputs.  When the command exits,
\* what was captured is a prefix of what the callbacks have been given.
OutputExact ==
    result # NoResult =>
        /\ \A o \in Outputs : result.text[o] = Whole(written[o], received[o])
        /\ result.truncated <=> options.capture /\ \E o \in Outputs : received[o] > options.limit
        /\ result.kind = "exit" =>
               \A o \in Outputs : /\ result.text[o].length <= shown[o].length
                                  /\ result.text[o].tail => shown[o] = result.text[o]
=============================================================================
