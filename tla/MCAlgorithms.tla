---------------------------- MODULE MCAlgorithms -----------------------------
(***************************************************************************)
(* The sequential parts of the SDK side by side: a behaviour evaluates one *)
(* flag, captures the output of one command or builds one service.         *)
(***************************************************************************)
EXTENDS MCFlagsResolver, OutputCapture, MCInfraService

VARIABLE part  \* what this behaviour evaluates

\* Outputs of up to three bytes: every way to cut them into characters, the last
\* of which may be cut short.
Stream(length, ends) == [length |-> length, whole |-> [n \in 0..length |-> Max({e \in ends : e <= n})]]
MCStreams == UNION {{Stream(length, {0} \cup e) : e \in SUBSET (1..length)} : length \in 0..3}

FlagsIdle == input = "none" /\ read = Pending /\ resolved = Pending
CaptureIdle ==
    /\ options = [capture |-> FALSE, limit |-> 0]
    /\ written = [o \in Outputs |-> Stream(0, {0})]
    /\ received = [o \in Outputs |-> 0]
    /\ captured = [o \in Outputs |-> NewCapture]
    /\ shown = [o \in Outputs |-> [length |-> 0, tail |-> FALSE]]
    /\ result = NoResult
InfraIdle == family = "none" /\ config = "none" /\ node = Nothing /\ again = Nothing

AlgorithmsInit ==
    \/ part = "flag" /\ FlagsInit /\ CaptureIdle /\ InfraIdle
    \/ part = "output" /\ FlagsIdle /\ Init /\ InfraIdle
    \/ part = "service" /\ FlagsIdle /\ CaptureIdle /\ InfraInit

AlgorithmsNext ==
    /\ \/ part = "flag" /\ FlagsNext /\ UNCHANGED <<vars, infraVars>>
       \/ part = "output" /\ Next /\ UNCHANGED <<flagVars, infraVars>>
       \/ part = "service" /\ InfraNext /\ UNCHANGED <<flagVars, vars>>
    /\ UNCHANGED part

AlgorithmsSpec == AlgorithmsInit /\ [][AlgorithmsNext]_<<part, flagVars, vars, infraVars>>
=============================================================================
