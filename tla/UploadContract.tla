---------------------------- MODULE UploadContract ----------------------------
(***************************************************************************)
(* What the caller of a write may rely on, without frames, buffers, the    *)
(* handshake and the chunk held back: FilesWrite is shown to implement it. *)
(*                                                                         *)
(* The file is filled piece by piece with the content, and is emptied for  *)
(* another attempt only when the content can still be sent from its        *)
(* beginning.  A write is tried again after a lost connection exactly when *)
(* that is so and the budget allows it, and succeeds only on a file that   *)
(* is whole, unless the service broke its protocol: it acknowledged what   *)
(* it had not read to the end, or emptied the file for an attempt that had *)
(* been given up.                                                          *)
(***************************************************************************)
EXTENDS Naturals

CONSTANTS
    Contents,    \* what can be written: sets of pieces
    MaxRetries   \* TRANSFER_MAX_RETRIES

VARIABLES
    content,   \* what is to be written
    replay,    \* its source can be read again
    taken,     \* its source has been read from
    stored,    \* what the file has of it
    whole,     \* and the service knows to be all of it
    breached,  \* the service broke its protocol in this attempt
    attempts,  \* attempts that failed
    state      \* "writing", then "stored", and "done" or "failed"

vars == <<content, replay, taken, stored, whole, breached, attempts, state>>

Init ==
    /\ content \in Contents /\ replay \in BOOLEAN
    /\ taken = FALSE
    /\ stored = {} /\ whole = FALSE /\ breached = FALSE
    /\ attempts = 0 /\ state = "writing"

\* From its beginning.
CanBeSent == replay \/ ~taken

Truncate ==
    /\ state = "writing" /\ CanBeSent
    /\ stored' = {} /\ whole' = FALSE /\ breached' = FALSE
    /\ UNCHANGED <<content, replay, taken, attempts, state>>

Take ==
    /\ state = "writing"
    /\ taken' = TRUE
    /\ UNCHANGED <<content, replay, stored, whole, breached, attempts, state>>

\* A piece is stored, or the end of the content is marked. What was under way when an
\* attempt failed may still arrive.
Store ==
    /\ taken
    /\ stored' \in {stored} \cup {stored \cup {piece} : piece \in content}
    /\ whole' \in {whole, TRUE}
    /\ whole' => breached \/ stored' = content
    /\ UNCHANGED <<content, replay, taken, breached, attempts, state>>

Lose ==
    /\ state = "writing"
    /\ attempts' = attempts + 1
    /\ state' = IF CanBeSent /\ attempts < MaxRetries THEN "writing" ELSE "failed"
    /\ UNCHANGED <<content, replay, taken, stored, whole, breached>>

\* An error that no other attempt can mend.
Refuse ==
    /\ state = "writing"
    /\ attempts' = attempts + 1
    /\ state' = "failed"
    /\ UNCHANGED <<content, replay, taken, stored, whole, breached>>

\* The service acknowledges what it has not read to the end.
AcknowledgeEarly ==
    /\ state = "writing" /\ ~whole
    /\ breached' = TRUE
    /\ UNCHANGED <<content, replay, taken, stored, whole, attempts, state>>

\* The service empties the file for an attempt that has been given up.
EmptyLate ==
    /\ attempts > 0
    /\ stored' = {} /\ breached' = TRUE
    /\ UNCHANGED <<content, replay, taken, whole, attempts, state>>

\* The write succeeds; a mode may be left to apply.
Succeed ==
    /\ state = "writing" /\ taken /\ (whole \/ breached)
    /\ state' \in {"stored", "done"}
    /\ UNCHANGED <<content, replay, taken, stored, whole, breached, attempts>>

ApplyMode ==
    /\ state = "stored"
    /\ state' \in {"done", "failed"}
    /\ UNCHANGED <<content, replay, taken, stored, whole, breached, attempts>>

Next ==
    \/ Truncate \/ Take \/ Store \/ Lose \/ Refuse
    \/ AcknowledgeEarly \/ EmptyLate \/ Succeed \/ ApplyMode

Spec == Init /\ [][Next]_vars
=============================================================================
