-------------------------- MODULE DownloadContract --------------------------
(***************************************************************************)
(* What the caller of a read may rely on, without segments, positions,     *)
(* frames and the queue of the stream: FilesPull is shown to implement it. *)
(*                                                                         *)
(* The content asked for arrives from its beginning, in order and once,    *)
(* over connections leased one after the other.  A read resolves when it   *)
(* is all there, rejects when it is refused or has lost more connections   *)
(* than the budget at one place, and does not give up before.  Once        *)
(* cancelled it holds no connection, delivers nothing and asks for         *)
(* nothing; once over it stays as it is.                                   *)
(***************************************************************************)
EXTENDS Naturals, Sequences

CONSTANTS
    Contents,    \* what can be asked for
    MaxRetries   \* TRANSFER_MAX_RETRIES

VARIABLES
    wanted,   \* the content asked for
    got,      \* what was delivered of it
    losses,   \* connections lost since something was delivered
    leased,   \* the read has a connection
    asking,   \* a request for content is in flight
    state     \* "reading", then "cancelled", "done" or "failed"

vars == <<wanted, got, losses, leased, asking, state>>

Init ==
    /\ wanted \in Contents /\ got = <<>> /\ losses = 0
    /\ leased = FALSE /\ asking = FALSE /\ state = "reading"

Lease ==
    /\ state = "reading" /\ ~leased
    /\ leased' = TRUE
    /\ UNCHANGED <<wanted, got, losses, asking, state>>

Ask ==
    /\ state = "reading" /\ leased /\ ~asking
    /\ asking' = TRUE
    /\ UNCHANGED <<wanted, got, losses, leased, state>>

\* Of the rest of the content, some or none.
Receive ==
    /\ \E n \in Len(got)..Len(wanted) : got' = SubSeq(wanted, 1, n)
    /\ losses' = IF got' = got THEN losses ELSE 0
    /\ UNCHANGED wanted

Deliver ==
    /\ state = "reading" /\ leased /\ asking
    /\ Receive
    /\ asking' \in BOOLEAN
    /\ UNCHANGED <<leased, state>>

\* With the last of the content, or as nothing is wanted.
Resolve ==
    /\ state = "reading"
    /\ IF asking THEN leased /\ Receive ELSE UNCHANGED <<wanted, got, losses>>
    /\ got' = wanted
    /\ state' = "done" /\ leased' = FALSE /\ asking' = FALSE

\* With or without a connection: a dial that fails is a loss too.
Lose ==
    /\ state = "reading"
    /\ losses' = losses + 1
    /\ state' = IF losses < MaxRetries THEN "reading" ELSE "failed"
    /\ leased' = FALSE /\ asking' = FALSE
    /\ UNCHANGED <<wanted, got>>

Refuse ==
    /\ state = "reading"
    /\ state' = "failed" /\ leased' = FALSE /\ asking' = FALSE
    /\ UNCHANGED <<wanted, got, losses>>

\* What is in flight stays in flight, but no longer on a lease.
Cancel ==
    /\ state = "reading"
    /\ state' = "cancelled" /\ leased' = FALSE
    /\ UNCHANGED <<wanted, got, losses, asking>>

Unwind ==
    /\ state = "cancelled" /\ asking
    /\ asking' = FALSE
    /\ UNCHANGED <<wanted, got, losses, leased, state>>

Next == Lease \/ Ask \/ Deliver \/ Resolve \/ Lose \/ Refuse \/ Cancel \/ Unwind

Spec == Init /\ [][Next]_vars
=============================================================================
