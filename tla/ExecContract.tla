---------------------------- MODULE ExecContract ----------------------------
(***************************************************************************)
(* What the caller of Sandbox.exec() may rely on, whatever happens behind  *)
(* the handle: ExecSession is shown to implement it.                       *)
(*                                                                         *)
(* The command is submitted once or not at all, is signalled only while    *)
(* the handle holds it and only killed after a gentler signal, is either   *)
(* terminated or left running by detach(), and has one result, which is    *)
(* the truth about all of that.                                            *)
(***************************************************************************)

VARIABLES
    submitted,  \* the command was sent, so it may be running
    side,       \* what became of it: "attached", "terminating", "detached"
    signals,    \* the strongest it was sent: "none", "signal", then "KILL"
    name,       \* handle.sessionName
    result      \* handle.result

vars == <<submitted, side, signals, name, result>>

Stronger == [none |-> {"none", "signal"}, signal |-> {"signal", "KILL"}, KILL |-> {"KILL"}]

\* How the result of a submitted command may turn out.
Endings(s) ==
    {"failed", "exited"} \cup (IF s = "detached" THEN {"detached"} ELSE {})
                         \cup (IF s = "terminating" THEN {"timed out"} ELSE {})

Init ==
    /\ submitted = FALSE /\ side = "attached" /\ signals = "none"
    /\ \/ result = "pending" /\ name \in {"pending", "failed"}
       \/ result = "failed" /\ name = "failed"

Submit ==
    /\ result = "pending" /\ ~submitted
    /\ submitted' = TRUE
    /\ UNCHANGED <<side, signals, name, result>>

\* Only now may the caller be told that no command was sent.
NotSubmitted ==
    /\ result = "pending" /\ ~submitted
    /\ result' \in {"not started", "failed"}
    /\ name' = "failed"
    /\ UNCHANGED <<submitted, side, signals>>

\* Signals, termination, the session's name and the result, in any combination.
Proceed ==
    /\ result = "pending" /\ submitted
    /\ side' \in IF side = "attached" THEN {"attached", "terminating"} ELSE {side}
    /\ signals' \in IF side = "detached" THEN {signals} ELSE Stronger[signals]
    /\ name' \in IF name = "pending" THEN {"pending", "named", "failed"} ELSE {name}
    /\ result' \in {"pending"} \cup Endings(side')
    /\ result' # "pending" => name' # "pending"
    /\ UNCHANGED submitted

\* Only a command whose name is known, so that it can be found again.
Detach ==
    /\ name = "named" /\ side = "attached"
    /\ side' = "detached"
    /\ UNCHANGED <<submitted, signals, name, result>>

Next == Submit \/ NotSubmitted \/ Proceed \/ Detach

Safety == Init /\ [][Next]_vars

\* A command that is let go, one way or the other, has its result in the end.
Ends == side # "attached" ~> result # "pending"

Spec == Safety /\ Ends
=============================================================================
