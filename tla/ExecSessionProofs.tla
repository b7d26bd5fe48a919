------------------------- MODULE ExecSessionProofs -------------------------
(* Proofs about ExecSession, for every set of options and every MaxKills:   *)
(* its types, its safety properties, and that it implements ExecContract.  *)
EXTENDS ExecSession, TLAPS

-----------------------------------------------------------------------------
(* Type correctness. First what the shared operators return.               *)

SettleTyped ==
    /\ settled \in BOOLEAN /\ done \in Outcomes
    /\ timers \subseteq {"timeout", "escalation", "deadline"}
    /\ sessionName \in {"pending", "named", "failed"}
    /\ ws \in Sockets

TerminateTyped ==
    /\ SettleTyped
    /\ failure \in Errors \cup {"none"}
    /\ terminating \in BOOLEAN
    /\ pending \in Origins \cup {"none"}
    /\ sent \in [Origins -> Nat]

ConnectTyped ==
    /\ phase \in Phases
    /\ connErr \in ConnectErrors \cup {"none"}
    /\ ws \in Sockets

ThrowTyped ==
    /\ phase \in Phases
    /\ thrown \in Errors \cup {"none"}
    /\ sessionName \in {"pending", "named", "failed"}

\* The connection records the handlers build are connection records.
LEMMA SocketForms ==
  ASSUME NEW w \in Sockets
  PROVE  /\ CloseWs(w) \in Sockets
         /\ [w EXCEPT !.sock = "open"] \in Sockets
         /\ [w EXCEPT !.hello = TRUE] \in Sockets
         /\ [w EXCEPT !.opened = TRUE] \in Sockets
         /\ [w EXCEPT !.sock = "closed", !.closed = TRUE] \in Sockets
         /\ Dialled \in Sockets
  BY DEF Sockets, Dialled, NoSocket, CloseWs

\* Every error of runExec makes an outcome.
LEMMA RejectedType == \A e \in Errors : Rejected(e) \in Outcomes
  BY DEF Rejected, Outcomes

\* The names the proofs use are errors, and those of a connect are connect errors.
LEMMA ErrorNames ==
  /\ ConnectErrors \subseteq Errors
  /\ {"transport", "callback", "interrupted", "unconfirmed", "stdin", "abort", "token"}
        \subseteq Errors
  /\ {"transport", "abort", "capabilities", "retryable", "denied", "unsupported"}
        \subseteq ConnectErrors
  BY DEF Errors, ConnectErrors

\* What settle() without an error leaves is an outcome.
LEMMA PlainType ==
  TypeOK => \A b \in BOOLEAN, e \in Errors \cup {"none"} : Plain(b, e) \in Outcomes
  BY DEF TypeOK, Plain, Rejected, Resolved, Outcomes

\* settle() leaves its variables typed.
LEMMA SettleType ==
  ASSUME TypeOK, NEW o \in Outcomes, NEW w \in Sockets, Settle(o, w)
  PROVE  SettleTyped'
  BY SocketForms DEF Settle, settleVars, TypeOK, NotNamed, SettleTyped

\* A signal frame keeps the record of signals typed.
LEMMA RecordType ==
  ASSUME TypeOK, NEW S, Record(S)
  PROVE  sent' \in [Origins -> Nat]
  BY DEF Record, TypeOK

\* terminate() leaves its variables typed.
LEMMA TerminateType ==
  ASSUME TypeOK, NEW why \in Errors \cup {"none"}, Terminate(why)
  PROVE  TerminateTyped'
  <1>0. Rejected("transport") \in Outcomes /\ ws \in Sockets
    BY RejectedType, ErrorNames DEF TypeOK
  <1>1. CASE settled \/ detached
    BY <1>1 DEF Terminate, TypeOK, settleVars, TerminateTyped, SettleTyped
  <1>2. CASE ~(settled \/ detached) /\ terminating
    BY <1>2 DEF Terminate, TypeOK, settleVars, TerminateTyped, SettleTyped
  <1>3. CASE ~(settled \/ detached) /\ ~terminating
    <2>1. failure' \in Errors \cup {"none"} /\ terminating' \in BOOLEAN
      BY <1>3 DEF Terminate, TypeOK
    <2>2. CASE PendTerm
      BY <2>1, <2>2 DEF PendTerm, TypeOK, Origins, TerminateTyped, SettleTyped
    <2>3. CASE SendTerm
      <3>1. CASE /\ Record({"TERM"}) /\ timers' = {"escalation", "deadline"}
                 /\ UNCHANGED <<settled, done, sessionName, ws, pending>>
        BY <2>1, <3>1, RecordType DEF TypeOK, TerminateTyped, SettleTyped
      <3>2. CASE Settle(Rejected("transport"), ws) /\ UNCHANGED <<pending, sent>>
        <4>1. SettleTyped'
          BY <1>0, <3>2, SettleType
        <4>2. QED BY <2>1, <3>2, <4>1 DEF TypeOK, TerminateTyped
      <3>3. QED BY <2>3, <3>1, <3>2 DEF SendTerm
    <2>4. QED BY <1>3, <2>2, <2>3 DEF Terminate
  <1>4. QED BY <1>1, <1>2, <1>3

\* A throw of runExec leaves its variables typed.
LEMMA ThrowType ==
  ASSUME TypeOK, NEW e \in Errors \cup {"none"}, Throw(e)
  PROVE  ThrowTyped'
  BY DEF TypeOK, Throw, NotNamed, Phases, ThrowTyped

\* A rejected connect leaves its variables typed.
LEMMA RejectConnectType ==
  ASSUME NEW e \in ConnectErrors, NEW w \in Sockets, RejectConnect(e, w)
  PROVE  ConnectTyped'
  BY DEF RejectConnect, Phases, ConnectTyped

\* start() leaves its variables typed, whichever way it ends.
LEMMA StartType ==
  ASSUME TypeOK, NEW w \in Sockets, Start(w)
  PROVE  ConnectTyped' /\ commands' \in Nat
  <1>1. commands' \in Nat
    BY DEF Start, TypeOK
  <1>2. CASE RejectConnect("transport", CloseWs([w EXCEPT !.opened = TRUE]))
    BY <1>1, <1>2, RejectConnectType, SocketForms, ErrorNames
  <1>3. CASE /\ phase' = "opened" /\ ws' = [w EXCEPT !.opened = TRUE]
             /\ UNCHANGED connErr
    BY <1>1, <1>3, SocketForms DEF TypeOK, Phases, ConnectTyped
  <1>4. QED BY <1>2, <1>3 DEF Start

\* The callbacks that an exit flushes leave their variables typed.
LEMMA FlushType ==
  ASSUME TypeOK, NEW kills, NEW aborts \in BOOLEAN, FlushCallbacks(kills, aborts)
  PROVE  /\ sent' \in [Origins -> Nat] /\ pending' \in Origins \cup {"none"}
         /\ aborted' \in BOOLEAN /\ failure' \in Errors \cup {"none"}
  <1>1. sent' \in [Origins -> Nat]
    BY RecordType DEF FlushCallbacks, TypeOK
  <1>2. pending' \in Origins \cup {"none"} /\ aborted' \in BOOLEAN
    BY DEF FlushCallbacks, TypeOK, Origins
  <1>3. failure' \in Errors \cup {"none"}
    BY ErrorNames DEF FlushCallbacks, TypeOK
  <1>4. QED BY <1>1, <1>2, <1>3

\* Every step of the exec keeps every variable in its type.
LEMMA TypeStep == TypeOK /\ [Next]_vars => TypeOK'
  <1> SUFFICES ASSUME TypeOK, [Next]_vars PROVE TypeOK'
    OBVIOUS
  <1>0. /\ ws \in Sockets /\ exited \in BOOLEAN /\ failure \in Errors \cup {"none"}
        /\ sessionName \in {"pending", "named", "failed"}
        /\ thrown \in Errors \cup {"none"} /\ connErr \in ConnectErrors \cup {"none"}
        /\ commands \in Nat /\ phase \in Phases
    BY DEF TypeOK
  <1> USE DEF callerVars, connectVars, controlVars, settleVars, runVars
  <1>1. CASE MintShellToken
    <2>1. ThrowTyped' /\ ws' \in Sockets
      BY <1>1, <1>0, ThrowType, SocketForms, ErrorNames DEF MintShellToken, ThrowTyped, Phases
    <2>2. QED BY <1>1, <2>1 DEF TypeOK, ThrowTyped, MintShellToken
  <1>2. CASE ConnectFailed
    <2>1. CASE Throw(IF MayRetry THEN "abort" ELSE connErr) /\ UNCHANGED attempt
      <3>1. (IF MayRetry THEN "abort" ELSE connErr) \in Errors \cup {"none"}
        BY <1>0, ErrorNames
      <3>2. ThrowTyped'
        BY <2>1, <3>1, ThrowType
      <3>3. QED BY <1>2, <2>1, <3>2 DEF TypeOK, ThrowTyped, ConnectFailed
    <2>2. CASE phase' \in {"delay", "mint"} /\ UNCHANGED <<thrown, sessionName>>
      BY <1>2, <2>2 DEF TypeOK, Phases, ConnectFailed
    <2>3. QED BY <1>2, <2>1, <2>2 DEF ConnectFailed
  <1>3. CASE RetryDelay
    <2>1. phase' \in Phases /\ attempt' = "retry"
      BY <1>3 DEF RetryDelay, Phases
    <2>2. QED BY <1>3, <2>1 DEF TypeOK, RetryDelay
  <1>4. CASE SocketOpen
    <2>0. [ws EXCEPT !.sock = "open"] \in Sockets
      BY <1>0, SocketForms
    <2> DEFINE w == [ws EXCEPT !.sock = "open"]
    <2> HIDE DEF w
    <2>1. w \in Sockets /\ [w EXCEPT !.hello = TRUE] \in Sockets
      BY <2>0, SocketForms DEF w
    <2>2. CASE Start(w)
      <3>1. ConnectTyped' /\ commands' \in Nat
        BY <2>1, <2>2, StartType
      <3>2. QED BY <1>4, <3>1 DEF TypeOK, ConnectTyped, SocketOpen
    <2>3. CASE RejectConnect("transport", CloseWs(w)) /\ UNCHANGED commands
      <3>1. ConnectTyped'
        BY <2>1, <2>3, RejectConnectType, SocketForms, ErrorNames
      <3>2. QED BY <1>4, <2>3, <3>1 DEF TypeOK, ConnectTyped, SocketOpen
    <2>4. CASE ws' = [w EXCEPT !.hello = TRUE] /\ UNCHANGED <<phase, connErr, commands>>
      BY <1>4, <2>1, <2>4 DEF TypeOK, SocketOpen
    <2>5. QED BY <1>4, <2>2, <2>3, <2>4 DEF SocketOpen, w
  <1>5. CASE RecvCapabilities
    <2>1. CASE Start(ws)
      <3>1. ConnectTyped' /\ commands' \in Nat
        BY <1>0, <2>1, StartType
      <3>2. QED BY <1>5, <3>1 DEF TypeOK, ConnectTyped, RecvCapabilities
    <2>2. CASE RejectConnect("capabilities", CloseWs(ws)) /\ UNCHANGED commands
      <3>1. ConnectTyped'
        BY <1>0, <2>2, RejectConnectType, SocketForms, ErrorNames
      <3>2. QED BY <1>5, <2>2, <3>1 DEF TypeOK, ConnectTyped, RecvCapabilities
    <2>3. QED BY <1>5, <2>1, <2>2 DEF RecvCapabilities
  <1>6. CASE SocketError
    <2>1. ConnectTyped'
      BY <1>6, <1>0, RejectConnectType, SocketForms, ErrorNames DEF SocketError
    <2>2. QED BY <1>6, <2>1 DEF TypeOK, ConnectTyped, SocketError
  <1>7. CASE SocketClosed
    <2>0. [ws EXCEPT !.sock = "closed", !.closed = TRUE] \in Sockets
      BY <1>0, SocketForms
    <2> DEFINE w == [ws EXCEPT !.sock = "closed", !.closed = TRUE]
    <2>1. w \in Sockets
      BY <2>0
    <2> HIDE DEF w
    <2>2. CASE ws.opened
      <3>1. /\ Settle(IF detached THEN Plain(exited, failure) ELSE Rejected("interrupted"), w)
            /\ UNCHANGED <<phase, connErr>>
        BY <1>7, <2>2 DEF SocketClosed, w
      <3>2. (IF detached THEN Plain(exited, failure) ELSE Rejected("interrupted")) \in Outcomes
        BY <1>0, PlainType, RejectedType, ErrorNames
      <3>3. SettleTyped'
        BY <2>1, <3>1, <3>2, SettleType
      <3>4. QED BY <1>7, <3>1, <3>3 DEF TypeOK, SettleTyped, SocketClosed
    <2>3. CASE ~ws.opened /\ phase = "connecting"
      <3>1. PICK e \in CloseErrors : RejectConnect(e, w)
        BY <1>7, <2>3 DEF SocketClosed, w
      <3>2. e \in ConnectErrors
        BY <3>1, ErrorNames DEF CloseErrors
      <3>3. ConnectTyped'
        BY <2>1, <3>1, <3>2, RejectConnectType
      <3>4. QED BY <1>7, <2>3, <3>3 DEF TypeOK, ConnectTyped, SocketClosed
    <2>4. CASE ~ws.opened /\ phase # "connecting"
      <3>1. ws' = w /\ UNCHANGED <<phase, connErr>> /\ UNCHANGED settleVars
        BY <1>7, <2>4 DEF SocketClosed, w
      <3>2. QED BY <1>7, <2>1, <3>1 DEF TypeOK, SocketClosed
    <2>5. QED BY <2>2, <2>3, <2>4
  <1>8. CASE ConnectedTooLate
    <2>1. phase' \in Phases /\ connected' = TRUE /\ ws' \in Sockets
      BY <1>8, <1>0, SocketForms DEF ConnectedTooLate, BecomeConnected, Phases
    <2>2. QED BY <1>8, <2>1 DEF TypeOK, ConnectedTooLate, BecomeConnected
  <1>9. CASE Connected
    <2>1. phase' \in Phases /\ sent' \in [Origins -> Nat]
      BY <1>9, RecordType DEF Connected, BecomeConnected, Phases
    <2>2. failure' \in Errors \cup {"none"}
      BY <1>9, ErrorNames DEF TypeOK, Connected
    <2>3. QED BY <1>9, <2>1, <2>2 DEF TypeOK, Connected, BecomeConnected
  <1>10. ASSUME NEW failed \in {"pending", "TERM", "eof"}, ConnectedSendFails(failed)
        PROVE  TypeOK'
    <2>1. phase' \in Phases /\ sent' \in [Origins -> Nat] /\ ws' \in Sockets
      BY <1>10, <1>0, RecordType, SocketForms DEF ConnectedSendFails, BecomeConnected, Phases
    <2>2. failure' \in Errors \cup {"none"} /\ done' \in Outcomes
      BY <1>10, ErrorNames, RejectedType DEF TypeOK, ConnectedSendFails
    <2>3. QED BY <1>10, <2>1, <2>2 DEF TypeOK, ConnectedSendFails, BecomeConnected, NotNamed
  <1>11. CASE RecvExit
    <2>1. PICK kills, aborts, throws \in BOOLEAN :
            /\ FlushCallbacks(kills, aborts)
            /\ Settle(IF throws THEN Rejected("callback") ELSE Plain(TRUE, failure'), ws)
      BY <1>11 DEF RecvExit
    <2>2. /\ sent' \in [Origins -> Nat] /\ pending' \in Origins \cup {"none"}
          /\ aborted' \in BOOLEAN /\ failure' \in Errors \cup {"none"}
      BY <2>1, FlushType
    <2>3. (IF throws THEN Rejected("callback") ELSE Plain(TRUE, failure')) \in Outcomes
      BY <2>2, PlainType, RejectedType, ErrorNames
    <2>4. SettleTyped'
      BY <1>0, <2>1, <2>3, SettleType
    <2>5. QED BY <1>11, <2>2, <2>4 DEF TypeOK, SettleTyped, RecvExit
  <1>12. CASE RecvOutput
    <2>1. SettleTyped'
      BY <1>12, <1>0, SettleType, RejectedType, ErrorNames DEF RecvOutput
    <2>2. QED BY <1>12, <2>1 DEF TypeOK, SettleTyped, RecvOutput
  <1>13. CASE RecvError
    <2>1. SettleTyped'
      BY <1>13, <1>0, SettleType, RejectedType, ErrorNames DEF RecvError
    <2>2. QED BY <1>13, <2>1 DEF TypeOK, SettleTyped, RecvError
  <1>14. CASE RecvStdinError
    <2>1. TerminateTyped'
      BY <1>14, TerminateType, ErrorNames DEF RecvStdinError
    <2>2. QED BY <1>14, <2>1 DEF TypeOK, TerminateTyped, SettleTyped, RecvStdinError
  <1>15. CASE RecvDurableSession
    BY <1>15 DEF TypeOK, RecvDurableSession
  <1>16. CASE TimeoutFires
    <2>1. CASE Terminate("none")
      <3>1. TerminateTyped'
        BY <2>1, TerminateType
      <3>2. QED BY <1>16, <3>1 DEF TypeOK, TerminateTyped, SettleTyped, TimeoutFires
    <2>2. CASE /\ timers' = timers \ {"timeout"}
               /\ UNCHANGED <<failure, terminating, pending, sent, ws, settled, done,
                              sessionName>>
      BY <1>16, <2>2 DEF TypeOK, TimeoutFires
    <2>3. QED BY <1>16, <2>1, <2>2 DEF TimeoutFires
  <1>17. CASE EscalationFires
    <2>1. CASE /\ Record({"KILL"}) /\ timers' = timers \ {"escalation"}
               /\ UNCHANGED <<settled, done, sessionName, ws>>
      <3>1. sent' \in [Origins -> Nat]
        BY <2>1, RecordType
      <3>2. QED BY <1>17, <2>1, <3>1 DEF TypeOK, EscalationFires
    <2>2. CASE Settle(Rejected("transport"), ws) /\ UNCHANGED sent
      <3>1. SettleTyped'
        BY <1>0, <2>2, SettleType, RejectedType, ErrorNames
      <3>2. QED BY <1>17, <2>2, <3>1 DEF TypeOK, SettleTyped, EscalationFires
    <2>3. QED BY <1>17, <2>1, <2>2 DEF EscalationFires
  <1>18. CASE DeadlineFires
    <2>1. Plain(exited, failure) \in Outcomes /\ Rejected("unconfirmed") \in Outcomes
      BY <1>0, PlainType, RejectedType, ErrorNames
    <2>2. SettleTyped'
      BY <1>18, <1>0, <2>1, SettleType DEF DeadlineFires
    <2>3. QED BY <1>18, <2>1, <2>2 DEF TypeOK, SettleTyped, DeadlineFires
  <1>19. CASE Abort
    <2>1. CASE phase = "connecting"
      <3>1. RejectConnect("abort", CloseWs(ws))
        BY <1>19, <2>1 DEF Abort
      <3>2. ConnectTyped'
        BY <1>0, <3>1, RejectConnectType, SocketForms, ErrorNames
      <3>3. QED BY <1>19, <2>1, <3>2 DEF TypeOK, ConnectTyped, Abort
    <2>2. CASE phase = "delay"
      <3>1. ThrowTyped'
        BY <1>19, <2>2, ThrowType, ErrorNames DEF Abort
      <3>2. QED BY <1>19, <2>2, <3>1 DEF TypeOK, ThrowTyped, Abort
    <2>3. CASE phase = "running"
      <3>1. TerminateTyped'
        BY <1>19, <2>3, TerminateType, ErrorNames DEF Abort
      <3>2. QED BY <1>19, <2>3, <3>1 DEF TypeOK, TerminateTyped, SettleTyped, Abort
    <2>4. CASE phase \notin {"connecting", "delay", "running"}
      BY <1>19, <2>4 DEF TypeOK, Abort
    <2>5. QED BY <2>1, <2>2, <2>3, <2>4
  <1>20. CASE Kill
    <2>1. sent' \in [Origins -> Nat] /\ pending' \in Origins \cup {"none"}
      BY <1>20, RecordType DEF TypeOK, Kill, Origins
    <2>2. QED BY <1>20, <2>1 DEF TypeOK, Kill
  <1>21. CASE Detach
    BY <1>21 DEF TypeOK, Detach
  <1>22. CASE DetachNamed
    <2>1. ws' \in Sockets /\ detached' \in BOOLEAN
      BY <1>22, <1>0, SocketForms DEF TypeOK, DetachNamed
    <2>2. QED BY <1>22, <2>1 DEF TypeOK, DetachNamed
  <1>23. CASE UNCHANGED vars
    BY <1>23 DEF vars, TypeOK
  <1>24. QED
    BY <1>1, <1>2, <1>3, <1>4, <1>5, <1>6, <1>7, <1>8, <1>9, <1>10, <1>11, <1>12, <1>13, <1>14, <1>15, <1>16, <1>17, <1>18, <1>19, <1>20, <1>21, <1>22, <1>23
    DEF Next, ConnectStep, FrameStep, TimerStep, CallerStep

\* The initial states are typed.
LEMMA TypeInit == Init => TypeOK
  <1> SUFFICES ASSUME Init PROVE TypeOK
    OBVIOUS
  <1>1. aborted \in BOOLEAN
    BY DEF Init
  <1>2. ws \in Sockets /\ done \in Outcomes
    BY DEF Init, Sockets, NoSocket, Outcomes, Pending
  <1>3. phase \in Phases /\ thrown \in Errors \cup {"none"}
    BY ErrorNames DEF Init, Phases
  <1>4. sent \in [Origins -> Nat]
    BY DEF Init
  <1>5. QED
    BY <1>1, <1>2, <1>3, <1>4 DEF Init, TypeOK

\* Every variable of the exec stays in its type, whatever the options.
THEOREM TypeCorrect == Spec => []TypeOK
  BY TypeInit, TypeStep, PTL DEF Spec

-----------------------------------------------------------------------------
(* The command is handed over once, and to one side only.                  *)

\* Where an init_exec has left its mark: on the connection, and on the error if
\* sending it threw.
CommandInv ==
    /\ commands = IF ws.opened THEN 1 ELSE 0
    /\ phase \in {"mint", "connecting", "delay"} => ~ws.opened
    /\ phase = "connectFailed" /\ ws.opened => connErr = "transport"
    /\ phase = "thrown" /\ ws.opened => thrown = "transport"

LiveErrors == {"none", "abort", "stdin", "transport", "callback", "interrupted", "unconfirmed"}

\* A session that went live ends with an error of a live session.
ErrorInv == failure \in LiveErrors /\ done.error \in LiveErrors

\* Only terminate() arms the escalation and the deadline.
TimerInv == timers \subseteq {"timeout"} \/ terminating

IInv == TypeOK /\ CommandInv /\ ErrorInv /\ TimerInv /\ DetachExcludesTerminate

\* Closing a connection, or opening its socket, leaves alone whether it went live.
LEMMA SocketFields ==
  ASSUME NEW w \in Sockets
  PROVE  /\ CloseWs(w).opened = w.opened
         /\ [w EXCEPT !.sock = "open"].opened = w.opened
         /\ [w EXCEPT !.hello = TRUE].opened = w.opened
         /\ [w EXCEPT !.opened = TRUE].opened = TRUE
         /\ [w EXCEPT !.sock = "closed", !.closed = TRUE].opened = w.opened
         /\ Dialled.opened = FALSE
  BY DEF Sockets, Dialled, NoSocket, CloseWs

\* The error an outcome carries.
LEMMA OutcomeErrors ==
  /\ \A e : Rejected(e).error = e
  /\ \A b, e : Plain(b, e).error = e
  BY DEF Rejected, Plain, Resolved

\* What settle() may change: it never brings a signal, a timer or a command.
LEMMA SettleFacts ==
  ASSUME NEW o, NEW w \in Sockets, Settle(o, w)
  PROVE  /\ ws'.opened = w.opened
         /\ done' = done \/ done' = o
         /\ timers' = timers \/ timers' = {}
  BY SocketFields DEF Settle, settleVars

\* What terminate() may change, and that it leaves a detached command alone.
LEMMA TerminateFacts ==
  ASSUME TypeOK, NEW why, Terminate(why)
  PROVE  /\ ws'.opened = ws.opened
         /\ done' = done \/ done' = Rejected("transport")
         /\ failure' = failure \/ failure' = why
         /\ terminating' \/ (timers' = timers /\ terminating' = terminating)
         /\ detached => sent' = sent /\ terminating' = terminating
  <1>0. ws \in Sockets
    BY DEF TypeOK
  <1>1. CASE settled \/ detached
    BY <1>1 DEF Terminate, settleVars
  <1>2. CASE ~(settled \/ detached) /\ terminating
    BY <1>2 DEF Terminate, settleVars
  <1>3. CASE ~(settled \/ detached) /\ ~terminating
    <2>1. terminating' /\ (failure' = failure \/ failure' = why) /\ ~detached
      BY <1>3 DEF Terminate
    <2>2. CASE UNCHANGED <<ws, done>>
      BY <2>1, <2>2
    <2>3. CASE Settle(Rejected("transport"), ws)
      BY <1>0, <2>1, <2>3, SettleFacts
    <2>4. QED BY <1>3, <2>2, <2>3 DEF Terminate, SendTerm, PendTerm
  <1>4. QED BY <1>1, <1>2, <1>3

\* start() in any of its outcomes: one more init_exec, on an opened connection.
LEMMA StartFacts ==
  ASSUME NEW w \in Sockets, Start(w)
  PROVE  /\ commands' = commands + 1 /\ ws'.opened
         /\ phase' = "opened" \/ (phase' = "connectFailed" /\ connErr' = "transport")
  <1>1. commands' = commands + 1
    BY DEF Start
  <1>2. [w EXCEPT !.opened = TRUE] \in Sockets /\ [w EXCEPT !.opened = TRUE].opened
    BY SocketForms, SocketFields
  <1>3. CASE phase' = "opened" /\ ws' = [w EXCEPT !.opened = TRUE]
    BY <1>1, <1>2, <1>3
  <1>4. CASE RejectConnect("transport", CloseWs([w EXCEPT !.opened = TRUE]))
    BY <1>1, <1>2, <1>4, SocketFields DEF RejectConnect
  <1>5. QED BY <1>3, <1>4 DEF Start

\* The inductive step, one action at a time.
LEMMA InvStep == IInv /\ [Next]_vars => IInv'
  <1> SUFFICES ASSUME IInv, [Next]_vars PROVE IInv'
    OBVIOUS
  <1>0. TypeOK /\ TypeOK' /\ ws \in Sockets /\ commands \in Nat
    BY TypeStep DEF IInv, TypeOK
  <1> SUFFICES (CommandInv /\ ErrorInv /\ TimerInv /\ DetachExcludesTerminate)'
    BY <1>0 DEF IInv
  <1>a. CommandInv /\ ErrorInv /\ TimerInv /\ DetachExcludesTerminate
    BY DEF IInv
  <1> USE DEF callerVars, connectVars, controlVars, settleVars, runVars
  <1>1. CASE MintShellToken
    BY <1>1, <1>0, <1>a, SocketFields DEF MintShellToken, Throw, CommandInv, ErrorInv, TimerInv, DetachExcludesTerminate
  <1>2. CASE ConnectFailed
    BY <1>2, <1>0, <1>a DEF ConnectFailed, Throw, MayRetry, MayFallBack, CommandInv, ErrorInv, TimerInv, DetachExcludesTerminate
  <1>3. CASE RetryDelay
    BY <1>3, <1>0, <1>a DEF RetryDelay, CommandInv, ErrorInv, TimerInv, DetachExcludesTerminate
  <1>4. CASE SocketOpen
    <2> DEFINE w == [ws EXCEPT !.sock = "open"]
    <2>1. w \in Sockets /\ CloseWs(w) \in Sockets
      BY <1>0, SocketForms
    <2>2. w.opened = ws.opened /\ ~ws.opened
      BY <1>4, <1>0, <1>a, SocketFields DEF SocketOpen, CommandInv
    <2> HIDE DEF w
    <2>3. CASE Start(w)
      BY <1>4, <1>0, <1>a, <2>1, <2>2, <2>3, StartFacts DEF SocketOpen, CommandInv, ErrorInv, TimerInv, DetachExcludesTerminate
    <2>4. CASE /\ phase' \in {"connecting", "connectFailed"} /\ commands' = commands
               /\ ws'.opened = w.opened
      BY <1>4, <1>a, <2>2, <2>4 DEF SocketOpen, CommandInv, ErrorInv, TimerInv, DetachExcludesTerminate
    <2>5. Start(w) \/ (/\ phase' \in {"connecting", "connectFailed"}
                       /\ commands' = commands /\ ws'.opened = w.opened)
      BY <1>4, <2>1, SocketFields DEF SocketOpen, RejectConnect, w
    <2>6. QED BY <2>3, <2>4, <2>5
  <1>5. CASE RecvCapabilities
    <2>1. CASE Start(ws)
      BY <1>5, <1>0, <1>a, <2>1, StartFacts DEF RecvCapabilities, CommandInv, ErrorInv, TimerInv, DetachExcludesTerminate
    <2>2. CASE RejectConnect("capabilities", CloseWs(ws)) /\ UNCHANGED commands
      BY <1>5, <1>0, <1>a, <2>2, SocketFields DEF RecvCapabilities, RejectConnect, CommandInv, ErrorInv, TimerInv, DetachExcludesTerminate
    <2>3. QED BY <1>5, <2>1, <2>2 DEF RecvCapabilities
  <1>6. CASE SocketError
    BY <1>6, <1>0, <1>a, SocketFields DEF SocketError, RejectConnect, CommandInv, ErrorInv, TimerInv, DetachExcludesTerminate
  <1>7. CASE SocketClosed
    <2> DEFINE w == [ws EXCEPT !.sock = "closed", !.closed = TRUE]
    <2>1. w \in Sockets /\ w.opened = ws.opened
      BY <1>0, SocketForms, SocketFields
    <2> HIDE DEF w
    <2>2. CASE ws.opened
      <3>1. /\ Settle(IF detached THEN Plain(exited, failure) ELSE Rejected("interrupted"), w)
            /\ UNCHANGED <<phase, connErr>>
        BY <1>7, <2>2 DEF SocketClosed, w
      <3>2. done'.error \in LiveErrors
        BY <1>a, <2>1, <3>1, SettleFacts, OutcomeErrors DEF ErrorInv, LiveErrors
      <3>3. ws'.opened /\ (timers' = timers \/ timers' = {})
        BY <2>1, <2>2, <3>1, SettleFacts
      <3>4. QED BY <1>7, <1>a, <2>2, <3>1, <3>2, <3>3 DEF SocketClosed, CommandInv, ErrorInv, TimerInv, DetachExcludesTerminate
    <2>3. CASE ~ws.opened
      <3>1. ~ws'.opened /\ UNCHANGED settleVars
        BY <1>7, <2>1, <2>3 DEF SocketClosed, RejectConnect, w
      <3>2. phase' = phase \/ phase' = "connectFailed"
        BY <1>7, <2>3 DEF SocketClosed, RejectConnect
      <3>3. QED BY <1>7, <1>a, <2>3, <3>1, <3>2 DEF SocketClosed, CommandInv, ErrorInv, TimerInv, DetachExcludesTerminate
    <2>4. QED BY <2>2, <2>3
  <1>8. CASE ConnectedTooLate
    BY <1>8, <1>0, <1>a, SocketFields DEF ConnectedTooLate, BecomeConnected, CommandInv, ErrorInv, TimerInv, DetachExcludesTerminate
  <1>9. CASE Connected
    BY <1>9, <1>0, <1>a DEF Connected, BecomeConnected, AbortNow, LiveErrors, CommandInv, ErrorInv, TimerInv, DetachExcludesTerminate
  <1>10. ASSUME NEW failed \in {"pending", "TERM", "eof"}, ConnectedSendFails(failed)
        PROVE  (CommandInv /\ ErrorInv /\ TimerInv /\ DetachExcludesTerminate)'
    BY <1>10, <1>0, <1>a, SocketFields, OutcomeErrors DEF ConnectedSendFails, BecomeConnected, AbortNow, LiveErrors, CommandInv, ErrorInv, TimerInv, DetachExcludesTerminate
  <1>11. CASE RecvExit
    <2>1. PICK kills, aborts, throws \in BOOLEAN :
            /\ FlushCallbacks(kills, aborts)
            /\ Settle(IF throws THEN Rejected("callback") ELSE Plain(TRUE, failure'), ws)
      BY <1>11 DEF RecvExit
    <2>2. failure' \in LiveErrors
      BY <1>a, <2>1 DEF FlushCallbacks, ErrorInv, LiveErrors
    <2> DEFINE o == IF throws THEN Rejected("callback") ELSE Plain(TRUE, failure')
    <2>3. o.error \in LiveErrors
      BY <2>2, OutcomeErrors DEF LiveErrors
    <2> HIDE DEF o
    <2>4. Settle(o, ws)
      BY <2>1 DEF o
    <2>5. ws'.opened = ws.opened /\ done'.error \in LiveErrors
          /\ (timers' = timers \/ timers' = {})
      BY <1>0, <1>a, <2>3, <2>4, SettleFacts DEF ErrorInv
    <2>6. QED BY <1>11, <1>a, <2>2, <2>5 DEF RecvExit, CommandInv, ErrorInv, TimerInv, DetachExcludesTerminate
  <1>12. CASE RecvOutput
    <2>1. PICK o : Settle(o, ws) /\ o.error \in LiveErrors
      BY <1>12, <1>a, OutcomeErrors DEF RecvOutput, ErrorInv, LiveErrors
    <2>2. ws'.opened = ws.opened /\ done'.error \in LiveErrors
          /\ (timers' = timers \/ timers' = {})
      BY <1>0, <1>a, <2>1, SettleFacts DEF ErrorInv
    <2>3. QED BY <1>12, <1>a, <2>2 DEF RecvOutput, CommandInv, ErrorInv, TimerInv, DetachExcludesTerminate
  <1>13. CASE RecvError
    <2>1. PICK o : Settle(o, ws) /\ o.error \in LiveErrors
      BY <1>13, <1>a, OutcomeErrors DEF RecvError, ErrorInv, LiveErrors
    <2>2. ws'.opened = ws.opened /\ done'.error \in LiveErrors
          /\ (timers' = timers \/ timers' = {})
      BY <1>0, <1>a, <2>1, SettleFacts DEF ErrorInv
    <2>3. QED BY <1>13, <1>a, <2>2 DEF RecvError, CommandInv, ErrorInv, TimerInv, DetachExcludesTerminate
  <1>14. CASE RecvStdinError
    <2>1. Terminate("stdin")
      BY <1>14 DEF RecvStdinError
    <2>2. failure' \in LiveErrors /\ done'.error \in LiveErrors
      BY <1>0, <1>a, <2>1, TerminateFacts, OutcomeErrors DEF ErrorInv, LiveErrors
    <2>3. /\ ws'.opened = ws.opened /\ (terminating' \/ (timers' = timers /\ terminating' = terminating))
          /\ detached => terminating' = terminating
      BY <1>0, <2>1, TerminateFacts
    <2>4. CommandInv'
      BY <1>14, <1>a, <2>3 DEF RecvStdinError, CommandInv
    <2>5. TimerInv'
      BY <1>a, <2>1, <2>3 DEF TimerInv
    <2>6. detached' = detached
      BY <1>14 DEF RecvStdinError
    <2>7. DetachExcludesTerminate'
      BY <1>a, <2>3, <2>6 DEF DetachExcludesTerminate
    <2>8. QED BY <2>2, <2>4, <2>5, <2>7 DEF ErrorInv
  <1>15. CASE RecvDurableSession
    BY <1>15, <1>0, <1>a DEF RecvDurableSession, CommandInv, ErrorInv, TimerInv, DetachExcludesTerminate
  <1>16. CASE TimeoutFires
    <2>1. CASE Terminate("none")
      <3>1. failure' \in LiveErrors /\ done'.error \in LiveErrors
        BY <1>0, <1>a, <2>1, TerminateFacts, OutcomeErrors DEF ErrorInv, LiveErrors
      <3>2. QED BY <1>16, <1>0, <1>a, <2>1, <3>1, TerminateFacts DEF TimeoutFires, CommandInv, ErrorInv, TimerInv, DetachExcludesTerminate
    <2>2. CASE /\ timers' = timers \ {"timeout"}
               /\ UNCHANGED <<failure, terminating, pending, sent, ws, settled, done,
                              sessionName>>
      BY <1>16, <1>a, <2>2 DEF TimeoutFires, CommandInv, ErrorInv, TimerInv, DetachExcludesTerminate
    <2>3. QED BY <1>16, <2>1, <2>2 DEF TimeoutFires
  <1>17. CASE EscalationFires
    <2>1. CASE Settle(Rejected("transport"), ws)
      <3>1. done'.error \in LiveErrors
        BY <1>0, <1>a, <2>1, SettleFacts, OutcomeErrors DEF ErrorInv, LiveErrors
      <3>2. QED BY <1>17, <1>0, <1>a, <2>1, <3>1, SettleFacts DEF EscalationFires, CommandInv, ErrorInv, TimerInv, DetachExcludesTerminate
    <2>2. CASE timers' = timers \ {"escalation"} /\ UNCHANGED <<done, ws>>
      BY <1>17, <1>a, <2>2 DEF EscalationFires, CommandInv, ErrorInv, TimerInv, DetachExcludesTerminate
    <2>3. QED BY <1>17, <2>1, <2>2 DEF EscalationFires
  <1>18. CASE DeadlineFires
    <2>1. PICK o : Settle(o, ws) /\ o.error \in LiveErrors
      BY <1>18, <1>a, OutcomeErrors DEF DeadlineFires, ErrorInv, LiveErrors
    <2>2. ws'.opened = ws.opened /\ done'.error \in LiveErrors
          /\ (timers' = timers \/ timers' = {})
      BY <1>0, <1>a, <2>1, SettleFacts DEF ErrorInv
    <2>3. QED BY <1>18, <1>a, <2>2 DEF DeadlineFires, CommandInv, ErrorInv, TimerInv, DetachExcludesTerminate
  <1>19. CASE Abort
    <2>1. CASE phase = "connecting"
      BY <1>19, <1>0, <1>a, <2>1, SocketFields DEF Abort, RejectConnect, CommandInv, ErrorInv, TimerInv, DetachExcludesTerminate
    <2>2. CASE phase = "delay"
      BY <1>19, <1>a, <2>2 DEF Abort, Throw, CommandInv, ErrorInv, TimerInv, DetachExcludesTerminate
    <2>3. CASE phase = "running"
      <3>1. Terminate("abort")
        BY <1>19, <2>3 DEF Abort
      <3>2. failure' \in LiveErrors /\ done'.error \in LiveErrors
        BY <1>0, <1>a, <3>1, TerminateFacts, OutcomeErrors DEF ErrorInv, LiveErrors
      <3>3. /\ ws'.opened = ws.opened /\ (terminating' \/ (timers' = timers /\ terminating' = terminating))
            /\ detached => terminating' = terminating
        BY <1>0, <3>1, TerminateFacts
      <3>4. CommandInv'
        BY <1>19, <1>a, <2>3, <3>3 DEF Abort, CommandInv
      <3>5. TimerInv'
        BY <1>a, <3>3 DEF TimerInv
      <3>6. detached' = detached
        BY <1>19 DEF Abort
      <3>7. DetachExcludesTerminate'
        BY <1>a, <3>3, <3>6 DEF DetachExcludesTerminate
      <3>8. QED BY <3>2, <3>4, <3>5, <3>7 DEF ErrorInv
    <2>4. CASE phase \notin {"connecting", "delay", "running"}
      BY <1>19, <1>a, <2>4 DEF Abort, CommandInv, ErrorInv, TimerInv, DetachExcludesTerminate
    <2>5. QED BY <2>1, <2>2, <2>3, <2>4
  <1>20. CASE Kill
    BY <1>20, <1>0, <1>a DEF Kill, CommandInv, ErrorInv, TimerInv, DetachExcludesTerminate
  <1>21. CASE Detach
    BY <1>21, <1>0, <1>a DEF Detach, CommandInv, ErrorInv, TimerInv, DetachExcludesTerminate
  <1>22. CASE DetachNamed
    <2>1. ws'.opened = ws.opened
      BY <1>22, <1>0, SocketFields DEF DetachNamed
    <2>2. detached' => detached \/ ~terminating
      BY <1>22 DEF DetachNamed
    <2>3. QED BY <1>22, <1>a, <2>1, <2>2 DEF DetachNamed, CommandInv, ErrorInv, TimerInv, DetachExcludesTerminate
  <1>23. CASE UNCHANGED vars
    BY <1>a, <1>23 DEF vars, CommandInv, ErrorInv, TimerInv, DetachExcludesTerminate
  <1>24. QED
    BY <1>1, <1>2, <1>3, <1>4, <1>5, <1>6, <1>7, <1>8, <1>9, <1>10, <1>11, <1>12, <1>13, <1>14, <1>15, <1>16, <1>17, <1>18, <1>19, <1>20, <1>21, <1>22, <1>23
    DEF Next, ConnectStep, FrameStep, TimerStep, CallerStep

\* The initial states satisfy the inductive invariant.
LEMMA InvInit == Init => IInv
  <1> SUFFICES ASSUME Init PROVE IInv
    OBVIOUS
  <1>1. TypeOK
    BY TypeInit
  <1>2. CommandInv /\ ErrorInv /\ TimerInv /\ DetachExcludesTerminate
    BY DEF Init, CommandInv, ErrorInv, TimerInv, DetachExcludesTerminate, NoSocket, Pending,
       LiveErrors
  <1>3. QED BY <1>1, <1>2 DEF IInv

\* The inductive invariant holds in every state of every behaviour.
LEMMA Invariant == Spec => []IInv
  BY InvInit, InvStep, PTL DEF Spec

\* The caller's command is submitted at most once, over every retry, fallback and
\* failure of a send.
THEOREM OneCommand == Spec => []AtMostOneCommand
  <1>1. IInv => AtMostOneCommand
    BY DEF IInv, CommandInv, AtMostOneCommand
  <1>2. QED BY <1>1, Invariant, PTL

\* "No command was sent" is never said of a command that was.
THEOREM NotStartedHolds == Spec => []NotStartedIsTrue
  <1>1. IInv => NotStartedIsTrue
    <2> SUFFICES ASSUME IInv, Result.status = "rejected", Result.error \in NotSent
                 PROVE  commands = 0
      BY DEF NotStartedIsTrue
    <2>1. phase # "running"
      BY DEF IInv, ErrorInv, LiveErrors, NotSent, Result
    <2>2. phase = "thrown" /\ Result.error = thrown
      BY <2>1 DEF Result, Pending, Rejected
    <2>3. ~ws.opened
      BY <2>2 DEF IInv, CommandInv, NotSent
    <2>4. QED BY <2>3 DEF IInv, CommandInv
  <1>2. QED BY <1>1, Invariant, PTL

\* A command is never both left running by detach() and being terminated.
THEOREM DetachExclusion == Spec => []DetachExcludesTerminate
  <1>1. IInv => DetachExcludesTerminate
    BY DEF IInv
  <1>2. QED BY <1>1, Invariant, PTL

\* No signal follows a detach: neither the timers' nor the caller's.
THEOREM DetachIsFinal == Spec => DetachedLeftAlone
  <1>1. IInv /\ [Next]_vars => [detached => sent' = sent]_vars
    <2> SUFFICES ASSUME IInv, [Next]_vars, detached PROVE sent' = sent
      OBVIOUS
    <2>1. TypeOK /\ ~terminating /\ "escalation" \notin timers
      BY DEF IInv, DetachExcludesTerminate, TimerInv
    <2> USE DEF callerVars, connectVars, controlVars, settleVars, runVars
    <2>2. CASE ConnectStep
      BY <2>2 DEF ConnectStep, MintShellToken, ConnectFailed, RetryDelay, SocketOpen,
         RecvCapabilities, SocketError, SocketClosed, ConnectedTooLate, Connected,
         ConnectedSendFails
    <2>3. CASE FrameStep
      BY <2>1, <2>3, TerminateFacts DEF FrameStep, RecvExit, FlushCallbacks, RecvOutput, RecvError,
         RecvStdinError, RecvDurableSession
    <2>4. CASE TimerStep
      BY <2>1, <2>4, TerminateFacts DEF TimerStep, TimeoutFires, EscalationFires,
         DeadlineFires
    <2>5. CASE CallerStep
      BY <2>1, <2>5, TerminateFacts DEF CallerStep, Abort, Kill, Detach, DetachNamed
    <2>6. CASE UNCHANGED vars
      BY <2>6 DEF vars
    <2>7. QED BY <2>2, <2>3, <2>4, <2>5, <2>6 DEF Next
  <1>2. QED BY <1>1, Invariant, PTL DEF Spec, DetachedLeftAlone

-----------------------------------------------------------------------------
(* The inductive invariant: what IInv says, and how phase, socket, promise *)
(* and signals go together.                                                *)

\* A connect that has ended badly has left no connection open.
SocketInv ==
    /\ phase \notin {"connecting", "opened", "running"} => ws.sock = "none" \/ ws.closed
    /\ phase \in {"opened", "running"} => ws.opened
    /\ ws.sock = "none" => ~ws.opened
    /\ connected <=> phase = "running"

\* What settle() does stays done.
SettledInv ==
    /\ settled <=> done.status # "pending"
    /\ settled => ws.opened /\ timers = {} /\ sessionName # "pending"
    /\ settled /\ connected => ws.closed
    /\ timers # {} => phase \in {"opened", "running"}
    /\ phase = "thrown" => sessionName # "pending"
    /\ sessionName = "named" => ws.opened

\* An exec resolves without an exit only when it is detached or terminated.
ExplainedInv ==
    /\ ResultExplained
    /\ done.status = "resolved" /\ ~done.exit => detached \/ terminating

\* terminate() has sent a signal, or has one kept for the connection.
SignalInv ==
    /\ pending \in {"none", "TERM", "user"}
    /\ terminating => IF connected THEN sent["TERM"] + sent["user"] > 0 \/ settled
                      ELSE pending # "none"

EInv == IInv /\ SocketInv /\ SettledInv /\ ExplainedInv /\ SignalInv

-----------------------------------------------------------------------------
(* What the shared operators return and change.                            *)

\* The fields of a connection that this side has closed.
LEMMA CloseFields ==
  ASSUME NEW w \in Sockets
  PROVE  /\ CloseWs(w).closed = TRUE /\ CloseWs(w).opened = w.opened
         /\ CloseWs(w).sock # "none" /\ w.closed \in BOOLEAN
  BY DEF Sockets, CloseWs

\* The fields of the other connection records that handlers build.
LEMMA RecordFields ==
  ASSUME NEW w \in Sockets
  PROVE  /\ [w EXCEPT !.sock = "open"].sock = "open"
         /\ [w EXCEPT !.hello = TRUE].sock = w.sock
         /\ [w EXCEPT !.opened = TRUE].sock = w.sock
         /\ [w EXCEPT !.sock = "closed", !.closed = TRUE].sock = "closed"
         /\ [w EXCEPT !.sock = "closed", !.closed = TRUE].closed = TRUE
         /\ Dialled.sock = "connecting"
  BY DEF Sockets, Dialled, NoSocket

\* The fields of an outcome.
LEMMA OutcomeFields ==
  /\ \A e : Rejected(e).status = "rejected"
  /\ \A b, e : Plain(b, e).status = IF e = "none" THEN "resolved" ELSE "rejected"
  /\ \A b : Plain(b, "none").exit = b /\ Plain(b, "none").timedOut = timedOut
  BY DEF Rejected, Resolved, Plain

\* settle(), by whether it is the first.
LEMMA SettleCases ==
  ASSUME NEW o, NEW w, Settle(o, w)
  PROVE  /\ settled => ws' = w /\ UNCHANGED <<settled, done, sessionName, timers>>
         /\ ~settled => /\ settled' = TRUE /\ done' = o /\ timers' = {}
                        /\ sessionName' = NotNamed
                        /\ ws' = IF connected THEN CloseWs(w) ELSE w
  BY DEF Settle, settleVars

\* settle() keeps the invariant, for an outcome that is explained.
LEMMA SettleKeeps ==
  ASSUME EInv, NEW o, NEW w \in Sockets, Settle(o, w),
         w.opened, w.sock # "none", (settled /\ connected) \/ phase \notin {"opened", "running"}
                                       => w.closed,
         o.status # "pending",
         o.status = "resolved" => /\ failure' = "none"
                                  /\ o.exit \/ (detached /\ detached') \/ (o.timedOut /\ terminating'),
         terminating => terminating', detached => detached',
         settled => failure' = failure,
         UNCHANGED <<phase, connected>>
  PROVE  (SocketInv /\ SettledInv /\ ExplainedInv)'
  <1>1. ws'.opened /\ ws'.sock # "none" /\ (w.closed => ws'.closed)
    <2>1. ws' = w \/ ws' = CloseWs(w)
      BY SettleCases
    <2>2. QED BY <2>1, CloseFields
  <1>2. SocketInv'
    BY <1>1, SettleCases DEF EInv, SocketInv
  <1>3. CASE settled
    <2>1. ws' = w /\ UNCHANGED <<settled, done, sessionName, timers>>
      BY <1>3, SettleCases
    <2>2. SettledInv'
      BY <1>1, <1>3, <2>1 DEF EInv, SettledInv
    <2>3. ExplainedInv'
      BY <1>3, <2>1 DEF EInv, ExplainedInv, ResultExplained
    <2>4. QED BY <1>2, <2>2, <2>3
  <1>4. CASE ~settled
    <2>0. settled' = TRUE /\ done' = o /\ timers' = {} /\ sessionName' = NotNamed
      BY <1>4, SettleCases
    <2>1. connected => ws'.closed
      <3>1. connected => ws' = CloseWs(w)
        BY <1>4, SettleCases
      <3>2. QED BY <3>1, CloseFields
    <2>2. SettledInv'
      BY <1>1, <2>0, <2>1 DEF EInv, SettledInv, NotNamed
    <2>3. ExplainedInv'
      BY <2>0 DEF ExplainedInv, ResultExplained
    <2>4. QED BY <1>2, <2>2, <2>3
  <1>5. QED BY <1>3, <1>4

\* TERM or the user's signal, once sent, is on record.
LEMMA RecordSum ==
  ASSUME TypeOK, NEW S, Record(S)
  PROVE  /\ sent'["TERM"] + sent'["user"] >= sent["TERM"] + sent["user"]
         /\ "TERM" \in S \/ "user" \in S => sent'["TERM"] + sent'["user"] > 0
         /\ sent'["KILL"] = sent["KILL"] + (IF "KILL" \in S THEN 1 ELSE 0)
  BY DEF Record, TypeOK, Origins

\* terminate() keeps the invariant.
LEMMA TerminateKeeps ==
  ASSUME EInv, NEW why, Terminate(why), phase \in {"opened", "running"},
         UNCHANGED <<phase, connected, detached>>
  PROVE  (SocketInv /\ SettledInv /\ ExplainedInv /\ SignalInv)'
  <1>0. ws \in Sockets /\ ws.opened /\ ws.sock # "none" /\ TypeOK
    BY DEF EInv, IInv, TypeOK, SocketInv
  <1>1. CASE settled \/ detached
    <2>1. UNCHANGED <<failure, terminating, pending, sent, ws, settled, done, sessionName, timers>>
      BY <1>1 DEF Terminate, settleVars
    <2>2. QED
      BY <2>1 DEF EInv, SocketInv, SettledInv, ExplainedInv, ResultExplained, SignalInv
  <1>2. CASE ~settled /\ ~detached /\ terminating
    <2>1. UNCHANGED <<terminating, pending, sent, ws, settled, done, sessionName, timers>>
      BY <1>2 DEF Terminate, settleVars
    <2>2. done.status = "pending"
      BY <1>2 DEF EInv, SettledInv
    <2>3. QED
      BY <2>1, <2>2 DEF EInv, SocketInv, SettledInv, ExplainedInv, ResultExplained, SignalInv
  <1>3. CASE ~settled /\ ~detached /\ ~terminating
    <2>0. terminating' = TRUE /\ done.status = "pending"
      BY <1>3 DEF Terminate, EInv, SettledInv
    <2>1. CASE ~connected /\ PendTerm
      BY <2>0, <2>1 DEF PendTerm, EInv, SocketInv, SettledInv, ExplainedInv, ResultExplained, SignalInv
    <2>2. CASE /\ connected /\ Record({"TERM"})
               /\ timers' = {"escalation", "deadline"}
               /\ UNCHANGED <<settled, done, sessionName, ws, pending>>
      <3>1. sent'["TERM"] + sent'["user"] > 0
        BY <1>0, <2>2, RecordSum
      <3>2. QED
        BY <1>3, <2>0, <2>2, <3>1 DEF EInv, SocketInv, SettledInv, ExplainedInv, ResultExplained, SignalInv
    <2>3. CASE connected /\ Settle(Rejected("transport"), ws) /\ UNCHANGED <<pending, sent>>
      <3>1. (SocketInv /\ SettledInv /\ ExplainedInv)'
        BY <1>0, <1>3, <2>0, <2>3, OutcomeFields, SettleKeeps
      <3>2. settled' = TRUE
        BY <1>3, <2>3, SettleCases
      <3>3. QED BY <2>3, <3>1, <3>2 DEF EInv, SignalInv
    <2>4. QED BY <1>3, <2>1, <2>2, <2>3 DEF Terminate, SendTerm
  <1>4. QED BY <1>1, <1>2, <1>3

\* A connect that ends, or goes on, keeps the invariant.
LEMMA ConnectingKeeps ==
  ASSUME EInv, phase = "connecting", ws'.sock # "none",
         \/ phase' = "connecting"
         \/ phase' = "opened" /\ ws'.opened
         \/ phase' = "connectFailed" /\ ws'.closed,
         UNCHANGED <<controlVars, settled, done, sessionName, timers, runVars, sent>>
  PROVE  (SocketInv /\ SettledInv /\ ExplainedInv /\ SignalInv)'
  <1>1. ~settled /\ sessionName # "named" /\ timers = {} /\ ~connected /\ done.status = "pending"
    BY DEF EInv, IInv, CommandInv, SocketInv, SettledInv
  <1> USE DEF controlVars, runVars
  <1>2. SocketInv'
    BY <1>1 DEF EInv, SocketInv
  <1>3. SettledInv'
    BY <1>1 DEF EInv, SettledInv
  <1>4. ExplainedInv' /\ SignalInv'
    BY <1>1 DEF EInv, ExplainedInv, ResultExplained, SignalInv
  <1>5. QED BY <1>2, <1>3, <1>4

\* What a rejected connect and start() leave of the connection.
LEMMA RejectSocket ==
  ASSUME NEW e, NEW w \in Sockets, RejectConnect(e, CloseWs(w))
  PROVE  phase' = "connectFailed" /\ ws'.closed /\ ws'.sock # "none"
  BY CloseFields DEF RejectConnect

LEMMA StartSocket ==
  ASSUME NEW w \in Sockets, w.sock # "none", Start(w)
  PROVE  /\ ws'.sock # "none"
         /\ \/ phase' = "opened" /\ ws'.opened
            \/ phase' = "connectFailed" /\ ws'.closed
  <1> DEFINE v == [w EXCEPT !.opened = TRUE]
  <1>1. v \in Sockets /\ v.opened /\ v.sock # "none"
    BY SocketForms, SocketFields, RecordFields
  <1> HIDE DEF v
  <1>2. (phase' = "opened" /\ ws' = v) \/ RejectConnect("transport", CloseWs(v))
    BY DEF Start, v
  <1>3. QED BY <1>1, <1>2, RejectSocket

\* Every step keeps the invariant: the steps of the connect, the frames, the timers
\* and the caller.
LEMMA ConnectKeeps ==
  ASSUME EInv, TypeOK', ConnectStep
  PROVE  (SocketInv /\ SettledInv /\ ExplainedInv /\ SignalInv)'
  <1>0. TypeOK /\ ws \in Sockets /\ CommandInv /\ ErrorInv /\ DetachExcludesTerminate
    BY DEF EInv, IInv, TypeOK
  <1>e. SocketInv /\ SettledInv /\ ExplainedInv /\ SignalInv
    BY DEF EInv
  <1> USE DEF callerVars, connectVars, controlVars, settleVars, runVars
  <1> DEFINE I == SocketInv /\ SettledInv /\ ExplainedInv /\ SignalInv
  <1>1. CASE MintShellToken
    <2>1. ~settled /\ ~ws.opened /\ sessionName # "named"
      BY <1>0, <1>e, <1>1 DEF MintShellToken, CommandInv, SettledInv
    <2>2. ws' = ws \/ (ws'.sock = "connecting" /\ phase' = "connecting")
      BY <1>1 DEF MintShellToken, Dialled, NoSocket
    <2>3. QED
      BY <1>0, <1>e, <1>1, <2>1, <2>2 DEF MintShellToken, Throw, NotNamed, SocketInv, SettledInv,
         ExplainedInv, ResultExplained, SignalInv
  <1>2. CASE ConnectFailed
    BY <1>0, <1>e, <1>2 DEF ConnectFailed, Throw, NotNamed, SocketInv, SettledInv, ExplainedInv,
       ResultExplained, SignalInv
  <1>3. CASE RetryDelay
    BY <1>e, <1>3 DEF RetryDelay, SocketInv, SettledInv, ExplainedInv, ResultExplained, SignalInv
  <1>4. CASE SocketOpen
    <2> DEFINE w == [ws EXCEPT !.sock = "open"]
    <2>0. w \in Sockets /\ w.sock = "open"
      BY <1>0, SocketForms, RecordFields
    <2> HIDE DEF w
    <2>1. [w EXCEPT !.hello = TRUE].sock = "open"
      BY <2>0, RecordFields
    <2>2. \/ Start(w)
          \/ ws' = [w EXCEPT !.hello = TRUE] /\ phase' = phase
          \/ RejectConnect("transport", CloseWs(w))
      BY <1>4 DEF SocketOpen, w
    <2>3. QED
      BY <1>4, <2>0, <2>1, <2>2, StartSocket, RejectSocket, ConnectingKeeps DEF SocketOpen
  <1>5. CASE RecvCapabilities
    <2>1. phase = "connecting" /\ ws.sock # "none"
      BY <1>e, <1>5 DEF RecvCapabilities, SocketInv
    <2>2. Start(ws) \/ RejectConnect("capabilities", CloseWs(ws))
      BY <1>5 DEF RecvCapabilities
    <2>3. QED
      BY <1>0, <1>5, <2>1, <2>2, StartSocket, RejectSocket, ConnectingKeeps DEF RecvCapabilities
  <1>6. CASE SocketError
    BY <1>0, <1>6, RejectSocket, ConnectingKeeps DEF SocketError
  <1>7. CASE SocketClosed
    <2> DEFINE w == [ws EXCEPT !.sock = "closed", !.closed = TRUE]
    <2>1. w \in Sockets /\ w.sock # "none" /\ w.closed /\ w.opened = ws.opened
      BY <1>0, SocketForms, SocketFields, RecordFields
    <2> HIDE DEF w
    <2>2. CASE ws.opened
      <3> DEFINE o == IF detached THEN Plain(exited, failure) ELSE Rejected("interrupted")
      <3>1. Settle(o, w)
        BY <1>7, <2>2 DEF SocketClosed, w
      <3>2. o.status # "pending" /\ (o.status = "resolved" => failure = "none" /\ detached)
        BY OutcomeFields
      <3> HIDE DEF o
      <3>3. (SocketInv /\ SettledInv /\ ExplainedInv)'
        BY <1>7, <2>1, <2>2, <3>1, <3>2, SettleKeeps DEF SocketClosed
      <3>4. settled => settled'
        BY <3>1, SettleCases
      <3>5. QED BY <1>7, <1>e, <3>3, <3>4 DEF SocketClosed, SignalInv
    <2>3. CASE ~ws.opened /\ phase = "connecting"
      <3>1. PICK e \in CloseErrors : RejectConnect(e, w)
        BY <1>7, <2>3 DEF SocketClosed, w
      <3>2. QED
        BY <1>7, <2>1, <2>3, <3>1, ConnectingKeeps DEF SocketClosed, RejectConnect
    <2>4. CASE ~ws.opened /\ phase # "connecting"
      <3>1. ws' = w /\ UNCHANGED <<phase, connErr>> /\ UNCHANGED settleVars
        BY <1>7, <2>4 DEF SocketClosed, w
      <3>2. QED
        BY <1>7, <1>e, <2>1, <2>4, <3>1 DEF SocketClosed, SocketInv, SettledInv, ExplainedInv, ResultExplained,
           SignalInv
    <2>5. QED BY <2>2, <2>3, <2>4
  <1>8. CASE ConnectedTooLate
    BY <1>e, <1>8, <1>0, CloseFields DEF ConnectedTooLate, BecomeConnected, SocketInv, SettledInv,
       ExplainedInv, ResultExplained, SignalInv, DetachExcludesTerminate
  <1>9. CASE Connected
    <2> DEFINE S == PendingSignals \cup (IF AbortNow THEN {"TERM"} ELSE {})
    <2>1. Record(S) /\ phase = "opened" /\ phase' = "running" /\ connected' = TRUE /\ ws' = ws
          /\ ~settled /\ ~settled' /\ done' = done /\ UNCHANGED <<sessionName, pending, detached>>
      BY <1>9 DEF Connected, BecomeConnected
    <2>2. terminating' => "TERM" \in S \/ "user" \in S
      BY <1>9, <1>e DEF Connected, BecomeConnected, PendingSignals, SignalInv, SocketInv
    <2> HIDE DEF S
    <2>3. terminating' => sent'["TERM"] + sent'["user"] > 0
      BY <1>0, <2>1, <2>2, RecordSum
    <2>4. done.status = "pending"
      BY <1>e, <2>1 DEF SettledInv
    <2>5. SocketInv' /\ SettledInv' /\ ExplainedInv'
      BY <1>e, <2>1, <2>4 DEF SocketInv, SettledInv, ExplainedInv, ResultExplained
    <2>6. QED BY <1>e, <2>1, <2>3, <2>5 DEF SignalInv
  <1>10. ASSUME NEW failed \in {"pending", "TERM", "eof"}, ConnectedSendFails(failed)
         PROVE  I'
    BY <1>e, <1>10, <1>0, CloseFields, OutcomeFields DEF ConnectedSendFails, BecomeConnected, NotNamed,
       SocketInv, SettledInv, ExplainedInv, ResultExplained, SignalInv
  <1>11. QED
    BY <1>1, <1>2, <1>3, <1>4, <1>5, <1>6, <1>7, <1>8, <1>9, <1>10 DEF ConnectStep

LEMMA FrameKeeps ==
  ASSUME EInv, TypeOK', FrameStep
  PROVE  (SocketInv /\ SettledInv /\ ExplainedInv /\ SignalInv)'
  <1>0. TypeOK /\ ws \in Sockets
    BY DEF EInv, IInv, TypeOK
  <1>e. SocketInv /\ SettledInv /\ ExplainedInv /\ SignalInv
    BY DEF EInv
  <1>a. Receive => ws.opened /\ ws.sock # "none" /\ ~ws.closed /\ phase \in {"opened", "running"}
    BY <1>e DEF EInv, IInv, CommandInv, Receive, SocketInv
  <1> USE DEF callerVars, connectVars, controlVars, settleVars, runVars
  <1>1. CASE RecvExit
    <2>0. ws.opened /\ ws.sock # "none" /\ phase \in {"opened", "running"} /\ ~settled
      BY <1>a, <1>1 DEF RecvExit
    <2>1. PICK kills, aborts, throws \in BOOLEAN :
            /\ FlushCallbacks(kills, aborts)
            /\ Settle(IF throws THEN Rejected("callback") ELSE Plain(TRUE, failure'), ws)
      BY <1>1 DEF RecvExit
    <2> DEFINE o == IF throws THEN Rejected("callback") ELSE Plain(TRUE, failure')
    <2>2. o.status # "pending" /\ (o.status = "resolved" => failure' = "none" /\ o.exit)
      BY OutcomeFields
    <2>3. Settle(o, ws)
      BY <2>1
    <2> HIDE DEF o
    <2>4. (SocketInv /\ SettledInv /\ ExplainedInv)'
      BY <1>0, <1>1, <2>0, <2>2, <2>3, SettleKeeps DEF RecvExit
    <2>5. settled' /\ pending' \in {"none", "TERM", "user"}
          /\ (~connected => pending' = "user" \/ pending' = pending)
      BY <1>e, <2>0, <2>1, <2>3, SettleCases DEF FlushCallbacks, SignalInv
    <2>6. QED BY <1>1, <1>e, <2>4, <2>5 DEF RecvExit, SignalInv
  <1>2. CASE RecvOutput
    <2>1. Settle(Rejected("callback"), ws) /\ settled'
      BY <1>2, SettleCases DEF RecvOutput
    <2>2. (SocketInv /\ SettledInv /\ ExplainedInv)'
      BY <1>0, <1>a, <1>2, <2>1, OutcomeFields, SettleKeeps DEF RecvOutput
    <2>3. QED BY <1>e, <1>2, <2>1, <2>2 DEF RecvOutput, SignalInv
  <1>3. CASE RecvError
    <2>1. Settle(Rejected("interrupted"), ws) /\ (settled => settled')
      BY <1>3, SettleCases DEF RecvError
    <2>2. settled /\ connected => ws.closed
      BY <1>e DEF SettledInv
    <2>3. (SocketInv /\ SettledInv /\ ExplainedInv)'
      BY <1>0, <1>a, <1>3, <2>1, <2>2, OutcomeFields, SettleKeeps DEF RecvError
    <2>4. QED BY <1>e, <1>3, <2>1, <2>3 DEF RecvError, SignalInv
  <1>4. CASE RecvStdinError
    <2>1. phase \in {"opened", "running"}
      BY <1>a, <1>4 DEF RecvStdinError
    <2>2. QED BY <1>4, <2>1, TerminateKeeps DEF RecvStdinError
  <1>5. CASE RecvDurableSession
    BY <1>e, <1>5 DEF RecvDurableSession, Receive, SocketInv, SettledInv, ExplainedInv, ResultExplained, SignalInv
  <1>6. QED BY <1>1, <1>2, <1>3, <1>4, <1>5 DEF FrameStep

LEMMA TimerKeeps ==
  ASSUME EInv, TypeOK', TimerStep
  PROVE  (SocketInv /\ SettledInv /\ ExplainedInv /\ SignalInv)'
  <1>0. TypeOK /\ ws \in Sockets /\ TimerInv
    BY DEF EInv, IInv, TypeOK
  <1>e. SocketInv /\ SettledInv /\ ExplainedInv /\ SignalInv
    BY DEF EInv
  <1>a. /\ phase = "running" /\ timers # {} /\ connected /\ ~settled
        /\ ws.opened /\ ws.sock # "none" /\ done.status = "pending"
    BY <1>e DEF TimerStep, TimeoutFires, EscalationFires, DeadlineFires, SocketInv, SettledInv
  <1> USE DEF callerVars, connectVars, controlVars, settleVars, runVars
  <1>1. CASE TimeoutFires
    <2>1. CASE /\ timers' = timers \ {"timeout"}
               /\ UNCHANGED <<failure, terminating, pending, sent, ws, settled, done,
                              sessionName>>
      BY <1>a, <1>e, <1>1, <2>1 DEF TimeoutFires, SocketInv, SettledInv, ExplainedInv, ResultExplained, SignalInv
    <2>2. CASE Terminate("none")
      BY <1>1, <2>2, <1>a, TerminateKeeps DEF TimeoutFires
    <2>3. QED BY <1>1, <2>1, <2>2 DEF TimeoutFires
  <1>2. CASE EscalationFires
    <2>1. CASE Record({"KILL"}) /\ timers' = timers \ {"escalation"}
               /\ UNCHANGED <<settled, done, sessionName, ws>>
      <3>1. sent'["TERM"] + sent'["user"] >= sent["TERM"] + sent["user"]
        BY <1>0, <2>1, RecordSum
      <3>2. sent["TERM"] \in Nat /\ sent["user"] \in Nat /\ sent'["TERM"] \in Nat /\ sent'["user"] \in Nat
        BY <1>0 DEF TypeOK, Origins
      <3>3. SignalInv'
        BY <1>a, <1>e, <1>2, <2>1, <3>1, <3>2 DEF EscalationFires, SignalInv
      <3>4. QED
        BY <1>a, <1>e, <1>2, <2>1, <3>3 DEF EscalationFires, SocketInv, SettledInv, ExplainedInv, ResultExplained
    <2>2. CASE Settle(Rejected("transport"), ws) /\ UNCHANGED sent
      <3>1. settled'
        BY <1>a, <2>2, SettleCases
      <3>2. (SocketInv /\ SettledInv /\ ExplainedInv)'
        BY <1>0, <1>a, <1>2, <2>2, OutcomeFields, SettleKeeps DEF EscalationFires
      <3>3. QED BY <1>e, <1>2, <3>1, <3>2 DEF EscalationFires, SignalInv
    <2>3. QED BY <1>2, <2>1, <2>2 DEF EscalationFires
  <1>3. CASE DeadlineFires
    <2> DEFINE o == IF timedOut /\ failure = "none" THEN Plain(exited, failure) ELSE Rejected("unconfirmed")
    <2>1. Settle(o, ws) /\ terminating
      BY <1>0, <1>3 DEF DeadlineFires, TimerInv
    <2>2. o.status # "pending" /\ (o.status = "resolved" => failure = "none" /\ o.timedOut)
      BY OutcomeFields
    <2> HIDE DEF o
    <2>3. settled'
      BY <1>a, <2>1, SettleCases
    <2>4. (SocketInv /\ SettledInv /\ ExplainedInv)'
      BY <1>0, <1>a, <1>3, <2>1, <2>2, SettleKeeps DEF DeadlineFires
    <2>5. QED BY <1>e, <1>3, <2>3, <2>4 DEF DeadlineFires, SignalInv
  <1>4. QED BY <1>1, <1>2, <1>3 DEF TimerStep

LEMMA CallerKeeps ==
  ASSUME EInv, TypeOK', CallerStep
  PROVE  (SocketInv /\ SettledInv /\ ExplainedInv /\ SignalInv)'
  <1>0. TypeOK /\ ws \in Sockets /\ CommandInv
    BY DEF EInv, IInv, TypeOK
  <1>e. SocketInv /\ SettledInv /\ ExplainedInv /\ SignalInv
    BY DEF EInv
  <1> USE DEF callerVars, connectVars, controlVars, settleVars, runVars
  <1>1. CASE Abort
    <2>1. CASE phase = "connecting"
      <3>1. RejectConnect("abort", CloseWs(ws))
        BY <1>1, <2>1 DEF Abort
      <3>2. QED
        BY <1>0, <1>1, <2>1, <3>1, RejectSocket, ConnectingKeeps DEF Abort
    <2>2. CASE phase = "delay"
      <3>1. ~settled /\ sessionName # "named" /\ timers = {} /\ done.status = "pending" /\ ~ws.opened
        BY <1>0, <1>e, <2>2 DEF CommandInv, SettledInv
      <3>2. /\ phase' = "thrown" /\ sessionName' = NotNamed
            /\ UNCHANGED <<ws, settled, done, timers, failure, sent, controlVars>>
        BY <1>1, <2>2 DEF Abort, Throw
      <3>3. QED
        BY <1>e, <2>2, <3>1, <3>2 DEF NotNamed, SocketInv, SettledInv, ExplainedInv, ResultExplained,
           SignalInv
    <2>3. CASE phase = "running"
      <3>1. Terminate("abort") /\ UNCHANGED <<phase, connected, detached>>
        BY <1>1, <2>3 DEF Abort
      <3>2. QED BY <2>3, <3>1, TerminateKeeps
    <2>4. CASE phase \notin {"connecting", "delay", "running"}
      BY <1>e, <1>1, <2>4 DEF Abort, SocketInv, SettledInv, ExplainedInv, ResultExplained, SignalInv
    <2>5. QED BY <2>1, <2>2, <2>3, <2>4
  <1>2. CASE Kill
    <2>1. SocketInv' /\ SettledInv' /\ ExplainedInv'
      BY <1>e, <1>2 DEF Kill, SocketInv, SettledInv, ExplainedInv, ResultExplained
    <2>2. CASE connected /\ Record({"user"}) /\ UNCHANGED pending
      BY <1>0, <1>e, <1>2, <2>1, <2>2, RecordSum DEF Kill, SignalInv
    <2>3. CASE ~connected /\ pending' = "user" /\ UNCHANGED sent
      BY <1>e, <1>2, <2>1, <2>3 DEF Kill, SignalInv
    <2>4. QED BY <1>2, <2>1, <2>2, <2>3 DEF Kill
  <1>3. CASE Detach
    BY <1>e, <1>3 DEF Detach, SocketInv, SettledInv, ExplainedInv, ResultExplained, SignalInv
  <1>4. CASE DetachNamed
    <2>1. ws' = ws \/ ws' = CloseWs(ws)
      BY <1>4 DEF DetachNamed
    <2>2. ws'.opened = ws.opened /\ (ws.closed => ws'.closed) /\ (ws.sock # "none" => ws'.sock # "none")
      BY <1>0, <2>1, CloseFields
    <2>3. ws.sock = "none" => ws' = ws
      BY <1>e, <1>4 DEF DetachNamed, SocketInv
    <2>4. QED
      BY <1>e, <1>4, <2>2, <2>3 DEF DetachNamed, SocketInv, SettledInv, ExplainedInv, ResultExplained, SignalInv
  <1>5. QED BY <1>1, <1>2, <1>3, <1>4 DEF CallerStep

\* The inductive step, and the initial states.
LEMMA ExplainedStep == EInv /\ [Next]_vars => EInv'
  <1> SUFFICES ASSUME EInv, [Next]_vars PROVE EInv'
    OBVIOUS
  <1>1. IInv' /\ TypeOK'
    BY InvStep DEF EInv, IInv
  <1>2. CASE UNCHANGED vars
    BY <1>1, <1>2 DEF vars, callerVars, connectVars, controlVars, settleVars, runVars, EInv, SocketInv,
       SettledInv, ExplainedInv, ResultExplained, SignalInv
  <1>3. CASE Next
    <2>1. (SocketInv /\ SettledInv /\ ExplainedInv /\ SignalInv)'
      BY <1>1, <1>3, ConnectKeeps, FrameKeeps, TimerKeeps, CallerKeeps DEF Next
    <2>2. QED BY <1>1, <2>1 DEF EInv
  <1>4. QED BY <1>2, <1>3

LEMMA ExplainedInit == Init => EInv
  <1> SUFFICES ASSUME Init PROVE EInv
    OBVIOUS
  <1>1. IInv
    BY InvInit
  <1>2. SocketInv /\ SettledInv /\ ExplainedInv /\ SignalInv
    BY DEF Init, NoSocket, Pending, SocketInv, SettledInv, ExplainedInv, ResultExplained, SignalInv
  <1>3. QED BY <1>1, <1>2 DEF EInv

LEMMA Explained == Spec => []EInv
  BY ExplainedInit, ExplainedStep, PTL DEF Spec

\* A recorded failure is never swallowed, and nothing resolves without a reason.
THEOREM Explanation == Spec => []ResultExplained
  <1>1. EInv => ResultExplained
    BY DEF EInv, ExplainedInv
  <1>2. QED BY <1>1, Explained, PTL

LEMMA LeftNothing == EInv => NothingLeftOver
  BY DEF EInv, SocketInv, SettledInv, NothingLeftOver, Result, Pending

\* No timer, socket or waiting detach() outlives the result.
THEOREM NothingLeft == Spec => []NothingLeftOver
  BY LeftNothing, Explained, PTL

-----------------------------------------------------------------------------
(* What "not confirmed" says of the command.                               *)

\* The deadline outlives the escalation, which leaves a KILL; and only the deadline
\* tells the caller that the end was not confirmed.
KillInv ==
    /\ exited => settled
    /\ "escalation" \in timers => "deadline" \in timers
    /\ "deadline" \in timers => "escalation" \in timers \/ sent["KILL"] > 0
    /\ failure # "unconfirmed" /\ thrown # "unconfirmed"
    /\ done.error = "unconfirmed" =>
          settled /\ terminating /\ ~exited /\ sent["TERM"] + sent["user"] > 0 /\ sent["KILL"] > 0

\* Signals sent stay sent.
LEMMA RecordGrows ==
  ASSUME TypeOK, NEW signals, Record(signals)
  PROVE  \A s \in Origins : sent'[s] \in Nat /\ sent[s] \in Nat /\ sent'[s] >= sent[s]
  BY DEF TypeOK, Record

\* What a step that is not of the timers' may change.
Quiet ==
    /\ terminating => terminating'
    /\ exited' => exited \/ settled'
    /\ settled => settled' /\ exited' = exited
    /\ \A s \in Origins : sent'[s] \in Nat /\ sent[s] \in Nat /\ sent'[s] >= sent[s]
    /\ timers' \in {timers, timers \ {"timeout"}, {}, {"timeout"}, {"escalation", "deadline"}}
    /\ failure' # "unconfirmed" /\ thrown' # "unconfirmed"
    /\ done' = done \/ done'.error # "unconfirmed"

LEMMA QuietKeeps ==
  ASSUME KillInv, Quiet
  PROVE  KillInv'
  <1>1. /\ sent["KILL"] \in Nat /\ sent'["KILL"] \in Nat /\ sent'["KILL"] >= sent["KILL"]
        /\ sent["TERM"] \in Nat /\ sent'["TERM"] \in Nat /\ sent'["TERM"] >= sent["TERM"]
        /\ sent["user"] \in Nat /\ sent'["user"] \in Nat /\ sent'["user"] >= sent["user"]
    BY DEF Quiet, Origins
  <1>2. sent["TERM"] + sent["user"] > 0 => sent'["TERM"] + sent'["user"] > 0
    BY <1>1
  <1>3. ("escalation" \in timers => "deadline" \in timers)'
        /\ ("deadline" \in timers => "escalation" \in timers \/ sent["KILL"] > 0)'
    BY <1>1 DEF Quiet, KillInv
  <1>4. (exited => settled)' /\ (failure # "unconfirmed" /\ thrown # "unconfirmed")'
    BY DEF Quiet, KillInv
  <1>5. ASSUME done'.error = "unconfirmed"
        PROVE  settled /\ terminating /\ ~exited /\ sent["TERM"] + sent["user"] > 0 /\ sent["KILL"] > 0
    BY <1>5 DEF Quiet, KillInv
  <1>6. (done.error = "unconfirmed" => settled /\ terminating /\ ~exited
            /\ sent["TERM"] + sent["user"] > 0 /\ sent["KILL"] > 0)'
    BY <1>1, <1>2, <1>5 DEF Quiet
  <1>7. QED BY <1>3, <1>4, <1>6 DEF KillInv

\* settle() and terminate() are quiet.
LEMMA SettleQuiet ==
  ASSUME NEW o, NEW w, Settle(o, w), o.error # "unconfirmed"
  PROVE  /\ settled => settled' /\ UNCHANGED <<done, timers>>
         /\ ~settled => settled' /\ done' = o /\ timers' = {}
         /\ done' = done \/ done'.error # "unconfirmed"
         /\ timers' \in {timers, {}}
  BY SettleCases

LEMMA TerminateQuiet ==
  ASSUME EInv, NEW why, why \in {"none", "abort", "stdin"}, Terminate(why), failure # "unconfirmed"
  PROVE  /\ terminating => terminating'
         /\ settled => settled'
         /\ \A s \in Origins : sent'[s] \in Nat /\ sent[s] \in Nat /\ sent'[s] >= sent[s]
         /\ timers' \in {timers, {}, {"escalation", "deadline"}}
         /\ failure' # "unconfirmed"
         /\ done' = done \/ done'.error # "unconfirmed"
  <1>0. TypeOK /\ \A s \in Origins : sent[s] \in Nat
    BY DEF EInv, IInv, TypeOK
  <1>1. CASE settled \/ detached \/ terminating
    BY <1>0, <1>1 DEF Terminate, settleVars
  <1>2. CASE ~(settled \/ detached \/ terminating)
    <2>1. /\ failure' # "unconfirmed" /\ terminating'
          /\ IF connected THEN SendTerm ELSE PendTerm
      BY <1>2 DEF Terminate
    <2>2. CASE PendTerm
      BY <1>0, <1>2, <2>1, <2>2 DEF PendTerm
    <2>3. CASE Record({"TERM"}) /\ timers' = {"escalation", "deadline"} /\ UNCHANGED <<settled, done>>
      BY <1>0, <1>2, <2>1, <2>3, RecordGrows
    <2>4. CASE Settle(Rejected("transport"), ws) /\ UNCHANGED sent
      BY <1>0, <1>2, <2>1, <2>4, SettleQuiet, OutcomeErrors
    <2>5. QED BY <2>1, <2>2, <2>3, <2>4 DEF SendTerm
  <1>3. QED BY <1>1, <1>2

LEMMA KillConnect ==
  ASSUME EInv, KillInv, ConnectStep
  PROVE  Quiet
  <1>0. /\ TypeOK /\ \A s \in Origins : sent[s] \in Nat
        /\ connErr # "unconfirmed" /\ failure # "unconfirmed" /\ thrown # "unconfirmed"
        /\ SettledInv
    BY DEF EInv, IInv, TypeOK, KillInv, ConnectErrors
  <1> USE DEF callerVars, connectVars, controlVars, settleVars, runVars
  <1>1. CASE MintShellToken
    BY <1>0, <1>1 DEF MintShellToken, Throw, Quiet
  <1>2. CASE ConnectFailed
    BY <1>0, <1>2 DEF ConnectFailed, Throw, Quiet
  <1>3. CASE RetryDelay
    BY <1>0, <1>3 DEF RetryDelay, Quiet
  <1>4. CASE SocketOpen
    BY <1>0, <1>4 DEF SocketOpen, Quiet
  <1>5. CASE RecvCapabilities
    BY <1>0, <1>5 DEF RecvCapabilities, Quiet
  <1>6. CASE SocketError
    BY <1>0, <1>6 DEF SocketError, Quiet
  <1>7. CASE SocketClosed
    <2>1. UNCHANGED <<terminating, exited, sent, failure, thrown>>
      BY <1>7 DEF SocketClosed
    <2>2. CASE UNCHANGED settleVars
      BY <1>0, <2>1, <2>2 DEF Quiet
    <2>3. ASSUME NEW w, Settle(IF detached THEN Plain(exited, failure) ELSE Rejected("interrupted"), w)
          PROVE  Quiet
      <3>1. (IF detached THEN Plain(exited, failure) ELSE Rejected("interrupted")).error # "unconfirmed"
        BY <1>0, OutcomeErrors
      <3>2. QED BY <1>0, <2>1, <2>3, <3>1, SettleQuiet DEF Quiet
    <2>4. QED BY <1>7, <2>2, <2>3 DEF SocketClosed
  <1>8. CASE ConnectedTooLate
    BY <1>0, <1>8 DEF ConnectedTooLate, BecomeConnected, Quiet
  <1>9. CASE Connected
    <2>1. \A s \in Origins : sent'[s] \in Nat /\ sent[s] \in Nat /\ sent'[s] >= sent[s]
      BY <1>0, <1>9, RecordGrows DEF Connected
    <2>2. QED BY <1>0, <1>9, <2>1 DEF Connected, BecomeConnected, Quiet
  <1>10. ASSUME NEW failed, ConnectedSendFails(failed)
         PROVE  Quiet
    <2>1. \A s \in Origins : sent'[s] \in Nat /\ sent[s] \in Nat /\ sent'[s] >= sent[s]
      BY <1>0, <1>10, RecordGrows DEF ConnectedSendFails
    <2>2. done'.error # "unconfirmed"
      BY <1>10, OutcomeErrors DEF ConnectedSendFails
    <2>3. QED BY <1>0, <1>10, <2>1, <2>2 DEF ConnectedSendFails, BecomeConnected, Quiet
  <1>11. QED
    BY <1>1, <1>2, <1>3, <1>4, <1>5, <1>6, <1>7, <1>8, <1>9, <1>10 DEF ConnectStep

LEMMA KillFrame ==
  ASSUME EInv, KillInv, FrameStep
  PROVE  Quiet
  <1>0. /\ TypeOK /\ \A s \in Origins : sent[s] \in Nat
        /\ failure # "unconfirmed" /\ thrown # "unconfirmed"
    BY DEF EInv, IInv, TypeOK, KillInv
  <1> USE DEF callerVars, connectVars, controlVars, settleVars, runVars
  <1>1. CASE RecvExit
    <2>1. ~settled /\ exited' /\ UNCHANGED <<terminating, thrown>>
      BY <1>1 DEF RecvExit
    <2>2. PICK kills \in BOOLEAN, aborts \in BOOLEAN, throws \in BOOLEAN :
            /\ FlushCallbacks(kills, aborts)
            /\ Settle(IF throws THEN Rejected("callback") ELSE Plain(TRUE, failure'), ws)
      BY <1>1 DEF RecvExit
    <2>3. failure' # "unconfirmed" /\ (Record({"user"}) \/ UNCHANGED sent)
      BY <1>0, <2>2 DEF FlushCallbacks
    <2>4. \A s \in Origins : sent'[s] \in Nat /\ sent[s] \in Nat /\ sent'[s] >= sent[s]
      BY <1>0, <2>3, RecordGrows
    <2> DEFINE o == IF throws THEN Rejected("callback") ELSE Plain(TRUE, failure')
    <2>5. o.error # "unconfirmed"
      <3>1. Rejected("callback").error = "callback"
        BY OutcomeErrors
      <3>2. Plain(TRUE, failure').error = failure'
        BY OutcomeErrors
      <3>3. QED BY <2>3, <3>1, <3>2
    <2> HIDE DEF o
    <2>6. settled' /\ done' = o /\ timers' = {}
      BY <2>1, <2>2, SettleCases DEF o
    <2>7. QED BY <1>0, <2>1, <2>3, <2>4, <2>5, <2>6 DEF Quiet
  <1>2. CASE RecvOutput
    BY <1>0, <1>2, SettleQuiet, OutcomeErrors DEF RecvOutput, Quiet
  <1>3. CASE RecvError
    BY <1>0, <1>3, SettleQuiet, OutcomeErrors DEF RecvError, Quiet
  <1>4. CASE RecvStdinError
    BY <1>0, <1>4, TerminateQuiet DEF RecvStdinError, Quiet
  <1>5. CASE RecvDurableSession
    BY <1>0, <1>5 DEF RecvDurableSession, Quiet
  <1>6. QED BY <1>1, <1>2, <1>3, <1>4, <1>5 DEF FrameStep

LEMMA KillCaller ==
  ASSUME EInv, KillInv, CallerStep
  PROVE  Quiet
  <1>0. /\ TypeOK /\ \A s \in Origins : sent[s] \in Nat
        /\ failure # "unconfirmed" /\ thrown # "unconfirmed"
    BY DEF EInv, IInv, TypeOK, KillInv
  <1> USE DEF callerVars, connectVars, controlVars, settleVars, runVars
  <1>1. CASE Abort
    <2>1. UNCHANGED exited
      BY <1>1 DEF Abort
    <2>2. CASE phase = "running"
      <3>1. Terminate("abort") /\ UNCHANGED thrown
        BY <1>1, <2>2 DEF Abort
      <3>2. QED BY <1>0, <2>1, <3>1, TerminateQuiet DEF Quiet
    <2>3. CASE phase # "running"
      BY <1>0, <1>1, <2>3 DEF Abort, Throw, RejectConnect, Quiet
    <2>4. QED BY <2>2, <2>3
  <1>2. CASE Kill
    BY <1>0, <1>2, RecordGrows DEF Kill, Quiet
  <1>3. CASE Detach
    BY <1>0, <1>3 DEF Detach, Quiet
  <1>4. CASE DetachNamed
    BY <1>0, <1>4 DEF DetachNamed, Quiet
  <1>5. QED BY <1>1, <1>2, <1>3, <1>4 DEF CallerStep

\* The escalation leaves a KILL behind it, and the deadline fires after it.
LEMMA KillTimer ==
  ASSUME EInv, KillInv, TimerStep
  PROVE  KillInv'
  <1>0. /\ TypeOK /\ \A s \in Origins : sent[s] \in Nat
        /\ failure # "unconfirmed" /\ thrown # "unconfirmed"
        /\ SettledInv /\ SocketInv /\ SignalInv /\ TimerInv
    BY DEF EInv, IInv, TypeOK, KillInv
  <1> USE DEF callerVars, connectVars, controlVars, settleVars, runVars
  <1>1. CASE TimeoutFires
    <2>1. UNCHANGED <<exited, thrown>>
      BY <1>1 DEF TimeoutFires
    <2>2. CASE timers' = timers \ {"timeout"} /\ UNCHANGED <<failure, terminating, sent, settled, done>>
      BY <1>0, <2>1, <2>2, QuietKeeps DEF Quiet
    <2>3. CASE Terminate("none")
      BY <1>0, <2>1, <2>3, TerminateQuiet, QuietKeeps DEF Quiet
    <2>4. QED BY <1>1, <2>2, <2>3 DEF TimeoutFires
  <1>2. CASE EscalationFires
    <2>1. UNCHANGED <<exited, thrown, failure, terminating>> /\ ~settled
      BY <1>0, <1>2 DEF EscalationFires, SettledInv
    <2>2. CASE Record({"KILL"}) /\ timers' = timers \ {"escalation"} /\ UNCHANGED <<settled, done>>
      <3>1. sent'["KILL"] > 0
        BY <1>0, <2>2 DEF Record, Origins
      <3>2. QED BY <2>1, <2>2, <3>1 DEF KillInv
    <2>3. CASE Settle(Rejected("transport"), ws) /\ UNCHANGED sent
      BY <1>0, <2>1, <2>3, SettleQuiet, OutcomeErrors, QuietKeeps DEF Quiet
    <2>4. QED BY <1>2, <2>2, <2>3 DEF EscalationFires
  <1>3. CASE DeadlineFires
    <2>1. UNCHANGED <<exited, thrown, failure, terminating, sent>>
      BY <1>3 DEF DeadlineFires
    <2>2. "escalation" \notin timers /\ "deadline" \in timers
      BY <1>3 DEF DeadlineFires, DeadlineDue, TERMINATION_CONFIRM_MS, KILL_GRACE_MS
    <2>3. /\ ~settled /\ connected /\ terminating /\ sent["KILL"] > 0
          /\ sent["TERM"] + sent["user"] > 0 /\ ~exited
      BY <1>0, <1>3, <2>2 DEF DeadlineFires, SettledInv, SocketInv, SignalInv, TimerInv, KillInv
    <2>4. settled' /\ timers' = {}
      BY <1>3, <2>3, SettleCases DEF DeadlineFires
    <2>5. QED BY <1>0, <2>1, <2>3, <2>4 DEF KillInv
  <1>4. QED BY <1>1, <1>2, <1>3 DEF TimerStep

LEMMA KillStep == EInv /\ KillInv /\ [Next]_vars => KillInv'
  <1> SUFFICES ASSUME EInv, KillInv, [Next]_vars PROVE KillInv'
    OBVIOUS
  <1>1. CASE UNCHANGED vars
    BY <1>1 DEF vars, callerVars, connectVars, controlVars, settleVars, runVars, KillInv
  <1>2. CASE Next
    BY <1>2, KillConnect, KillFrame, KillCaller, KillTimer, QuietKeeps DEF Next
  <1>3. QED BY <1>1, <1>2

LEMMA KillInit == Init => KillInv
  BY DEF Init, Pending, KillInv

\* "Not confirmed" is only told of a command that was signalled and then killed, and
\* that has not been heard of since.
THEOREM UnconfirmedHolds == Spec => []UnconfirmedIsTrue
  <1>1. KillInv => UnconfirmedIsTrue
    <2> SUFFICES ASSUME KillInv, Result.error = "unconfirmed" PROVE done.error = "unconfirmed"
      BY DEF KillInv, UnconfirmedIsTrue
    <2>1. Rejected(thrown).error # "unconfirmed" /\ Pending.error # "unconfirmed"
      BY OutcomeErrors DEF KillInv, Pending
    <2>2. QED BY <2>1 DEF Result
  <1>2. QED BY <1>1, Explained, KillInit, KillStep, PTL DEF Spec

-----------------------------------------------------------------------------
(* The refinement. Which step of the contract a step of the exec is.       *)

\* Everything the caller sees, so that a step that leaves it alone is a stutter.
Seen == <<commands, detached, terminating, sent, sessionName, Result>>

\* How the result of a submitted command may show, in any state.
EndingRight ==
    /\ ResultShown \in {"pending"} \cup Contract!Endings(SideShown)
    /\ ResultShown = "pending" <=> Result.status = "pending"
    /\ ResultShown # "pending" => sessionName # "pending"

LEMMA EndingShown == EInv /\ commands > 0 => EndingRight
  <1> SUFFICES ASSUME EInv, commands > 0 PROVE EndingRight
    OBVIOUS
  <1>0. Result.status \in {"pending", "rejected", "resolved"}
    BY DEF EInv, IInv, TypeOK, Result, Outcomes, Pending, Rejected
  <1>1. Result.status = "rejected" => Result.error \notin NotSent
    BY DEF EInv, IInv, CommandInv, ErrorInv, LiveErrors, NotSent, Result, Pending, Rejected
  <1>2. Result.status = "resolved" => Result.exit \/ detached \/ terminating
    BY DEF EInv, ExplainedInv, Result, Pending, Rejected
  <1>3. Result.status # "pending" => sessionName # "pending"
    BY LeftNothing DEF NothingLeftOver
  <1>4. CASE Result.status = "pending"
    BY <1>4 DEF ResultShown, EndingRight
  <1>5. CASE Result.status = "rejected"
    <2>1. ResultShown = "failed"
      BY <1>1, <1>5 DEF ResultShown
    <2>2. QED BY <1>3, <1>5, <2>1 DEF EndingRight, Contract!Endings
  <1>6. CASE Result.status = "resolved"
    <2>1. ResultShown = IF Result.exit THEN "exited" ELSE IF detached THEN "detached" ELSE "timed out"
      BY <1>6 DEF ResultShown
    <2>2. ResultShown \in Contract!Endings(SideShown)
      BY <1>2, <1>6, <2>1 DEF SideShown, Contract!Endings
    <2>3. QED BY <1>3, <1>6, <2>1, <2>2 DEF EndingRight
  <1>7. QED BY <1>0, <1>4, <1>5, <1>6

\* Signals, termination and result of a command that was submitted.
LEMMA IsProceed ==
  ASSUME EInv, EInv', Result.status = "pending", commands > 0, commands' = commands,
         detached' = detached,
         terminating' = terminating \/ (terminating' /\ ~detached),
         \/ sent' = sent
         \/ ~detached /\ \E S \in SUBSET {"TERM", "user"} : Record(S)
         \/ ~detached /\ connected /\ ~settled /\ terminating /\ Record({"KILL"}),
         sessionName' = sessionName \/ sessionName = "pending"
  PROVE  Contract!Proceed
  <1>0. TypeOK /\ TypeOK' /\ sent \in [Origins -> Nat] /\ sent' \in [Origins -> Nat]
    BY DEF EInv, IInv, TypeOK
  <1>1. EndingRight /\ EndingRight'
    <2>1. (EInv /\ commands > 0 => EndingRight)'
      BY EndingShown, PTL
    <2>2. QED BY <2>1, EndingShown
  <1>2. /\ ResultShown = "pending" /\ ResultShown' \in {"pending"} \cup Contract!Endings(SideShown')
        /\ ResultShown' # "pending" => sessionName' # "pending"
    BY <1>1 DEF EndingRight, Contract!Endings
  <1>3. SideShown' \in IF SideShown = "attached" THEN {"attached", "terminating"} ELSE {SideShown}
    BY DEF SideShown
  <1>4. SignalsShown' \in IF SideShown = "detached" THEN {SignalsShown}
                         ELSE Contract!Stronger[SignalsShown]
    <2>1. CASE sent' = sent
      BY <2>1 DEF SignalsShown, Contract!Stronger
    <2>2. CASE ~detached /\ \E S \in SUBSET {"TERM", "user"} : Record(S)
      <3>1. sent'["KILL"] = sent["KILL"] /\ sent'["TERM"] + sent'["user"] >= sent["TERM"] + sent["user"]
        BY <1>0, <2>2, RecordSum DEF Origins
      <3>2. SignalsShown' \in Contract!Stronger[SignalsShown]
        BY <1>0, <3>1 DEF SignalsShown, Contract!Stronger, Origins
      <3>3. QED BY <2>2, <3>2 DEF SideShown
    <2>3. CASE ~detached /\ connected /\ ~settled /\ terminating /\ Record({"KILL"})
      <3>1. sent["TERM"] + sent["user"] > 0
        BY <2>3 DEF EInv, SignalInv
      <3>2. sent'["KILL"] > 0
        BY <1>0, <2>3, RecordSum DEF Origins
      <3>3. SignalsShown' = "KILL" /\ SignalsShown \in {"signal", "KILL"}
        BY <3>1, <3>2 DEF SignalsShown
      <3>4. QED BY <2>3, <3>3 DEF SideShown, Contract!Stronger
    <2>4. QED BY <2>1, <2>2, <2>3
  <1>5. sessionName' \in IF sessionName = "pending" THEN {"pending", "named", "failed"} ELSE {sessionName}
    BY <1>0 DEF TypeOK
  <1>6. QED BY <1>1, <1>2, <1>3, <1>4, <1>5 DEF Contract!Proceed

\* A step the caller does not see.
LEMMA IsStutter == UNCHANGED Seen => UNCHANGED Contract!vars
  BY DEF Seen, Contract!vars, SideShown, SignalsShown, ResultShown

\* The session's name, once settled, stays.
NameStays == sessionName' = sessionName \/ sessionName = "pending"

LEMMA SettleShown ==
  ASSUME NEW o, NEW w, Settle(o, w)
  PROVE  NameStays /\ (settled => UNCHANGED <<sessionName, done>>)
  BY SettleCases DEF NameStays, NotNamed

\* terminate(): nothing for a settled or detached exec, else the command is being
\* terminated, with at most a TERM.
LEMMA TerminateShown ==
  ASSUME NEW why, Terminate(why)
  PROVE  /\ NameStays
         /\ settled \/ detached => UNCHANGED <<terminating, sent, sessionName, done>>
         /\ ~(settled \/ detached) => terminating' /\ (sent' = sent \/ Record({"TERM"}))
  <1>1. CASE settled \/ detached
    BY <1>1 DEF Terminate, settleVars, NameStays
  <1>2. CASE ~(settled \/ detached) /\ terminating
    BY <1>2 DEF Terminate, settleVars, NameStays
  <1>3. CASE ~(settled \/ detached) /\ ~terminating
    <2>1. PendTerm \/ SendTerm
      BY <1>3 DEF Terminate
    <2>2. terminating'
      BY <1>3 DEF Terminate
    <2>3. CASE PendTerm
      BY <1>3, <2>2, <2>3 DEF PendTerm, NameStays
    <2>4. CASE SendTerm
      BY <1>3, <2>2, <2>4, SettleShown DEF SendTerm, NameStays
    <2>5. QED BY <2>1, <2>3, <2>4
  <1>4. QED BY <1>1, <1>2, <1>3

\* Where the exec stands decides whether the command was submitted and what the
\* caller's promise shows.
LEMMA Standing ==
  ASSUME EInv
  PROVE  /\ commands \in {0, 1} /\ (commands = 1 <=> ws.opened)
         /\ phase \in {"mint", "connecting", "delay"} => commands = 0
         /\ phase \in {"opened", "running"} => commands = 1
         /\ phase \notin {"running", "thrown"} => Result.status = "pending"
         /\ commands = 0 => sessionName # "named" /\ ~settled
         /\ phase = "running" => (Result.status = "pending" <=> ~settled)
         /\ phase = "thrown" => Result.status = "rejected" /\ sessionName # "pending"
  <1>1. SocketInv /\ SettledInv /\ CommandInv
    BY DEF EInv, IInv
  <1>2. Pending.status = "pending" /\ Rejected(thrown).status = "rejected"
    BY DEF Pending, Rejected
  <1>3. QED BY <1>1, <1>2 DEF SocketInv, SettledInv, CommandInv, Result

\* An exec that throws before any command was sent.
LEMMA IsNotSubmitted ==
  ASSUME EInv, commands = 0, commands' = commands, Result.status = "pending",
         NEW e, phase' = "thrown", thrown' = e, sessionName' = NotNamed,
         UNCHANGED <<detached, terminating, sent>>
  PROVE  Contract!NotSubmitted
  <1>1. sessionName' = "failed"
    BY Standing DEF NotNamed, EInv, IInv, TypeOK
  <1>2. Result'.status = "rejected"
    BY DEF Result, Rejected
  <1>3. ResultShown = "pending" /\ ResultShown' \in {"not started", "failed"}
    BY <1>2 DEF ResultShown
  <1>4. UNCHANGED <<SideShown, SignalsShown>>
    BY DEF SideShown, SignalsShown
  <1>5. ~(commands > 0) /\ (commands > 0)' = (commands > 0)
    OBVIOUS
  <1>6. QED BY <1>1, <1>3, <1>4, <1>5 DEF Contract!NotSubmitted

\* init_exec is given to the socket, nothing else having happened.
LEMMA IsSubmit ==
  ASSUME EInv, phase = "connecting", phase' \in {"opened", "connectFailed"}, commands' = commands + 1,
         UNCHANGED <<detached, terminating, sent, sessionName>>
  PROVE  Contract!Submit
  <1>1. ~(commands > 0) /\ (commands > 0)'
    BY Standing
  <1>2. Result.status = "pending" /\ Result'.status = "pending"
    BY DEF Result, Pending
  <1>3. ResultShown = "pending" /\ ResultShown' = "pending"
    BY <1>2 DEF ResultShown
  <1>4. UNCHANGED <<SideShown, SignalsShown>>
    BY DEF SideShown, SignalsShown
  <1>5. QED BY <1>1, <1>3, <1>4 DEF Contract!Submit

Simulated == Contract!Next \/ UNCHANGED Seen

LEMMA ConnectShown ==
  ASSUME EInv, EInv', ConnectStep
  PROVE  Simulated
  <1>0. ws \in Sockets /\ TypeOK /\ SocketInv /\ SettledInv /\ SignalInv
    BY DEF EInv, IInv, TypeOK
  <1> USE DEF callerVars, connectVars, controlVars, settleVars, runVars
  <1>1. CASE MintShellToken
    <2>1. phase = "mint" /\ commands = 0 /\ Result.status = "pending"
          /\ UNCHANGED <<commands, detached, terminating, sent>>
      BY <1>1, Standing DEF MintShellToken
    <2>2. CASE \E e \in (IF aborted THEN {"abort"} ELSE {"token"}) : Throw(e)
      BY <2>1, <2>2, IsNotSubmitted DEF Throw, Simulated, Contract!Next
    <2>3. CASE phase' = "connecting" /\ UNCHANGED sessionName
      BY <2>1, <2>3 DEF Simulated, Seen, Result
    <2>4. QED BY <1>1, <2>2, <2>3 DEF MintShellToken
  <1>2. CASE ConnectFailed
    <2>1. phase = "connectFailed" /\ Result.status = "pending"
          /\ UNCHANGED <<commands, detached, terminating, sent>>
      BY <1>2, Standing DEF ConnectFailed
    <2>2. CASE phase' \in {"delay", "mint"} /\ UNCHANGED sessionName
      BY <2>1, <2>2 DEF Simulated, Seen, Result
    <2>3. CASE Throw(IF MayRetry THEN "abort" ELSE connErr) /\ commands = 0
      BY <2>1, <2>3, IsNotSubmitted DEF Throw, Simulated, Contract!Next
    <2>4. CASE Throw(IF MayRetry THEN "abort" ELSE connErr) /\ commands > 0
      <3>1. sessionName' = sessionName \/ sessionName = "pending"
        BY <2>4 DEF Throw, NotNamed
      <3>2. QED BY <2>1, <2>4, <3>1, IsProceed DEF Simulated, Contract!Next
    <2>5. QED BY <1>2, <2>2, <2>3, <2>4, Standing DEF ConnectFailed
  <1>3. CASE RetryDelay
    BY <1>3 DEF RetryDelay, Simulated, Seen, Result
  <1>4. ASSUME phase = "connecting", phase' \in {"connecting", "connectFailed"},
               UNCHANGED <<commands, detached, terminating, sent, sessionName>>
        PROVE  Simulated
    BY <1>4 DEF Simulated, Seen, Result
  <1>5. CASE SocketOpen
    <2> DEFINE w == [ws EXCEPT !.sock = "open"]
    <2>0. w \in Sockets
      BY <1>0, SocketForms
    <2> HIDE DEF w
    <2>1. Start(w) \/ (phase' \in {"connecting", "connectFailed"} /\ UNCHANGED commands)
      BY <1>5 DEF SocketOpen, RejectConnect, w
    <2>2. Start(w) => Contract!Submit
      BY <1>5, <2>0, StartFacts, IsSubmit DEF SocketOpen
    <2>3. QED BY <1>4, <1>5, <2>1, <2>2 DEF SocketOpen, Simulated, Contract!Next
  <1>6. CASE RecvCapabilities
    <2>0. phase = "connecting"
      BY <1>0, <1>6 DEF RecvCapabilities, SocketInv
    <2>1. Start(ws) \/ (phase' \in {"connecting", "connectFailed"} /\ UNCHANGED commands)
      BY <1>6 DEF RecvCapabilities, RejectConnect
    <2>2. Start(ws) => Contract!Submit
      BY <1>0, <1>6, <2>0, StartFacts, IsSubmit DEF RecvCapabilities
    <2>3. QED BY <1>4, <1>6, <2>0, <2>1, <2>2 DEF RecvCapabilities, Simulated, Contract!Next
  <1>7. CASE SocketError
    BY <1>4, <1>7 DEF SocketError, RejectConnect
  <1>8. CASE SocketClosed
    <2> DEFINE w == [ws EXCEPT !.sock = "closed", !.closed = TRUE]
    <2>1. UNCHANGED <<commands, detached, terminating, sent, thrown>>
      BY <1>8 DEF SocketClosed
    <2>2. CASE ws.opened
      <3> DEFINE o == IF detached THEN Plain(exited, failure) ELSE Rejected("interrupted")
      <3>1. Settle(o, w) /\ phase' = phase /\ commands = 1
        BY <1>8, <2>2, Standing DEF SocketClosed
      <3> HIDE DEF o, w
      <3>2. NameStays /\ (settled => UNCHANGED <<sessionName, done>>)
        BY <3>1, SettleShown
      <3>3. CASE Result.status = "pending"
        BY <2>1, <3>1, <3>2, <3>3, IsProceed DEF NameStays, Simulated, Contract!Next
      <3>4. CASE Result.status # "pending"
        <4>1. (phase = "running" /\ settled) \/ (phase = "thrown" /\ sessionName # "pending")
          BY <3>4, Standing
        <4>2. UNCHANGED <<sessionName, Result>>
          BY <2>1, <3>1, <3>2, <4>1 DEF NameStays, Result
        <4>3. QED BY <2>1, <4>2 DEF Simulated, Seen
      <3>5. QED BY <3>3, <3>4
    <2>3. CASE ~ws.opened /\ phase = "connecting"
      BY <1>4, <1>8, <2>1, <2>3 DEF SocketClosed, RejectConnect
    <2>4. CASE ~ws.opened /\ phase # "connecting"
      BY <1>8, <2>1, <2>4 DEF SocketClosed, Simulated, Seen, Result
    <2>5. QED BY <2>2, <2>3, <2>4
  <1>9. ASSUME phase = "opened"
        PROVE  commands > 0 /\ Result.status = "pending"
    BY <1>9, Standing
  <1>10. CASE ConnectedTooLate
    BY <1>9, <1>10, IsProceed DEF ConnectedTooLate, BecomeConnected, Simulated, Contract!Next
  <1>11. PendingSignals \in SUBSET {"TERM", "user"}
    BY <1>0 DEF SignalInv, PendingSignals
  <1>12. CASE Connected
    <2> DEFINE S == PendingSignals \cup (IF AbortNow THEN {"TERM"} ELSE {})
    <2>1. S \in SUBSET {"TERM", "user"} /\ Record(S)
      BY <1>11, <1>12 DEF Connected
    <2> HIDE DEF S
    <2>2. ~detached /\ phase = "opened" /\ (terminating' = terminating \/ terminating')
          /\ UNCHANGED <<commands, detached, sessionName>>
      BY <1>0, <1>12 DEF Connected, BecomeConnected, TypeOK
    <2>3. \E T \in SUBSET {"TERM", "user"} : Record(T)
      BY <2>1
    <2>4. Contract!Proceed
      <3>1. commands > 0 /\ Result.status = "pending"
        BY <1>9, <2>2
      <3>2. QED BY <2>2, <2>3, <3>1, IsProceed
    <2>5. QED BY <2>4 DEF Simulated, Contract!Next
  <1>13. ASSUME NEW failed \in {"pending", "TERM", "eof"}, ConnectedSendFails(failed)
         PROVE  Simulated
    <2> DEFINE S == (IF failed = "pending" THEN {} ELSE PendingSignals)
                    \cup (IF failed = "eof" /\ AbortNow THEN {"TERM"} ELSE {})
    <2>1. S \in SUBSET {"TERM", "user"} /\ Record(S)
      BY <1>11, <1>13 DEF ConnectedSendFails
    <2> HIDE DEF S
    <2>2. ~detached /\ phase = "opened" /\ (terminating' = terminating \/ terminating')
          /\ UNCHANGED <<commands, detached>> /\ (sessionName' = sessionName \/ sessionName = "pending")
      BY <1>0, <1>13 DEF ConnectedSendFails, BecomeConnected, NotNamed, TypeOK
    <2>3. \E T \in SUBSET {"TERM", "user"} : Record(T)
      BY <2>1
    <2>4. Contract!Proceed
      <3>1. commands > 0 /\ Result.status = "pending"
        BY <1>9, <2>2
      <3>2. QED BY <2>2, <2>3, <3>1, IsProceed
    <2>5. QED BY <2>4 DEF Simulated, Contract!Next
  <1>14. QED
    BY <1>1, <1>2, <1>3, <1>5, <1>6, <1>7, <1>8, <1>10, <1>12, <1>13 DEF ConnectStep

\* terminate(), on a command that was submitted.
LEMMA TerminateProceeds ==
  ASSUME EInv, EInv', NEW why, Terminate(why), Result.status = "pending", commands > 0,
         UNCHANGED <<commands, detached>>
  PROVE  Contract!Proceed
  <1>1. NameStays
    BY TerminateShown
  <1>2. {"TERM"} \in SUBSET {"TERM", "user"}
    OBVIOUS
  <1>3. CASE settled \/ detached
    BY <1>1, <1>3, TerminateShown, IsProceed DEF NameStays
  <1>4. CASE ~(settled \/ detached)
    BY <1>1, <1>2, <1>4, TerminateShown, IsProceed DEF NameStays
  <1>5. QED BY <1>3, <1>4

LEMMA FrameShown ==
  ASSUME EInv, EInv', FrameStep
  PROVE  Simulated
  <1>0. ws \in Sockets /\ TypeOK /\ TypeOK' /\ SocketInv /\ SettledInv
    BY DEF EInv, IInv, TypeOK
  <1> USE DEF callerVars, connectVars, controlVars, settleVars, runVars
  <1>a. Receive => commands > 0 /\ Result.status = "pending" /\ ~(settled /\ connected)
    BY <1>0, Standing DEF Receive, EInv, IInv, CommandInv, SocketInv, SettledInv
  <1>1. CASE RecvExit
    <2>1. /\ UNCHANGED <<commands, detached, terminating>>
          /\ commands > 0 /\ Result.status = "pending"
      BY <1>a, <1>1 DEF RecvExit
    <2>2. NameStays
      BY <1>1, SettleShown DEF RecvExit
    <2>3. sent' = sent \/ (~detached /\ Record({"user"}))
      BY <1>1 DEF RecvExit, FlushCallbacks
    <2>4. {"user"} \in SUBSET {"TERM", "user"}
      OBVIOUS
    <2>5. QED BY <2>1, <2>2, <2>3, <2>4, IsProceed DEF NameStays, Simulated, Contract!Next
  <1>2. CASE RecvOutput \/ RecvError
    <2>1. /\ UNCHANGED <<commands, detached, terminating, sent>>
          /\ commands > 0 /\ Result.status = "pending"
      BY <1>a, <1>2 DEF RecvOutput, RecvError
    <2>2. NameStays
      BY <1>2, SettleShown DEF RecvOutput, RecvError
    <2>3. QED BY <2>1, <2>2, IsProceed DEF NameStays, Simulated, Contract!Next
  <1>3. CASE RecvStdinError
    <2>1. /\ UNCHANGED <<commands, detached, connected>> /\ Terminate("stdin")
          /\ commands > 0 /\ Result.status = "pending"
      BY <1>a, <1>3 DEF RecvStdinError
    <2>2. QED BY <2>1, TerminateProceeds DEF Simulated, Contract!Next
  <1>4. CASE RecvDurableSession
    <2>1. /\ UNCHANGED <<commands, detached, terminating, sent>>
          /\ commands > 0 /\ Result.status = "pending" /\ sessionName = "pending"
      BY <1>a, <1>4 DEF RecvDurableSession
    <2>2. QED BY <2>1, IsProceed DEF Simulated, Contract!Next
  <1>5. QED BY <1>1, <1>2, <1>3, <1>4 DEF FrameStep

LEMMA TimerShown ==
  ASSUME EInv, EInv', TimerStep
  PROVE  Simulated
  <1>0. TypeOK /\ SettledInv /\ SocketInv /\ TimerInv /\ DetachExcludesTerminate
    BY DEF EInv, IInv
  <1> USE DEF callerVars, connectVars, controlVars, settleVars, runVars
  <1>1. /\ phase = "running" /\ ~settled /\ connected /\ commands > 0 /\ Result.status = "pending"
        /\ UNCHANGED <<commands, detached, connected>>
    BY <1>0, Standing DEF TimerStep, TimeoutFires, EscalationFires, DeadlineFires, SettledInv, SocketInv
  <1>2. CASE TimeoutFires
    <2>1. CASE Terminate("none")
      BY <1>1, <2>1, TerminateProceeds DEF Simulated, Contract!Next
    <2>2. CASE UNCHANGED <<terminating, sent, sessionName>>
      BY <1>1, <2>2, IsProceed DEF Simulated, Contract!Next
    <2>3. QED BY <1>2, <2>1, <2>2 DEF TimeoutFires
  <1>3. CASE EscalationFires
    <2>1. terminating /\ ~detached /\ UNCHANGED terminating
      BY <1>0, <1>3 DEF EscalationFires, TimerInv, DetachExcludesTerminate
    <2>2. CASE Record({"KILL"}) /\ UNCHANGED sessionName
      BY <1>1, <2>1, <2>2, IsProceed DEF Simulated, Contract!Next
    <2>3. CASE Settle(Rejected("transport"), ws) /\ UNCHANGED sent
      BY <1>1, <2>1, <2>3, SettleShown, IsProceed DEF NameStays, Simulated, Contract!Next
    <2>4. QED BY <1>3, <2>2, <2>3 DEF EscalationFires
  <1>4. CASE DeadlineFires
    <2>1. NameStays /\ UNCHANGED <<terminating, sent>>
      BY <1>4, SettleShown DEF DeadlineFires
    <2>2. QED BY <1>1, <2>1, IsProceed DEF NameStays, Simulated, Contract!Next
  <1>5. QED BY <1>2, <1>3, <1>4 DEF TimerStep

LEMMA CallerShown ==
  ASSUME EInv, EInv', CallerStep
  PROVE  Simulated
  <1>0. TypeOK /\ SettledInv /\ SocketInv /\ ExplainedInv
    BY DEF EInv, IInv
  <1> USE DEF callerVars, connectVars, controlVars, settleVars, runVars
  <1>1. CASE Abort
    <2>1. UNCHANGED <<commands, detached, connected>>
      BY <1>1 DEF Abort
    <2>2. CASE phase = "connecting"
      <3>1. phase' = "connectFailed" /\ UNCHANGED <<terminating, sent, sessionName>>
        BY <1>1, <2>2 DEF Abort, RejectConnect
      <3>2. QED BY <2>1, <2>2, <3>1 DEF Simulated, Seen, Result
    <2>3. CASE phase = "delay"
      <3>1. Throw("abort") /\ UNCHANGED <<terminating, sent>>
        BY <1>1, <2>3 DEF Abort
      <3>2. QED BY <2>1, <2>3, <3>1, Standing, IsNotSubmitted DEF Throw, Simulated, Contract!Next
    <2>4. CASE phase = "running"
      <3>1. Terminate("abort") /\ UNCHANGED phase
        BY <1>1, <2>4 DEF Abort
      <3>2. CASE settled
        BY <2>1, <2>4, <3>1, <3>2, TerminateShown DEF Simulated, Seen, Result
      <3>3. CASE ~settled
        BY <2>1, <2>4, <3>1, <3>3, Standing, TerminateProceeds DEF Simulated, Contract!Next
      <3>4. QED BY <3>2, <3>3
    <2>5. CASE phase \notin {"connecting", "delay", "running"}
      BY <1>1, <2>1, <2>5 DEF Abort, Simulated, Seen, Result
    <2>6. QED BY <2>2, <2>3, <2>4, <2>5
  <1>2. CASE Kill
    <2>1. UNCHANGED <<commands, detached, terminating, sessionName, Result>> /\ ~detached /\ ~Finished
      BY <1>2 DEF Kill, Result
    <2>2. CASE connected /\ Record({"user"})
      <3>1. commands > 0 /\ Result.status = "pending"
        BY <1>0, <2>1, <2>2, Standing DEF SocketInv, Finished
      <3>2. {"user"} \in SUBSET {"TERM", "user"}
        OBVIOUS
      <3>3. QED BY <2>1, <2>2, <3>1, <3>2, IsProceed DEF Simulated, Contract!Next
    <2>3. CASE UNCHANGED sent
      BY <2>1, <2>3 DEF Simulated, Seen
    <2>4. QED BY <1>2, <2>2, <2>3 DEF Kill
  <1>3. CASE Detach
    BY <1>3 DEF Detach, Simulated, Seen, Result
  <1>4. CASE DetachNamed
    <2>1. UNCHANGED <<commands, terminating, sent, sessionName, Result>>
      BY <1>4 DEF DetachNamed, Result
    <2>2. CASE detached' = detached
      BY <2>1, <2>2 DEF Simulated, Seen
    <2>3. CASE detached' # detached
      <3>1. sessionName = "named" /\ ~terminating /\ detached' = TRUE /\ ~detached
        BY <1>0, <1>4, <2>3 DEF DetachNamed, TypeOK
      <3>2. ~(Result.status = "resolved" /\ ~Result.exit)
        BY <1>0, <3>1 DEF ExplainedInv, Result, Pending, Rejected
      <3>3. Result.status \in {"pending", "rejected", "resolved"}
        BY <1>0 DEF TypeOK, Result, Outcomes, Pending, Rejected
      <3>4. ResultShown' = ResultShown
        BY <2>1, <3>2, <3>3 DEF ResultShown
      <3>5. SideShown = "attached" /\ SideShown' = "detached" /\ SignalsShown' = SignalsShown
        BY <2>1, <3>1 DEF SideShown, SignalsShown
      <3>6. QED BY <2>1, <3>1, <3>4, <3>5 DEF Contract!Detach, Contract!Next, Simulated
    <2>4. QED BY <2>2, <2>3
  <1>5. QED BY <1>1, <1>2, <1>3, <1>4 DEF CallerStep

LEMMA StepShown == EInv /\ EInv' /\ [Next]_vars => [Contract!Next]_(Contract!vars)
  <1> SUFFICES ASSUME EInv, EInv', [Next]_vars PROVE Contract!Next \/ UNCHANGED Contract!vars
    OBVIOUS
  <1>1. UNCHANGED vars => UNCHANGED Seen
    BY DEF vars, callerVars, connectVars, controlVars, settleVars, runVars, Seen, Result
  <1>2. Next => Simulated
    BY ConnectShown, FrameShown, TimerShown, CallerShown DEF Next
  <1>3. QED BY <1>1, <1>2, IsStutter DEF Simulated

LEMMA InitShown == Init => Contract!Init
  <1> SUFFICES ASSUME Init PROVE Contract!Init
    OBVIOUS
  <1>1. ~(commands > 0) /\ SideShown = "attached" /\ SignalsShown = "none"
    BY DEF Init, SideShown, SignalsShown, Origins
  <1>2. sessionName \in {"pending", "failed"} /\ (aborted => sessionName = "failed")
    BY DEF Init
  <1>3. CASE aborted
    <2>1. Result = Rejected("abort")
      BY <1>3 DEF Init, Result
    <2>2. ResultShown = "failed"
      BY <2>1 DEF ResultShown, Rejected, NotSent
    <2>3. QED BY <1>1, <1>2, <1>3, <2>2 DEF Contract!Init
  <1>4. CASE ~aborted
    <2>1. Result = Pending
      BY <1>4 DEF Init, Result
    <2>2. ResultShown = "pending"
      BY <2>1 DEF ResultShown, Pending
    <2>3. QED BY <1>1, <1>2, <2>2 DEF Contract!Init
  <1>5. QED BY <1>3, <1>4

\* Whatever the order of events, the caller sees only what the contract allows.
THEOREM KeepsContract == Spec => Contract!Safety
  BY InitShown, Explained, StepShown, PTL DEF Spec, Contract!Safety

\* Given that a stopped exec ends (which TLC checks), the whole contract is kept:
\* a command let go has its result in the end.
THEOREM KeepsWholeContract == Spec /\ StoppedEnds => ContractHolds
  <1>1. SideShown # "attached" => Stopped
    BY DEF SideShown, Stopped
  <1>2. EInv /\ Result.status # "pending" => ResultShown # "pending"
    BY DEF ResultShown
  <1>3. Contract!Ends <=> (SideShown # "attached" ~> ResultShown # "pending")
    BY DEF Contract!Ends
  <1>4. StoppedEnds <=> (Stopped ~> Result.status # "pending")
    BY DEF StoppedEnds
  <1>5. ContractHolds <=> Contract!Safety /\ Contract!Ends
    BY DEF ContractHolds, Contract!Spec
  <1>6. QED BY <1>1, <1>2, <1>3, <1>4, <1>5, Explained, KeepsContract, PTL
=============================================================================
