--------------------------- MODULE FilesConnection ---------------------------
(***************************************************************************)
(* One /ws/files connection as a record, and what its requests and frames  *)
(* do to it: register, sendJson, the dispatch of text and binary frames,   *)
(* failAll and closeSocket of core/files-ws-client.ts.                     *)
(*                                                                         *)
(* A request is known by the operation that registered it.  The bridge     *)
(* (external) serves the requests of a connection one after the other, in  *)
(* the order they were sent, and addresses its frames by id alone.         *)
(***************************************************************************)
EXTENDS Naturals, SequencesExt

CONSTANTS
    Ops,           \* the operations that may have a request on a connection
    NoOp,          \* not an operation
    MaxRequestId   \* 65535, the largest id a binary frame can echo

Ids == 1..MaxRequestId

\* state: of the socket (unused, open, closing or closed). pending: the op a frame
\* with an id is given to. queue: the requests the bridge has not answered, oldest
\* first.
Unused == [state |-> "unused", nextId |-> 1, pending |-> [i \in Ids |-> NoOp],
           queue |-> <<>>]

\* onopen: connectFilesWs resolves.
Opened == [Unused EXCEPT !.state = "open"]

\* isOpen()
IsOpen(c) == c.state = "open"

\* closeSocket(). Frames may still arrive until the close event.
CloseSocket(c) == [c EXCEPT !.state = IF @ = "open" THEN "closing" ELSE @]

SuccessorId_Stuck(id) == 1

SuccessorId(id) == IF id >= MaxRequestId THEN 1 ELSE id + 1

\* register() and sendJson(): an op still registered under the id is forgotten.
Register(c, op) ==
    [c EXCEPT !.nextId = SuccessorId(@),
              !.pending[c.nextId] = op,
              !.queue = Append(@, [id |-> c.nextId, op |-> op])]

\* pending.get(frame.id): who is given what the bridge says now.
Addressee(c) == c.pending[Head(c.queue).id]

\* pending.delete(id), for the id this op was registered under.
Deleted(c, op) ==
    [c EXCEPT !.pending = [i \in Ids |-> IF @[i] = op THEN NoOp ELSE @[i]]]

\* The last frame of an answer: the bridge turns to the next request.
Answered(c) == [c EXCEPT !.queue = Tail(@), !.pending[Head(c.queue).id] = NoOp]

\* Ops that a frame or the close of the socket can still settle.
Registered(c) == {op \in Ops : \E i \in Ids : c.pending[i] = op}

\* onclose and failAll()
Lost == [Unused EXCEPT !.state = "closed"]
=============================================================================
