--------------------------- MODULE FilesWriteProofs ---------------------------
(***************************************************************************)
(* Uploads, for every content, send buffer and retry budget: success on a  *)
(* service that keeps to the protocol means that the whole content is      *)
(* stored, nothing is ever stored but its chunks at their places, a lost   *)
(* connection ends the write only when no retry is left, and all of it is  *)
(* what UploadContract allows.                                             *)
(***************************************************************************)
EXTENDS FilesWrite, TLAPS

-----------------------------------------------------------------------------
(* The inductive invariant.                                                *)

Phases == {"connect", "start", "mkdir", "ready", "delay", "ack", "chmod", "ended"} \cup Streaming

Frames == Seq(Nat \X Nat \X BOOLEAN)

WriteTypeOK ==
    /\ source \in [chunks: Nat, replayable: BOOLEAN] /\ mode \in BOOLEAN
    /\ phase \in Phases
    /\ parent \in BOOLEAN /\ madeParent \in BOOLEAN
    /\ retries \in Nat /\ pulls \in Nat
    /\ pulled \in 0..source.chunks /\ held \in 0..source.chunks
    /\ consumed \in BOOLEAN
    /\ settled \in {"no", "ok"} \cup Kinds
    /\ sent \in Nat /\ wire \in Frames
    /\ lateStart \in BOOLEAN
    /\ file.complete \in BOOLEAN /\ breach \in BOOLEAN
    /\ outcome \in {"none", "ok", "lost", "failed", "unset"}

\* Where the upload loop is: one chunk is held back, and a second one while it
\* waits to send the first.
LoopInv ==
    /\ phase \in {"start", "mkdir", "ready"} => pulled = 0 /\ held = 0
    /\ phase \in {"pull", "drainLast"} => held = pulled
    /\ phase = "drain" => held = pulled - 1 /\ held # 0
    /\ phase = "drainLast" => pulled = source.chunks

\* The chunks sent are those before the one held, all of them once the end is out.
SentInv ==
    /\ phase \in {"ready"} \cup Streaming => sent = IF held = 0 THEN 0 ELSE held - 1
    /\ phase = "ack" => sent = source.chunks

\* The first n chunks, each at its place.
Upto(n) == {<<k, k>> : k \in 1..n}

\* Every chunk under way goes to its own place, also those of given-up attempts.
PlaceInv ==
    /\ file.pieces \subseteq Whole
    /\ Pieces(wire) \subseteq Whole
    /\ late \subseteq Whole

\* What the running upload has sent is stored or under way.
CoverInv ==
    phase \in {"ready", "ack"} \cup Streaming /\ ~breach =>
        Upto(sent) \subseteq file.pieces \cup Pieces(wire)

\* The end marker is the last frame of its upload, and comes to the service when
\* all the chunks have.
MarkerInv ==
    /\ phase \notin {"ack", "chmod", "ended"} \cup Streaming => wire = <<>>
    /\ phase \in {"chmod", "ended"} /\ ~breach => wire = <<>>
    /\ phase \in Streaming => \A i \in 1..Len(wire) : ~wire[i][3]
    /\ phase = "ack" => \A i \in 1..Len(wire) : wire[i][3] => i = Len(wire)
    /\ phase \in {"ready"} \cup Streaming => ~file.complete
    /\ file.complete /\ ~breach => wire = <<>> /\ file.pieces = Whole

\* A one-shot source is pulled by one attempt, the last.
PullsInv ==
    ~source.replayable =>
        /\ IF consumed THEN pulls = 1 ELSE pulls = 0 /\ pulled = 0
        /\ phase \in {"connect", "start", "mkdir", "ready", "delay"} => ~consumed
        /\ phase \in Streaming => consumed

\* Nothing but an acknowledgement lets a write succeed, and one that keeps to the
\* protocol comes when the end has been marked.
OutcomeInv ==
    /\ phase \in {"start", "mkdir"} => settled = "no"
    /\ settled = "ok" /\ ~breach => file.complete
    /\ phase = "chmod" \/ outcome \in {"ok", "unset"} => settled = "ok"
    /\ outcome # "none" => phase = "ended"
    /\ RetriedWhilePossible

WriteInv ==
    WriteTypeOK /\ LoopInv /\ SentInv /\ PlaceInv /\ CoverInv /\ MarkerInv /\ PullsInv /\ OutcomeInv

-----------------------------------------------------------------------------
(* Frames and pieces.                                                      *)

LEMMA NoPieces == Pieces(<<>>) = {}
<1>1. Len(<<>>) = 0
  OBVIOUS
<1>2. QED
  BY <1>1 DEF Pieces

\* What appending a frame does.
LEMMA AppendFrame ==
    ASSUME NEW s \in Frames, NEW f \in Nat \X Nat \X BOOLEAN
    PROVE  /\ Append(s, f) \in Frames /\ Len(Append(s, f)) = Len(s) + 1 /\ Len(s) \in Nat
           /\ \A i \in 1..Len(s) : Append(s, f)[i] = s[i]
           /\ Append(s, f)[Len(s) + 1] = f
BY DEF Frames

LEMMA AppendPieces ==
    ASSUME NEW s \in Frames, NEW place \in Nat, NEW chunk \in Nat, NEW last \in BOOLEAN
    PROVE  Pieces(Append(s, <<place, chunk, last>>)) =
               Pieces(s) \cup (IF chunk = 0 THEN {} ELSE {<<place, chunk>>})
<1> DEFINE f == <<place, chunk, last>>
           t == Append(s, f)
<1>1. f \in Nat \X Nat \X BOOLEAN /\ f[1] = place /\ f[2] = chunk
  OBVIOUS
<1>2. /\ Len(t) = Len(s) + 1 /\ Len(s) \in Nat
      /\ \A i \in 1..Len(s) : t[i] = s[i]
      /\ t[Len(s) + 1] = f
  BY <1>1, AppendFrame
<1> HIDE DEF f, t
<1>3. Pieces(t) \subseteq Pieces(s) \cup (IF chunk = 0 THEN {} ELSE {<<place, chunk>>})
  <2>1. SUFFICES ASSUME NEW i \in 1..Len(t), t[i][2] # 0
                 PROVE  <<t[i][1], t[i][2]>>
                            \in Pieces(s) \cup (IF chunk = 0 THEN {} ELSE {<<place, chunk>>})
    BY DEF Pieces
  <2>2. CASE i \in 1..Len(s)
    BY <1>2, <2>1, <2>2 DEF Pieces
  <2>3. CASE i = Len(s) + 1
    BY <1>1, <1>2, <2>1, <2>3
  <2>4. QED
    BY <1>2, <2>2, <2>3
<1>4. Pieces(s) \subseteq Pieces(t)
  BY <1>2 DEF Pieces
<1>5. chunk # 0 => <<place, chunk>> \in Pieces(t)
  <2>1. Len(s) + 1 \in 1..Len(t)
    BY <1>2
  <2>2. QED
    BY <1>1, <1>2, <2>1 DEF Pieces
<1>6. QED
  BY <1>3, <1>4, <1>5 DEF t, f

\* What taking the first frame does.
LEMMA TailFrame ==
    ASSUME NEW s \in Frames, s # <<>>
    PROVE  /\ Len(s) \in Nat \ {0} /\ Tail(s) \in Frames /\ Len(Tail(s)) = Len(s) - 1
           /\ \A i \in 1..Len(Tail(s)) : Tail(s)[i] = s[i + 1]
           /\ Head(s) = s[1] /\ Head(s) \in Nat \X Nat \X BOOLEAN
           /\ Len(s) = 1 => Tail(s) = <<>>
<1>1. Len(s) \in Nat \ {0} /\ Len(Tail(s)) = Len(s) - 1 /\ Tail(s) \in Frames
  BY DEF Frames
<1>2. \A i \in 1..Len(Tail(s)) : Tail(s)[i] = s[i + 1]
  BY DEF Frames
<1>3. Head(s) = s[1] /\ s[1] \in Nat \X Nat \X BOOLEAN
  BY <1>1 DEF Frames
<1>4. \A t \in Frames : Len(t) = 0 => t = <<>>
  BY DEF Frames
<1>5. Len(s) = 1 => Tail(s) = <<>>
  <2> DEFINE t == Tail(s)
  <2>1. t \in Frames /\ (Len(s) = 1 => Len(t) = 0)
    BY <1>1
  <2> HIDE DEF t
  <2>2. Len(s) = 1 => t = <<>>
    BY <1>4, <2>1
  <2>3. QED
    BY <2>2 DEF t
<1>6. QED
  BY <1>1, <1>2, <1>3, <1>5

LEMMA TailPieces ==
    ASSUME NEW s \in Frames, s # <<>>
    PROVE  Pieces(s) = Pieces(Tail(s)) \cup
                           (IF Head(s)[2] = 0 THEN {} ELSE {<<Head(s)[1], Head(s)[2]>>})
<1> DEFINE t == Tail(s)
           h == Head(s)
           first == IF h[2] = 0 THEN {} ELSE {<<h[1], h[2]>>}
<1>1. /\ Len(s) \in Nat \ {0} /\ Len(t) = Len(s) - 1
      /\ \A i \in 1..Len(t) : t[i] = s[i + 1]
      /\ h = s[1]
  BY TailFrame
<1> HIDE DEF t, h
<1>2. Pieces(s) \subseteq Pieces(t) \cup first
  <2>1. SUFFICES ASSUME NEW i \in 1..Len(s), s[i][2] # 0
                 PROVE  <<s[i][1], s[i][2]>> \in Pieces(t) \cup first
    BY DEF Pieces
  <2>2. CASE i = 1
    BY <1>1, <2>1, <2>2
  <2>3. CASE i # 1
    <3>1. i - 1 \in 1..Len(t) /\ t[i - 1] = s[i]
      BY <1>1, <2>3
    <3>2. QED
      BY <2>1, <3>1 DEF Pieces
  <2>4. QED
    BY <2>2, <2>3
<1>3. Pieces(t) \subseteq Pieces(s)
  <2>1. SUFFICES ASSUME NEW i \in 1..Len(t), t[i][2] # 0
                 PROVE  <<t[i][1], t[i][2]>> \in Pieces(s)
    BY DEF Pieces
  <2>2. i + 1 \in 1..Len(s) /\ s[i + 1] = t[i]
    BY <1>1
  <2>3. QED
    BY <2>1, <2>2 DEF Pieces
<1>4. first \subseteq Pieces(s)
  <2>1. 1 \in 1..Len(s)
    BY <1>1
  <2>2. QED
    BY <1>1, <2>1 DEF Pieces
<1>5. QED
  BY <1>2, <1>3, <1>4 DEF t, h

\* Among chunks at their places there is none to replace.
LEMMA PutInPlace ==
    ASSUME NEW pieces, pieces \subseteq Whole, NEW place, NEW chunk,
           <<place, chunk>> \in Whole
    PROVE  Put(pieces, place, chunk) = pieces \cup {<<place, chunk>>}
<1>1. \A p \in pieces : p[1] = place => p = <<place, chunk>>
  BY DEF Whole
<1>2. QED
  BY <1>1 DEF Put

-----------------------------------------------------------------------------
(* An attempt that fails, or succeeds.                                     *)

others == <<sourceVars, madeParent, loopVars, settled, sent, fileVars>>

\* Whether or not there is another one, no half-made state is left behind.
LEMMA AttemptFailsKeeps ==
    ASSUME WriteInv, outcome = "none", parent' \in BOOLEAN,
           NEW kind \in Kinds, AttemptFails(kind), UNCHANGED others
    PROVE  WriteInv'
<1> USE BoundsAssumption
<1>1. /\ retries \in Nat /\ retries' = retries + 1 /\ wire' = <<>>
      /\ late' = late \cup Pieces(wire) /\ lateStart' \in BOOLEAN
      /\ \/ phase' = "delay" /\ outcome' = "none" /\ CanRetry(kind)
         \/ /\ phase' = "ended" /\ ~CanRetry(kind)
            /\ outcome' = IF Transient(kind) THEN "lost" ELSE "failed"
  BY DEF AttemptFails, WriteInv, WriteTypeOK
<1>2. file' = file /\ source' = source /\ breach' = breach /\ Whole' = Whole
  BY DEF others, sourceVars, fileVars, Whole
<1>3. WriteTypeOK'
  <2>1. wire' \in Frames
    BY <1>1 DEF Frames
  <2>2. QED
    BY <1>1, <2>1 DEF WriteInv, WriteTypeOK, others, sourceVars, loopVars, fileVars, Phases
<1>4. LoopInv' /\ SentInv' /\ CoverInv'
  BY <1>1 DEF LoopInv, SentInv, CoverInv, Streaming
<1>5. PlaceInv'
  <2>1. Pieces(wire') = {}
    BY <1>1, NoPieces
  <2>2. QED
    BY <1>1, <1>2, <2>1 DEF PlaceInv, WriteInv
<1>6. MarkerInv'
  BY <1>1, <1>2 DEF MarkerInv, WriteInv, Streaming
<1>7. PullsInv'
  BY <1>1 DEF PullsInv, WriteInv, others, sourceVars, loopVars, CanRetry, Streaming
<1>8. OutcomeInv'
  <2>1. Transient(kind) /\ ~CanRetry(kind) =>
            retries' > MaxRetries \/ (~source.replayable /\ pulls = 1)
    BY <1>1 DEF CanRetry, PullsInv, WriteInv, WriteTypeOK
  <2>2. source' = source /\ pulls' = pulls /\ settled' = settled
    BY DEF others, sourceVars, loopVars
  <2>3. settled' = "ok" /\ ~breach' => file'.complete
    BY <1>2, <2>2 DEF WriteInv, OutcomeInv
  <2>4. QED
    BY <1>1, <2>1, <2>2, <2>3 DEF OutcomeInv, RetriedWhilePossible
<1>9. QED
  BY <1>3, <1>4, <1>5, <1>6, <1>7, <1>8 DEF WriteInv

\* An attempt that succeeded without a breach has nothing under way.
LEMMA AttemptSucceedsKeeps ==
    ASSUME WriteInv, outcome = "none", settled = "ok", parent' = parent,
           AttemptSucceeds, UNCHANGED others
    PROVE  WriteInv'
<1> USE BoundsAssumption
<1>1. /\ UNCHANGED <<retries, wire, late, lateStart>>
      /\ \/ phase' = "chmod" /\ outcome' = "none"
         \/ phase' = "ended" /\ outcome' = "ok"
  BY DEF AttemptSucceeds, lateVars
<1>2. file' = file /\ source' = source /\ breach' = breach /\ Whole' = Whole
  BY DEF others, sourceVars, fileVars, Whole
<1>3. WriteTypeOK'
  BY <1>1 DEF WriteInv, WriteTypeOK, others, sourceVars, loopVars, fileVars, Phases
<1>4. LoopInv' /\ SentInv' /\ CoverInv'
  BY <1>1 DEF LoopInv, SentInv, CoverInv, Streaming
<1>5. PlaceInv'
  BY <1>1, <1>2 DEF PlaceInv, WriteInv
<1>6. MarkerInv'
  BY <1>1, <1>2 DEF MarkerInv, OutcomeInv, WriteInv, Streaming
<1>7. PullsInv'
  BY <1>1 DEF PullsInv, WriteInv, others, sourceVars, loopVars, Streaming
<1>8. OutcomeInv'
  BY <1>1, <1>2 DEF OutcomeInv, WriteInv, RetriedWhilePossible, others, loopVars
<1>9. QED
  BY <1>3, <1>4, <1>5, <1>6, <1>7, <1>8 DEF WriteInv

-----------------------------------------------------------------------------
(* The invariant holds at first, and every action keeps it.                *)

LEMMA InitEstablishes ==
    ASSUME Init
    PROVE  WriteInv
<1> USE BoundsAssumption
<1>1. source \in [chunks: Nat, replayable: BOOLEAN]
  BY DEF Init
<1>2. WriteTypeOK
  <2>1. 0 \in 0..source.chunks
    BY <1>1
  <2>2. wire \in Frames
    BY DEF Init, Frames
  <2>3. QED
    BY <1>1, <2>1, <2>2 DEF Init, WriteTypeOK, Phases
<1>3. PlaceInv
  BY NoPieces DEF Init, PlaceInv
<1>4. LoopInv /\ SentInv /\ CoverInv /\ MarkerInv
  BY DEF Init, LoopInv, SentInv, CoverInv, MarkerInv, Streaming
<1>5. PullsInv /\ OutcomeInv
  BY DEF Init, PullsInv, OutcomeInv, Streaming, RetriedWhilePossible
<1>6. QED
  BY <1>2, <1>3, <1>4, <1>5 DEF WriteInv

\* What an attempt that has not ended may assume.
LEMMA Running ==
    ASSUME WriteInv, phase # "ended"
    PROVE  outcome = "none"
BY DEF WriteInv, OutcomeInv, WriteTypeOK

LEMMA RetryDelayKeeps ==
    ASSUME WriteInv, RetryDelay
    PROVE  WriteInv'
<1> USE BoundsAssumption
<1>1. UNCHANGED <<wire, late, file, source>> /\ Whole' = Whole
  BY DEF RetryDelay, sourceVars, lateVars, fileVars, Whole
<1>2. WriteTypeOK'
  BY <1>1 DEF WriteInv, WriteTypeOK, Phases, Streaming, Kinds, sourceVars, loopVars,
              lateVars, fileVars, RetryDelay
<1>3. LoopInv' /\ SentInv'
  BY <1>1 DEF WriteInv, WriteTypeOK, LoopInv, SentInv, PullsInv, Streaming, sourceVars,
              loopVars, RetryDelay
<1>4. PlaceInv'
  BY <1>1 DEF WriteInv, PlaceInv
<1>5. CoverInv'
  BY <1>1 DEF WriteInv, CoverInv, Streaming, fileVars, RetryDelay
<1>6. MarkerInv'
  BY <1>1 DEF WriteInv, MarkerInv, OutcomeInv, Streaming, fileVars, RetryDelay
<1>7. PullsInv'
  BY <1>1 DEF WriteInv, WriteTypeOK, PullsInv, Streaming, sourceVars, loopVars, RetryDelay
<1>8. OutcomeInv'
  BY <1>1 DEF WriteInv, OutcomeInv, RetriedWhilePossible, Streaming, sourceVars, loopVars,
              fileVars, RetryDelay
<1>9. QED
  BY <1>2, <1>3, <1>4, <1>5, <1>6, <1>7, <1>8 DEF WriteInv

LEMMA ConnectKeeps ==
    ASSUME WriteInv, Connect
    PROVE  WriteInv'
<1> USE BoundsAssumption
<1>1. UNCHANGED <<wire, late, file, source>> /\ Whole' = Whole
  BY DEF Connect, sourceVars, lateVars, fileVars, Whole
<1>2. WriteTypeOK'
  <2>1. pulled' = 0 /\ held' = 0 /\ 0 \in 0..source.chunks
    BY DEF Connect, WriteInv, WriteTypeOK, PullsInv
  <2>2. QED
    BY <1>1, <2>1 DEF WriteInv, WriteTypeOK, Phases, sourceVars, lateVars, fileVars, Connect
<1>3. LoopInv' /\ SentInv'
  BY <1>1 DEF WriteInv, WriteTypeOK, LoopInv, SentInv, PullsInv, Streaming, sourceVars,
              loopVars, Connect
<1>4. PlaceInv'
  BY <1>1 DEF WriteInv, PlaceInv
<1>5. CoverInv'
  BY <1>1 DEF WriteInv, CoverInv, Streaming, fileVars, Connect
<1>6. MarkerInv'
  BY <1>1 DEF WriteInv, MarkerInv, OutcomeInv, Streaming, fileVars, Connect
<1>7. PullsInv'
  BY <1>1 DEF WriteInv, WriteTypeOK, PullsInv, Streaming, sourceVars, loopVars, Connect
<1>8. OutcomeInv'
  BY <1>1 DEF WriteInv, OutcomeInv, RetriedWhilePossible, Streaming, sourceVars, loopVars,
              fileVars, Connect
<1>9. QED
  BY <1>2, <1>3, <1>4, <1>5, <1>6, <1>7, <1>8 DEF WriteInv

LEMMA MadeParentKeeps ==
    ASSUME WriteInv, MadeParent
    PROVE  WriteInv'
<1> USE BoundsAssumption
<1>1. UNCHANGED <<wire, late, file, source>> /\ Whole' = Whole
  BY DEF MadeParent, sourceVars, lateVars, fileVars, Whole
<1>2. WriteTypeOK'
  BY <1>1 DEF WriteInv, WriteTypeOK, Phases, Streaming, Kinds, sourceVars, loopVars,
              lateVars, fileVars, MadeParent
<1>3. LoopInv' /\ SentInv'
  BY <1>1 DEF WriteInv, WriteTypeOK, LoopInv, SentInv, PullsInv, Streaming, sourceVars,
              loopVars, MadeParent
<1>4. PlaceInv'
  BY <1>1 DEF WriteInv, PlaceInv
<1>5. CoverInv'
  BY <1>1 DEF WriteInv, CoverInv, Streaming, fileVars, MadeParent
<1>6. MarkerInv'
  BY <1>1 DEF WriteInv, MarkerInv, OutcomeInv, Streaming, fileVars, MadeParent
<1>7. PullsInv'
  BY <1>1 DEF WriteInv, WriteTypeOK, PullsInv, Streaming, sourceVars, loopVars, MadeParent
<1>8. OutcomeInv'
  BY <1>1 DEF WriteInv, OutcomeInv, RetriedWhilePossible, Streaming, sourceVars, loopVars,
              fileVars, MadeParent
<1>9. QED
  BY <1>2, <1>3, <1>4, <1>5, <1>6, <1>7, <1>8 DEF WriteInv

LEMMA PullKeeps ==
    ASSUME WriteInv, Pull
    PROVE  WriteInv'
<1> USE BoundsAssumption
<1>1. UNCHANGED <<wire, late, file, source>> /\ Whole' = Whole
  BY DEF Pull, sourceVars, lateVars, fileVars, Whole
<1>2. WriteTypeOK'
  BY <1>1 DEF WriteInv, WriteTypeOK, Phases, Streaming, Kinds, sourceVars, loopVars,
              lateVars, fileVars, Pull
<1>3. LoopInv' /\ SentInv'
  BY <1>1 DEF WriteInv, WriteTypeOK, LoopInv, SentInv, PullsInv, Streaming, sourceVars,
              loopVars, Pull
<1>4. PlaceInv'
  BY <1>1 DEF WriteInv, PlaceInv
<1>5. CoverInv'
  BY <1>1 DEF WriteInv, CoverInv, Streaming, fileVars, Pull
<1>6. MarkerInv'
  BY <1>1 DEF WriteInv, MarkerInv, OutcomeInv, Streaming, fileVars, Pull
<1>7. PullsInv'
  BY <1>1 DEF WriteInv, WriteTypeOK, PullsInv, Streaming, sourceVars, loopVars, Pull
<1>8. OutcomeInv'
  BY <1>1 DEF WriteInv, OutcomeInv, RetriedWhilePossible, Streaming, sourceVars, loopVars,
              fileVars, Pull
<1>9. QED
  BY <1>2, <1>3, <1>4, <1>5, <1>6, <1>7, <1>8 DEF WriteInv

LEMMA SourceYieldsKeeps ==
    ASSUME WriteInv, SourceYields
    PROVE  WriteInv'
<1> USE BoundsAssumption
<1>1. UNCHANGED <<wire, late, file, source>> /\ Whole' = Whole
  BY DEF SourceYields, sourceVars, lateVars, fileVars, Whole
<1>2. WriteTypeOK'
  BY <1>1 DEF WriteInv, WriteTypeOK, Phases, Streaming, Kinds, sourceVars, loopVars,
              lateVars, fileVars, SourceYields
<1>3. LoopInv' /\ SentInv'
  BY <1>1 DEF WriteInv, WriteTypeOK, LoopInv, SentInv, PullsInv, Streaming, sourceVars,
              loopVars, SourceYields
<1>4. PlaceInv'
  BY <1>1 DEF WriteInv, PlaceInv
<1>5. CoverInv'
  BY <1>1 DEF WriteInv, CoverInv, Streaming, fileVars, SourceYields
<1>6. MarkerInv'
  BY <1>1 DEF WriteInv, MarkerInv, OutcomeInv, Streaming, fileVars, SourceYields
<1>7. PullsInv'
  BY <1>1 DEF WriteInv, WriteTypeOK, PullsInv, Streaming, sourceVars, loopVars, SourceYields
<1>8. OutcomeInv'
  BY <1>1 DEF WriteInv, OutcomeInv, RetriedWhilePossible, Streaming, sourceVars, loopVars,
              fileVars, SourceYields
<1>9. QED
  BY <1>2, <1>3, <1>4, <1>5, <1>6, <1>7, <1>8 DEF WriteInv

LEMMA SourceEndsKeeps ==
    ASSUME WriteInv, SourceEnds
    PROVE  WriteInv'
<1> USE BoundsAssumption
<1>1. UNCHANGED <<wire, late, file, source>> /\ Whole' = Whole
  BY DEF SourceEnds, sourceVars, lateVars, fileVars, Whole
<1>2. WriteTypeOK'
  BY <1>1 DEF WriteInv, WriteTypeOK, Phases, Streaming, Kinds, sourceVars, loopVars,
              lateVars, fileVars, SourceEnds
<1>3. LoopInv' /\ SentInv'
  BY <1>1 DEF WriteInv, WriteTypeOK, LoopInv, SentInv, PullsInv, Streaming, sourceVars,
              loopVars, SourceEnds
<1>4. PlaceInv'
  BY <1>1 DEF WriteInv, PlaceInv
<1>5. CoverInv'
  BY <1>1 DEF WriteInv, CoverInv, Streaming, fileVars, SourceEnds
<1>6. MarkerInv'
  BY <1>1 DEF WriteInv, MarkerInv, OutcomeInv, Streaming, fileVars, SourceEnds
<1>7. PullsInv'
  BY <1>1 DEF WriteInv, WriteTypeOK, PullsInv, Streaming, sourceVars, loopVars, SourceEnds
<1>8. OutcomeInv'
  BY <1>1 DEF WriteInv, OutcomeInv, RetriedWhilePossible, Streaming, sourceVars, loopVars,
              fileVars, SourceEnds
<1>9. QED
  BY <1>2, <1>3, <1>4, <1>5, <1>6, <1>7, <1>8 DEF WriteInv

LEMMA ApplyModeKeeps ==
    ASSUME WriteInv, ApplyMode
    PROVE  WriteInv'
<1> USE BoundsAssumption
<1>1. UNCHANGED <<wire, late, file, source>> /\ Whole' = Whole
  BY DEF ApplyMode, sourceVars, lateVars, fileVars, Whole
<1>2. WriteTypeOK'
  BY <1>1 DEF WriteInv, WriteTypeOK, Phases, Streaming, Kinds, sourceVars, loopVars,
              lateVars, fileVars, ApplyMode
<1>3. LoopInv' /\ SentInv'
  BY <1>1 DEF WriteInv, WriteTypeOK, LoopInv, SentInv, PullsInv, Streaming, sourceVars,
              loopVars, ApplyMode
<1>4. PlaceInv'
  BY <1>1 DEF WriteInv, PlaceInv
<1>5. CoverInv'
  BY <1>1 DEF WriteInv, CoverInv, Streaming, fileVars, ApplyMode
<1>6. MarkerInv'
  BY <1>1 DEF WriteInv, MarkerInv, OutcomeInv, Streaming, fileVars, ApplyMode
<1>7. PullsInv'
  BY <1>1 DEF WriteInv, WriteTypeOK, PullsInv, Streaming, sourceVars, loopVars, ApplyMode
<1>8. OutcomeInv'
  BY <1>1 DEF WriteInv, OutcomeInv, RetriedWhilePossible, Streaming, sourceVars, loopVars,
              fileVars, ApplyMode
<1>9. QED
  BY <1>2, <1>3, <1>4, <1>5, <1>6, <1>7, <1>8 DEF WriteInv

LEMMA RecvOkKeeps ==
    ASSUME WriteInv, RecvOk
    PROVE  WriteInv'
<1> USE BoundsAssumption
<1>1. UNCHANGED <<wire, late, file, source>> /\ Whole' = Whole
  BY DEF RecvOk, sourceVars, lateVars, fileVars, Whole
<1>2. WriteTypeOK'
  BY <1>1 DEF WriteInv, WriteTypeOK, Phases, Streaming, Kinds, sourceVars, loopVars,
              lateVars, fileVars, RecvOk
<1>3. LoopInv' /\ SentInv'
  BY <1>1 DEF WriteInv, WriteTypeOK, LoopInv, SentInv, PullsInv, Streaming, sourceVars,
              loopVars, RecvOk
<1>4. PlaceInv'
  BY <1>1 DEF WriteInv, PlaceInv
<1>5. CoverInv'
  BY <1>1 DEF WriteInv, CoverInv, Streaming, fileVars, RecvOk
<1>6. MarkerInv'
  BY <1>1 DEF WriteInv, MarkerInv, OutcomeInv, Streaming, fileVars, RecvOk
<1>7. PullsInv'
  BY <1>1 DEF WriteInv, WriteTypeOK, PullsInv, Streaming, sourceVars, loopVars, RecvOk
<1>8. OutcomeInv'
  BY <1>1 DEF WriteInv, OutcomeInv, RetriedWhilePossible, Streaming, sourceVars, loopVars,
              fileVars, RecvOk
<1>9. QED
  BY <1>2, <1>3, <1>4, <1>5, <1>6, <1>7, <1>8 DEF WriteInv

LEMMA RequestFailsKeeps ==
    ASSUME WriteInv, NEW kind \in Kinds, RequestFails(kind)
    PROVE  WriteInv'
<1> USE BoundsAssumption
<1>1. UNCHANGED <<wire, late, file, source>> /\ Whole' = Whole
  BY DEF RequestFails, sourceVars, lateVars, fileVars, Whole
<1>2. WriteTypeOK'
  BY <1>1 DEF WriteInv, WriteTypeOK, Phases, Streaming, Kinds, sourceVars, loopVars,
              lateVars, fileVars, RequestFails
<1>3. LoopInv' /\ SentInv'
  BY <1>1 DEF WriteInv, WriteTypeOK, LoopInv, SentInv, PullsInv, Streaming, sourceVars,
              loopVars, RequestFails
<1>4. PlaceInv'
  BY <1>1 DEF WriteInv, PlaceInv
<1>5. CoverInv'
  BY <1>1 DEF WriteInv, CoverInv, Streaming, fileVars, RequestFails
<1>6. MarkerInv'
  BY <1>1 DEF WriteInv, MarkerInv, OutcomeInv, Streaming, fileVars, RequestFails
<1>7. PullsInv'
  BY <1>1 DEF WriteInv, WriteTypeOK, PullsInv, Streaming, sourceVars, loopVars, RequestFails
<1>8. OutcomeInv'
  BY <1>1 DEF WriteInv, OutcomeInv, RetriedWhilePossible, Streaming, sourceVars, loopVars,
              fileVars, Kinds, RequestFails
<1>9. QED
  BY <1>2, <1>3, <1>4, <1>5, <1>6, <1>7, <1>8 DEF WriteInv

LEMMA WriteReadyKeeps ==
    ASSUME WriteInv, WriteReady
    PROVE  WriteInv'
<1> USE BoundsAssumption
<1>1. /\ file' = [pieces |-> {}, complete |-> FALSE] /\ sent' = 0
      /\ phase = "start" /\ phase' = "ready" /\ wire = <<>> /\ wire' = <<>>
      /\ late' = late /\ source' = source /\ Whole' = Whole /\ held' = 0
  BY DEF WriteReady, WriteInv, MarkerInv, LoopInv, sourceVars, loopVars, lateVars, Whole, Streaming
<1>2. WriteTypeOK'
  <2>1. file'.complete \in BOOLEAN /\ breach' \in BOOLEAN
    <3>1. file'.complete = FALSE
      BY <1>1
    <3>2. breach' = FALSE
      BY DEF WriteReady
    <3>3. QED
      BY ONLY <3>1, <3>2, Zenon
  <2>2. sent' \in Nat /\ wire' \in Frames /\ phase' \in Phases
    BY <1>1 DEF WriteInv, WriteTypeOK, Phases
  <2>3. QED
    BY <2>1, <2>2 DEF WriteInv, WriteTypeOK, sourceVars, loopVars, lateVars, WriteReady
<1>3. LoopInv' /\ SentInv'
  BY <1>1 DEF WriteInv, LoopInv, SentInv, sourceVars, loopVars, WriteReady
<1>4. PlaceInv'
  BY <1>1 DEF WriteInv, PlaceInv
<1>5. CoverInv'
  <2>1. Upto(0) = {}
    BY DEF Upto
  <2>2. QED
    BY <1>1, <2>1 DEF CoverInv
<1>6. MarkerInv'
  BY <1>1 DEF MarkerInv, Streaming
<1>7. PullsInv'
  BY <1>1 DEF WriteInv, PullsInv, Streaming, sourceVars, loopVars, WriteReady
<1>8. OutcomeInv'
  BY <1>1 DEF WriteInv, OutcomeInv, RetriedWhilePossible, loopVars, WriteReady
<1>9. QED
  BY <1>2, <1>3, <1>4, <1>5, <1>6, <1>7, <1>8 DEF WriteInv

\* A frame with the next chunk, or an empty one.
LEMMA SendContentSends ==
    ASSUME WriteInv, phase \in Streaming, NEW chunk \in Nat, NEW last \in BOOLEAN,
           SendContent(chunk, last), file' = file, source' = source, breach' = breach,
           chunk # 0 => chunk = sent + 1 /\ chunk <= source.chunks
    PROVE  /\ wire' \in Frames /\ sent' \in Nat
           /\ sent' = IF chunk = 0 THEN sent ELSE chunk
           /\ Pieces(wire') \subseteq Whole
           /\ ~breach => Upto(sent') \subseteq file.pieces \cup Pieces(wire')
           /\ \A i \in 1..Len(wire') : wire'[i][3] => last /\ i = Len(wire')
<1> DEFINE f == <<sent + 1, chunk, last>>
<1>1. /\ wire \in Frames /\ sent \in Nat /\ source.chunks \in Nat
      /\ f \in Nat \X Nat \X BOOLEAN /\ f[3] = last
  BY DEF WriteInv, WriteTypeOK
<1>2. wire' = Append(wire, f) /\ sent' = IF chunk = 0 THEN sent ELSE sent + 1
  BY DEF SendContent
<1>3. Pieces(wire') = Pieces(wire) \cup (IF chunk = 0 THEN {} ELSE {<<sent + 1, chunk>>})
  BY <1>1, <1>2, AppendPieces
<1>4. /\ wire' \in Frames /\ Len(wire') = Len(wire) + 1 /\ Len(wire) \in Nat
      /\ \A i \in 1..Len(wire) : wire'[i] = wire[i]
      /\ wire'[Len(wire) + 1] = f
  BY <1>1, <1>2, AppendFrame
<1> HIDE DEF f
<1>5. Pieces(wire') \subseteq Whole
  <2>1. chunk # 0 => <<sent + 1, chunk>> \in Whole
    BY <1>1 DEF Whole
  <2>2. QED
    BY <1>3, <2>1 DEF WriteInv, PlaceInv
<1>6. ~breach => Upto(sent') \subseteq file.pieces \cup Pieces(wire')
  <2>1. ~breach => Upto(sent) \subseteq file.pieces \cup Pieces(wire)
    BY DEF WriteInv, CoverInv
  <2>2. Upto(sent + 1) \subseteq Upto(sent) \cup {<<sent + 1, sent + 1>>}
    BY <1>1 DEF Upto
  <2>3. QED
    BY <1>2, <1>3, <2>1, <2>2
<1>7. ASSUME NEW i \in 1..Len(wire'), wire'[i][3]
      PROVE  last /\ i = Len(wire')
  <2>1. i \notin 1..Len(wire)
    BY <1>4, <1>7 DEF WriteInv, MarkerInv
  <2>2. i = Len(wire) + 1
    BY <1>4, <2>1
  <2>3. QED
    BY <1>1, <1>4, <1>7, <2>2
<1>8. QED
  BY <1>1, <1>2, <1>4, <1>5, <1>6, <1>7

LEMMA SendKeeps ==
    ASSUME WriteInv, Send
    PROVE  WriteInv'
<1> USE BoundsAssumption
<1>1. /\ phase \in Streaming /\ SendContent(held, FALSE)
      /\ UNCHANGED <<file, source, breach, late, lateStart>> /\ Whole' = Whole
  BY DEF Send, sourceVars, fileVars, lateVars, Streaming, Whole
<1>2. /\ held \in Nat /\ (held # 0 => held = sent + 1 /\ held <= source.chunks)
  BY DEF Send, WriteInv, WriteTypeOK, LoopInv, SentInv, Streaming
<1>3. /\ wire' \in Frames /\ sent' \in Nat
      /\ sent' = IF held = 0 THEN sent ELSE held
      /\ Pieces(wire') \subseteq Whole
      /\ ~breach => Upto(sent') \subseteq file.pieces \cup Pieces(wire')
      /\ \A i \in 1..Len(wire') : wire'[i][3] => FALSE /\ i = Len(wire')
  BY <1>1, <1>2, SendContentSends
<1>4. WriteTypeOK'
  BY <1>1, <1>3 DEF WriteInv, WriteTypeOK, Phases, Streaming, sourceVars, loopVars, Send
<1>5. LoopInv'
  BY <1>1 DEF WriteInv, LoopInv, Streaming, sourceVars, loopVars, Send
<1>6. SentInv'
  BY <1>1, <1>3 DEF WriteInv, WriteTypeOK, LoopInv, SentInv, Streaming, loopVars, Send
<1>7. PlaceInv'
  BY <1>1, <1>3 DEF WriteInv, PlaceInv
<1>8. CoverInv'
  BY <1>1, <1>3 DEF CoverInv
<1>9. MarkerInv'
  <2>1. ~file.complete
    BY <1>1 DEF WriteInv, MarkerInv
  <2>2. phase' \in {"ack"} \cup Streaming /\ (phase' \in Streaming => ~FALSE)
    BY DEF Send, Streaming
  <2>3. QED
    BY <1>1, <1>3, <2>1, <2>2 DEF MarkerInv, Streaming
<1>10. PullsInv'
  BY <1>1 DEF WriteInv, PullsInv, Streaming, sourceVars, loopVars, Send
<1>11. OutcomeInv'
  BY <1>1 DEF WriteInv, OutcomeInv, RetriedWhilePossible, Streaming, sourceVars, loopVars, Send
<1>12. QED
  BY <1>4, <1>5, <1>6, <1>7, <1>8, <1>9, <1>10, <1>11 DEF WriteInv

LEMMA SendLastKeeps ==
    ASSUME WriteInv, SendLast
    PROVE  WriteInv'
<1> USE BoundsAssumption
<1>1. /\ phase \in Streaming /\ SendContent(held, TRUE)
      /\ UNCHANGED <<file, source, breach, late, lateStart>> /\ Whole' = Whole
  BY DEF SendLast, sourceVars, fileVars, lateVars, Streaming, Whole
<1>2. /\ held \in Nat /\ (held # 0 => held = sent + 1 /\ held <= source.chunks)
  BY DEF SendLast, WriteInv, WriteTypeOK, LoopInv, SentInv, Streaming
<1>3. /\ wire' \in Frames /\ sent' \in Nat
      /\ sent' = IF held = 0 THEN sent ELSE held
      /\ Pieces(wire') \subseteq Whole
      /\ ~breach => Upto(sent') \subseteq file.pieces \cup Pieces(wire')
      /\ \A i \in 1..Len(wire') : wire'[i][3] => TRUE /\ i = Len(wire')
  BY <1>1, <1>2, SendContentSends
<1>4. WriteTypeOK'
  BY <1>1, <1>3 DEF WriteInv, WriteTypeOK, Phases, Streaming, sourceVars, loopVars, SendLast
<1>5. LoopInv'
  BY <1>1 DEF WriteInv, LoopInv, Streaming, sourceVars, loopVars, SendLast
<1>6. SentInv'
  BY <1>1, <1>3 DEF WriteInv, WriteTypeOK, LoopInv, SentInv, Streaming, loopVars, SendLast
<1>7. PlaceInv'
  BY <1>1, <1>3 DEF WriteInv, PlaceInv
<1>8. CoverInv'
  BY <1>1, <1>3 DEF CoverInv
<1>9. MarkerInv'
  <2>1. ~file.complete
    BY <1>1 DEF WriteInv, MarkerInv
  <2>2. phase' \in {"ack"} \cup Streaming /\ (phase' \in Streaming => ~TRUE)
    BY DEF SendLast, Streaming
  <2>3. QED
    BY <1>1, <1>3, <2>1, <2>2 DEF MarkerInv, Streaming
<1>10. PullsInv'
  BY <1>1 DEF WriteInv, PullsInv, Streaming, sourceVars, loopVars, SendLast
<1>11. OutcomeInv'
  BY <1>1 DEF WriteInv, OutcomeInv, RetriedWhilePossible, Streaming, sourceVars, loopVars, SendLast
<1>12. QED
  BY <1>4, <1>5, <1>6, <1>7, <1>8, <1>9, <1>10, <1>11 DEF WriteInv

LEMMA HeartbeatKeeps ==
    ASSUME WriteInv, Heartbeat
    PROVE  WriteInv'
<1> USE BoundsAssumption
<1>1. /\ phase \in Streaming /\ SendContent(0, FALSE)
      /\ UNCHANGED <<file, source, breach, late, lateStart>> /\ Whole' = Whole
  BY DEF Heartbeat, sourceVars, fileVars, lateVars, Streaming, Whole
<1>2. /\ 0 \in Nat /\ (0 # 0 => 0 = sent + 1 /\ 0 <= source.chunks)
  OBVIOUS
<1>3. /\ wire' \in Frames /\ sent' \in Nat
      /\ sent' = IF 0 = 0 THEN sent ELSE 0
      /\ Pieces(wire') \subseteq Whole
      /\ ~breach => Upto(sent') \subseteq file.pieces \cup Pieces(wire')
      /\ \A i \in 1..Len(wire') : wire'[i][3] => FALSE /\ i = Len(wire')
  BY <1>1, <1>2, SendContentSends
<1>4. WriteTypeOK'
  BY <1>1, <1>3 DEF WriteInv, WriteTypeOK, Phases, Streaming, sourceVars, loopVars, Heartbeat
<1>5. LoopInv'
  BY <1>1 DEF WriteInv, LoopInv, Streaming, sourceVars, loopVars, Heartbeat
<1>6. SentInv'
  BY <1>1, <1>3 DEF WriteInv, WriteTypeOK, LoopInv, SentInv, Streaming, loopVars, Heartbeat
<1>7. PlaceInv'
  BY <1>1, <1>3 DEF WriteInv, PlaceInv
<1>8. CoverInv'
  BY <1>1, <1>3 DEF CoverInv
<1>9. MarkerInv'
  <2>1. ~file.complete
    BY <1>1 DEF WriteInv, MarkerInv
  <2>2. phase' \in {"ack"} \cup Streaming /\ (phase' \in Streaming => ~FALSE)
    BY DEF Heartbeat, Streaming
  <2>3. QED
    BY <1>1, <1>3, <2>1, <2>2 DEF MarkerInv, Streaming
<1>10. PullsInv'
  BY <1>1 DEF WriteInv, PullsInv, Streaming, sourceVars, loopVars, Heartbeat
<1>11. OutcomeInv'
  BY <1>1 DEF WriteInv, OutcomeInv, RetriedWhilePossible, Streaming, sourceVars, loopVars, Heartbeat
<1>12. QED
  BY <1>4, <1>5, <1>6, <1>7, <1>8, <1>9, <1>10, <1>11 DEF WriteInv

\* The service takes the first frame. The end marker comes to it when every chunk
\* has been stored.
LEMMA ServerReceivesKeeps ==
    ASSUME WriteInv, ServerReceives
    PROVE  WriteInv'
<1> DEFINE f == Head(wire)
<1>1. /\ wire \in Frames /\ wire # <<>> /\ wire' = Tail(wire)
      /\ UNCHANGED <<source, phase, sent, late, breach>> /\ Whole' = Whole
      /\ phase \in {"ack", "chmod", "ended"} \cup Streaming
      /\ ~breach => phase \in {"ack"} \cup Streaming
      /\ ~breach => ~file.complete
      /\ file' = [pieces |-> IF f[2] = 0 THEN file.pieces ELSE Put(file.pieces, f[1], f[2]),
                  complete |-> file.complete \/ f[3]]
  BY DEF ServerReceives, sourceVars, loopVars, lateVars, WriteInv, WriteTypeOK, MarkerInv, Whole
<1>2. /\ Len(wire) \in Nat \ {0} /\ wire' \in Frames /\ Len(wire') = Len(wire) - 1
      /\ \A i \in 1..Len(wire') : wire'[i] = wire[i + 1]
      /\ f = wire[1] /\ f \in Nat \X Nat \X BOOLEAN
      /\ Len(wire) = 1 => wire' = <<>>
  BY <1>1, TailFrame
<1>3. Pieces(wire) = Pieces(wire') \cup (IF f[2] = 0 THEN {} ELSE {<<f[1], f[2]>>})
  BY <1>1, TailPieces
<1> HIDE DEF f
<1>4. file'.pieces = file.pieces \cup (IF f[2] = 0 THEN {} ELSE {<<f[1], f[2]>>})
  <2>1. CASE f[2] = 0
    BY <1>1, <2>1
  <2>2. CASE f[2] # 0
    <3>1. <<f[1], f[2]>> \in Whole /\ file.pieces \subseteq Whole
      BY <1>3, <2>2 DEF WriteInv, PlaceInv
    <3>2. QED
      BY <1>1, <2>2, <3>1, PutInPlace
  <2>3. QED
    BY <2>1, <2>2
<1>5. file'.complete = (file.complete \/ f[3]) /\ file'.complete \in BOOLEAN
  BY <1>1, <1>2 DEF WriteInv, WriteTypeOK
<1>6. WriteTypeOK'
  BY <1>2, <1>5 DEF ServerReceives, sourceVars, loopVars, lateVars, WriteInv, WriteTypeOK
<1>7. LoopInv' /\ SentInv' /\ PullsInv'
  BY DEF ServerReceives, sourceVars, loopVars, WriteInv, LoopInv, SentInv, PullsInv
<1>8. PlaceInv'
  BY <1>1, <1>3, <1>4 DEF WriteInv, PlaceInv
<1>9. CoverInv'
  BY <1>1, <1>3, <1>4 DEF WriteInv, CoverInv
<1>10. MarkerInv'
  <2>1. f[3] => phase \notin Streaming
    BY <1>2 DEF WriteInv, MarkerInv
  <2>2. f[3] /\ ~breach => wire' = <<>> /\ file'.pieces = Whole
    <3>1. SUFFICES ASSUME f[3], ~breach
                   PROVE  wire' = <<>> /\ file'.pieces = Whole
      OBVIOUS
    <3>2. phase = "ack"
      BY <1>1, <2>1, <3>1
    <3>3. wire' = <<>>
      BY <1>2, <3>1, <3>2 DEF WriteInv, MarkerInv
    <3>4. sent = source.chunks
      BY <3>2 DEF WriteInv, SentInv
    <3>5. Upto(sent) = Whole
      BY <3>4 DEF Upto, Whole
    <3>6. Pieces(wire') = {}
      BY <3>3, NoPieces
    <3>7. Whole \subseteq file'.pieces
      BY <1>3, <1>4, <3>1, <3>2, <3>5, <3>6 DEF WriteInv, CoverInv
    <3>8. QED
      BY <1>1, <1>8, <3>3, <3>7 DEF PlaceInv
  <2>3. phase \in Streaming => \A i \in 1..Len(wire') : ~wire'[i][3]
    <3>1. SUFFICES ASSUME phase \in Streaming, NEW i \in 1..Len(wire')
                   PROVE  ~wire'[i][3]
      OBVIOUS
    <3>2. i + 1 \in 1..Len(wire) /\ wire'[i] = wire[i + 1]
      BY <1>2
    <3>3. QED
      BY <3>1, <3>2 DEF WriteInv, MarkerInv
  <2>4. phase = "ack" => \A i \in 1..Len(wire') : wire'[i][3] => i = Len(wire')
    <3>1. SUFFICES ASSUME phase = "ack", NEW i \in 1..Len(wire'), wire'[i][3]
                   PROVE  i = Len(wire')
      OBVIOUS
    <3>2. i + 1 \in 1..Len(wire) /\ wire'[i] = wire[i + 1]
      BY <1>2
    <3>3. i + 1 = Len(wire)
      BY <3>1, <3>2 DEF WriteInv, MarkerInv
    <3>4. QED
      BY <1>2, <3>3
  <2>5. phase \in Streaming => ~file'.complete
    BY <1>5, <2>1 DEF WriteInv, MarkerInv
  <2>6. QED
    BY <1>1, <1>5, <2>2, <2>3, <2>4, <2>5 DEF MarkerInv, Streaming
<1>11. OutcomeInv'
  BY <1>1, <1>5 DEF ServerReceives, sourceVars, loopVars, WriteInv, OutcomeInv, RetriedWhilePossible
<1>12. QED
  BY <1>6, <1>7, <1>8, <1>9, <1>10, <1>11 DEF WriteInv

\* A frame of a given-up attempt stores what the running one stores there too.
LEMMA LateFrameStores ==
    ASSUME WriteInv, LateFrame
    PROVE  /\ \E piece \in Whole : file'.pieces = file.pieces \cup {piece}
           /\ file'.complete = file.complete
<1>1. PICK piece \in late :
          file' = [pieces |-> Put(file.pieces, piece[1], piece[2]), complete |-> file.complete]
  BY DEF LateFrame
<1>2. piece \in Whole /\ piece = <<piece[1], piece[2]>>
  BY DEF WriteInv, PlaceInv, Whole
<1>3. Put(file.pieces, piece[1], piece[2]) = file.pieces \cup {piece}
  BY <1>2, PutInPlace DEF WriteInv, PlaceInv
<1>4. QED
  BY <1>1, <1>2, <1>3

LEMMA LateFrameKeeps ==
    ASSUME WriteInv, LateFrame
    PROVE  WriteInv'
<1>1. PICK piece \in Whole : file'.pieces = file.pieces \cup {piece}
  BY LateFrameStores
<1>2. /\ file'.complete = file.complete
      /\ UNCHANGED <<source, phase, sent, wire, late, breach>> /\ Whole' = Whole
  BY LateFrameStores DEF LateFrame, sourceVars, lateVars, Whole
<1>3. WriteTypeOK'
  BY <1>2 DEF LateFrame, sourceVars, loopVars, lateVars, WriteInv, WriteTypeOK
<1>4. LoopInv' /\ SentInv' /\ PullsInv'
  BY DEF LateFrame, sourceVars, loopVars, WriteInv, LoopInv, SentInv, PullsInv
<1>5. PlaceInv'
  BY <1>1, <1>2 DEF WriteInv, PlaceInv
<1>6. CoverInv'
  BY <1>1, <1>2 DEF WriteInv, CoverInv
<1>7. MarkerInv'
  BY <1>1, <1>2 DEF WriteInv, MarkerInv
<1>8. OutcomeInv'
  BY <1>2 DEF LateFrame, sourceVars, loopVars, WriteInv, OutcomeInv, RetriedWhilePossible
<1>9. QED
  BY <1>3, <1>4, <1>5, <1>6, <1>7, <1>8 DEF WriteInv

LEMMA LateStartKeeps ==
    ASSUME WriteInv, LateStart
    PROVE  WriteInv'
<1>1. /\ file'.pieces = {} /\ file'.complete = file.complete /\ breach' = TRUE
      /\ UNCHANGED <<source, phase, sent, wire, late>> /\ Whole' = Whole
  BY DEF LateStart, sourceVars, lateVars, Whole
<1>2. WriteTypeOK'
  BY <1>1 DEF LateStart, sourceVars, loopVars, lateVars, WriteInv, WriteTypeOK
<1>3. LoopInv' /\ SentInv' /\ PullsInv'
  BY DEF LateStart, sourceVars, loopVars, WriteInv, LoopInv, SentInv, PullsInv
<1>4. PlaceInv' /\ CoverInv'
  BY <1>1 DEF WriteInv, PlaceInv, CoverInv
<1>5. MarkerInv'
  BY <1>1 DEF WriteInv, MarkerInv
<1>6. OutcomeInv'
  BY <1>1 DEF LateStart, sourceVars, loopVars, WriteInv, OutcomeInv, RetriedWhilePossible
<1>7. QED
  BY <1>2, <1>3, <1>4, <1>5, <1>6 DEF WriteInv

\* The end of an attempt that settled: the chmod, success, or a failure.
LEMMA SettlesKeeps ==
    ASSUME WriteInv, SettledEarly \/ WriteSettles
    PROVE  WriteInv'
<1>1. /\ outcome = "none" /\ settled # "no" /\ AttemptEnds /\ UNCHANGED others
      /\ parent' = parent /\ parent \in BOOLEAN
  BY Running DEF SettledEarly, WriteSettles, Streaming, others, WriteInv, WriteTypeOK
<1>2. CASE settled = "ok"
  BY <1>1, <1>2, AttemptSucceedsKeeps DEF AttemptEnds
<1>3. CASE settled # "ok"
  <2>1. settled \in Kinds /\ AttemptFails(settled)
    BY <1>1, <1>3 DEF AttemptEnds, WriteInv, WriteTypeOK
  <2>2. QED
    BY <1>1, <2>1, AttemptFailsKeeps
<1>4. QED
  BY <1>2, <1>3

\* A missing parent directory: made once, or the end of the attempt.
LEMMA MissingParentKeeps ==
    ASSUME WriteInv, MissingParent
    PROVE  WriteInv'
<1>1. CASE madeParent
  <2>1. AttemptFails("failed") /\ UNCHANGED others /\ parent' \in BOOLEAN /\ outcome = "none"
    BY <1>1, Running DEF MissingParent, others, WriteInv, WriteTypeOK
  <2>2. QED
    BY <2>1, AttemptFailsKeeps DEF Kinds
<1>2. CASE ~madeParent
  <2>1. /\ phase = "start" /\ phase' = "mkdir" /\ UNCHANGED <<parent, retries, outcome>>
        /\ UNCHANGED <<wire, late, lateStart>> /\ UNCHANGED others
    BY <1>2 DEF MissingParent, others, lateVars
  <2>2. UNCHANGED <<file, source, breach>> /\ Whole' = Whole
    BY <2>1 DEF others, sourceVars, fileVars, Whole
  <2>3. WriteTypeOK'
    BY <2>1 DEF WriteInv, WriteTypeOK, Phases, others, sourceVars, loopVars, fileVars
  <2>4. LoopInv' /\ SentInv' /\ CoverInv' /\ PullsInv'
    BY <2>1 DEF WriteInv, LoopInv, SentInv, CoverInv, PullsInv, Streaming, others,
                sourceVars, loopVars
  <2>5. PlaceInv' /\ MarkerInv'
    BY <2>1, <2>2 DEF WriteInv, PlaceInv, MarkerInv, Streaming
  <2>6. OutcomeInv'
    BY <2>1, <2>2 DEF WriteInv, OutcomeInv, RetriedWhilePossible, others, loopVars
  <2>7. QED
    BY <2>3, <2>4, <2>5, <2>6 DEF WriteInv
<1>3. QED
  BY <1>1, <1>2

\* Every other way an attempt fails.
Failing ==
    \/ OkBeforeReady \/ SourceFails \/ Stall
    \/ \E kind \in Kinds : ConnectFails(kind) \/ HandshakeFails(kind)

LEMMA FailureForm ==
    ASSUME WriteInv, Failing
    PROVE  \E kind \in Kinds :
              /\ AttemptFails(kind) /\ UNCHANGED others /\ parent' \in BOOLEAN
              /\ phase \notin {"ack", "chmod", "ended"}
<1>1. parent \in BOOLEAN
  BY DEF WriteInv, WriteTypeOK
<1>2. CASE OkBeforeReady \/ SourceFails \/ Stall
  BY <1>1, <1>2 DEF OkBeforeReady, SourceFails, Stall, others, Kinds
<1>3. CASE \E kind \in Kinds : ConnectFails(kind) \/ HandshakeFails(kind)
  BY <1>1, <1>3 DEF ConnectFails, HandshakeFails, others
<1>4. QED
  BY <1>2, <1>3 DEF Failing

LEMMA FailureKeeps ==
    ASSUME WriteInv, Failing
    PROVE  WriteInv'
<1>1. PICK kind \in Kinds :
          /\ AttemptFails(kind) /\ UNCHANGED others /\ parent' \in BOOLEAN
          /\ phase \notin {"ack", "chmod", "ended"}
  BY FailureForm
<1>2. outcome = "none"
  BY <1>1, Running
<1>3. QED
  BY <1>1, <1>2, AttemptFailsKeeps

LEMMA NextKeeps ==
    ASSUME WriteInv, [Next]_vars
    PROVE  WriteInv'
<1>1. CASE Source
  BY <1>1, SourceYieldsKeeps, SourceEndsKeeps DEF Source
<1>2. CASE Loop
  BY <1>2, RetryDelayKeeps, ConnectKeeps, WriteReadyKeeps, MissingParentKeeps,
     MadeParentKeeps, FailureKeeps, PullKeeps, SettlesKeeps, SendKeeps, SendLastKeeps,
     ApplyModeKeeps DEF Loop, Failing
<1>3. CASE Failure
  <2>1. CASE \E kind \in Kinds : RequestFails(kind)
    BY <2>1, RequestFailsKeeps
  <2>2. CASE ~\E kind \in Kinds : RequestFails(kind)
    BY <1>3, <2>2, FailureKeeps DEF Failure, Failing
  <2>3. QED
    BY <2>1, <2>2
<1>4. CASE Heartbeat \/ Service
  BY <1>4, HeartbeatKeeps, ServerReceivesKeeps, LateFrameKeeps, LateStartKeeps, RecvOkKeeps
     DEF Service
<1>5. CASE UNCHANGED vars
  <2>1. /\ WriteTypeOK' = WriteTypeOK /\ LoopInv' = LoopInv /\ SentInv' = SentInv
        /\ PullsInv' = PullsInv /\ OutcomeInv' = OutcomeInv
    BY <1>5 DEF vars, sourceVars, loopVars, lateVars, fileVars, WriteTypeOK, LoopInv, SentInv,
                PullsInv, OutcomeInv, RetriedWhilePossible
  <2>2. PlaceInv' = PlaceInv /\ CoverInv' = CoverInv /\ MarkerInv' = MarkerInv
    BY <1>5 DEF vars, sourceVars, loopVars, lateVars, fileVars, PlaceInv, CoverInv, MarkerInv,
                Whole
  <2>3. QED
    BY <2>1, <2>2 DEF WriteInv
<1>6. QED
  BY <1>1, <1>2, <1>3, <1>4, <1>5 DEF Next

LEMMA AlwaysWriteInv == Spec => []WriteInv
BY InitEstablishes, NextKeeps, PTL DEF Spec

-----------------------------------------------------------------------------
(* What follows.                                                           *)

LEMMA InvariantImplies ==
    ASSUME WriteInv
    PROVE  WriteTypeOK /\ StoredWhenOk /\ ContentInPlace /\ RetriedWhilePossible
<1>1. StoredWhenOk
  BY DEF WriteInv, OutcomeInv, MarkerInv, StoredWhenOk
<1>2. ContentInPlace
  BY DEF WriteInv, PlaceInv, MarkerInv, ContentInPlace
<1>3. QED
  BY <1>1, <1>2 DEF WriteInv, OutcomeInv

\* The state keeps its types: write() of sandbox/files.ts counts and holds what the
\* model says it does, whatever the content and the budget.
THEOREM WriteTypes == Spec => []WriteTypeOK
BY AlwaysWriteInv, InvariantImplies, PTL

\* A write that resolves on a service that keeps to the protocol has stored the whole
\* content with nothing after its end marker: no `ok' before write_ready, no retry, no
\* frame that a given-up attempt left under way and no heartbeat makes write() of
\* core/files-ws-client.ts report a file that is not there. An `ok' ahead of the end
\* marker it does believe: that is the breach the statement excepts, with a late
\* write_start.
THEOREM SuccessIsStored == Spec => []StoredWhenOk
BY AlwaysWriteInv, InvariantImplies, PTL

\* Whatever arrives, and however late, streamUpload has sent each chunk to its own
\* place: the file never holds anything but chunks of the content where they belong,
\* and unless the service broke the protocol its end is marked only when all are there.
THEOREM StoredInPlace == Spec => []ContentInPlace
BY AlwaysWriteInv, InvariantImplies, PTL

\* canRetryWrite gives up on a lost connection only when the budget is spent or a
\* one-shot source has been pulled.
THEOREM GivesUpOnlyWhenSpent == Spec => []RetriedWhilePossible
BY AlwaysWriteInv, InvariantImplies, PTL

-----------------------------------------------------------------------------
(* An upload implements UploadContract.                                    *)

\* Nothing is sent before the source has been read from, and nothing is left under
\* way by an attempt unless it failed.
TakenInv ==
    /\ phase \in {"ack", "chmod"} \cup Streaming => consumed
    /\ wire # <<>> \/ late # {} => consumed
    /\ lateStart => retries > 0

\* What a step is to the caller.
Shown == Upload!Next \/ UNCHANGED Upload!vars

LEMMA StateForm ==
    /\ outcome = "none" /\ phase # "chmod" => StateShown = "writing"
    /\ outcome = "none" /\ phase = "chmod" => StateShown = "stored"
    /\ outcome = "ok" => StateShown = "done"
    /\ outcome \in {"failed", "lost", "unset"} => StateShown = "failed"
    /\ outcome' = "none" /\ phase' # "chmod" => StateShown' = "writing"
    /\ outcome' = "none" /\ phase' = "chmod" => StateShown' = "stored"
    /\ outcome' = "ok" => StateShown' = "done"
    /\ outcome' \in {"failed", "lost", "unset"} => StateShown' = "failed"
  BY DEF StateShown

LEMMA Unseen ==
    ASSUME UNCHANGED <<source, consumed, file, breach, retries>>, StateShown' = StateShown
    PROVE  Shown
  BY DEF Shown, Upload!vars, Whole

\* A step of the running attempt that is none of the service's, and not its end.
LEMMA QuietShows ==
    ASSUME WriteInv, TakenInv,
           UNCHANGED <<source, consumed, file, breach, retries, outcome, late, lateStart>>,
           phase \notin {"chmod", "ended"}, phase' # "chmod",
           phase' \in {"ack"} \cup Streaming => phase \in {"ack"} \cup Streaming,
           wire' = wire \/ phase \in Streaming
    PROVE  Shown /\ TakenInv'
<1>1. StateShown = "writing" /\ StateShown' = "writing"
  BY Running, StateForm
<1>2. TakenInv'
  BY DEF TakenInv, Streaming
<1>3. QED
  BY <1>1, <1>2, Unseen

\* The end of an attempt by a failure, retried or not.
LEMMA AttemptShows ==
    ASSUME WriteInv, TakenInv, phase \notin {"chmod", "ended"},
           NEW kind \in Kinds, AttemptFails(kind), UNCHANGED others
    PROVE  Shown /\ TakenInv'
<1>1. /\ UNCHANGED <<source, consumed, file, breach>> /\ retries' = retries + 1
      /\ outcome = "none" /\ StateShown = "writing" /\ retries \in Nat /\ MaxRetries \in Nat
      /\ wire' = <<>> /\ late' = late \cup Pieces(wire)
      /\ \/ CanRetry(kind) /\ phase' = "delay" /\ outcome' = "none"
         \/ /\ ~CanRetry(kind) /\ phase' = "ended"
            /\ outcome' = IF Transient(kind) THEN "lost" ELSE "failed"
  BY Running, StateForm, BoundsAssumption
     DEF AttemptFails, WriteInv, WriteTypeOK, others, sourceVars, loopVars, fileVars
<1>2. TakenInv'
  BY <1>1, NoPieces DEF TakenInv, Streaming
<1>3. Whole' = Whole
  BY <1>1 DEF Whole
<1>4. CASE Transient(kind)
  <2>1. CanRetry(kind) <=> Upload!CanBeSent /\ retries < MaxRetries
    BY <1>1, <1>4 DEF CanRetry, Upload!CanBeSent
  <2>2. StateShown' = IF Upload!CanBeSent /\ retries < MaxRetries THEN "writing" ELSE "failed"
    BY <1>1, <1>4, <2>1, StateForm
  <2>3. Upload!Lose
    BY <1>1, <1>3, <2>2 DEF Upload!Lose
  <2>4. QED
    BY <1>2, <2>3 DEF Shown, Upload!Next
<1>5. CASE ~Transient(kind)
  <2>1. StateShown' = "failed"
    BY <1>1, <1>5, StateForm DEF CanRetry
  <2>2. Upload!Refuse
    BY <1>1, <1>3, <2>1 DEF Upload!Refuse
  <2>3. QED
    BY <1>2, <2>2 DEF Shown, Upload!Next
<1>6. QED
  BY <1>4, <1>5

LEMMA WriteReadyShows ==
    ASSUME WriteInv, TakenInv, WriteReady
    PROVE  Shown /\ TakenInv'
<1>1. /\ phase = "start" /\ phase' = "ready" /\ file' = [pieces |-> {}, complete |-> FALSE]
      /\ breach' = FALSE
      /\ UNCHANGED <<source, consumed, retries, outcome, wire, late, lateStart>>
  BY DEF WriteReady, sourceVars, loopVars, lateVars
<1>2. TakenInv'
  BY <1>1 DEF TakenInv, Streaming
<1>3. StateShown = "writing" /\ StateShown' = "writing"
  BY <1>1, Running, StateForm
<1>4. Upload!CanBeSent
  BY <1>1 DEF WriteInv, PullsInv, Upload!CanBeSent
<1>5. Upload!Truncate
  BY <1>1, <1>3, <1>4 DEF Upload!Truncate, Whole
<1>6. QED
  BY <1>2, <1>5 DEF Shown, Upload!Next

LEMMA PullShows ==
    ASSUME WriteInv, TakenInv, Pull
    PROVE  Shown /\ TakenInv'
<1>1. /\ phase = "ready" /\ phase' = "pull" /\ consumed' = TRUE
      /\ UNCHANGED <<source, file, breach, retries, outcome, wire, late, lateStart>>
  BY DEF Pull, sourceVars, fileVars, lateVars
<1>2. TakenInv'
  BY <1>1 DEF TakenInv
<1>3. StateShown = "writing" /\ StateShown' = "writing"
  BY <1>1, Running, StateForm
<1>4. Upload!Take
  BY <1>1, <1>3 DEF Upload!Take, Whole
<1>5. QED
  BY <1>2, <1>4 DEF Shown, Upload!Next

LEMMA MissingParentShows ==
    ASSUME WriteInv, TakenInv, MissingParent
    PROVE  Shown /\ TakenInv'
<1>1. phase = "start" /\ UNCHANGED others
  BY DEF MissingParent, others
<1>2. CASE madeParent
  BY <1>1, <1>2, AttemptShows DEF MissingParent, Kinds
<1>3. CASE ~madeParent
  <2>1. /\ phase' = "mkdir" /\ wire' = wire
        /\ UNCHANGED <<source, consumed, file, breach, retries, outcome, late, lateStart>>
    BY <1>1, <1>3 DEF MissingParent, others, sourceVars, loopVars, fileVars, lateVars
  <2>2. QED
    BY <1>1, <2>1, QuietShows DEF Streaming
<1>4. QED
  BY <1>2, <1>3

LEMMA SettlesShows ==
    ASSUME WriteInv, TakenInv, SettledEarly \/ WriteSettles
    PROVE  Shown /\ TakenInv'
<1>1. /\ phase \in {"ack"} \cup Streaming /\ settled # "no" /\ AttemptEnds /\ UNCHANGED others
  BY DEF SettledEarly, WriteSettles, others
<1>2. phase \notin {"chmod", "ended"}
  BY <1>1 DEF Streaming
<1>3. CASE settled # "ok"
  <2>1. settled \in Kinds /\ AttemptFails(settled)
    BY <1>1, <1>3 DEF AttemptEnds, WriteInv, WriteTypeOK
  <2>2. QED
    BY <1>1, <1>2, <2>1, AttemptShows
<1>4. CASE settled = "ok"
  <2>1. /\ consumed = TRUE /\ (file.complete \/ breach)
        /\ UNCHANGED <<source, consumed, file, breach, retries, wire, late, lateStart>>
        /\ \/ phase' = "chmod" /\ outcome' = outcome
           \/ phase' = "ended" /\ outcome' = "ok"
    BY <1>1, <1>4 DEF AttemptEnds, AttemptSucceeds, WriteInv, WriteTypeOK, OutcomeInv, TakenInv,
                      others, sourceVars, loopVars, fileVars, lateVars
  <2>2. StateShown = "writing" /\ StateShown' \in {"stored", "done"}
    BY <1>2, <2>1, Running, StateForm
  <2>3. Upload!Succeed
    BY <2>1, <2>2 DEF Upload!Succeed, Whole
  <2>4. TakenInv'
    BY <2>1 DEF TakenInv
  <2>5. QED
    BY <2>3, <2>4 DEF Shown, Upload!Next
<1>5. QED
  BY <1>3, <1>4

LEMMA ApplyModeShows ==
    ASSUME WriteInv, TakenInv, ApplyMode
    PROVE  Shown /\ TakenInv'
<1>1. /\ phase = "chmod" /\ phase' = "ended" /\ outcome' \in {"ok", "unset"}
      /\ UNCHANGED <<source, consumed, file, breach, retries, wire, late, lateStart>>
  BY DEF ApplyMode, sourceVars, loopVars, fileVars, lateVars
<1>2. StateShown = "stored" /\ StateShown' \in {"done", "failed"}
  BY <1>1, Running, StateForm
<1>3. TakenInv'
  BY <1>1 DEF TakenInv, Streaming
<1>4. Upload!ApplyMode
  BY <1>1, <1>2 DEF Upload!ApplyMode, Whole
<1>5. QED
  BY <1>3, <1>4 DEF Shown, Upload!Next

\* The service takes a frame: an empty one, a chunk, or the end marker.
LEMMA ServerReceivesShows ==
    ASSUME WriteInv, WriteInv', TakenInv, ServerReceives
    PROVE  Shown /\ TakenInv'
<1> DEFINE f == Head(wire)
<1>1. /\ wire # <<>> /\ wire \in Frames
      /\ UNCHANGED <<source, phase, consumed, retries, outcome, breach, late, lateStart>>
      /\ file' = [pieces |-> IF f[2] = 0 THEN file.pieces ELSE Put(file.pieces, f[1], f[2]),
                  complete |-> file.complete \/ f[3]]
  BY DEF ServerReceives, sourceVars, loopVars, lateVars, WriteInv, WriteTypeOK
<1>2. consumed = TRUE
  BY <1>1 DEF TakenInv, WriteInv, WriteTypeOK
<1>3. StateShown' = StateShown /\ Whole' = Whole
  BY <1>1 DEF StateShown, Whole
<1>4. TakenInv'
  BY <1>1, <1>2 DEF TakenInv
<1>5. f[2] # 0 => <<f[1], f[2]>> \in Whole
  BY <1>1, TailPieces DEF WriteInv, PlaceInv
<1> HIDE DEF f
<1>6. file'.pieces \in {file.pieces} \cup {file.pieces \cup {piece} : piece \in Whole}
  BY <1>1, <1>5, PutInPlace DEF WriteInv, PlaceInv
<1>7. file'.complete \in {file.complete, TRUE} /\ file'.complete \in BOOLEAN
  BY <1>1 DEF WriteInv, WriteTypeOK
<1>8. file'.complete => breach \/ file'.pieces = Whole
  BY <1>1, <1>3 DEF WriteInv, MarkerInv
<1>9. Upload!Store
  BY <1>1, <1>2, <1>3, <1>6, <1>7, <1>8 DEF Upload!Store
<1>10. QED
  BY <1>4, <1>9 DEF Shown, Upload!Next

LEMMA LateFrameShows ==
    ASSUME WriteInv, TakenInv, LateFrame
    PROVE  Shown /\ TakenInv'
<1>1. PICK piece \in Whole : file'.pieces = file.pieces \cup {piece}
  BY LateFrameStores
<1>2. /\ file'.complete = file.complete
      /\ UNCHANGED <<source, phase, consumed, retries, outcome, breach, wire, late, lateStart>>
  BY LateFrameStores DEF LateFrame, sourceVars, loopVars, lateVars
<1>3. consumed = TRUE
  BY DEF LateFrame, TakenInv, WriteInv, WriteTypeOK
<1>4. StateShown' = StateShown /\ Whole' = Whole
  BY <1>2 DEF StateShown, Whole
<1>5. TakenInv'
  BY <1>2 DEF TakenInv
<1>6. file.complete => breach \/ file'.pieces = Whole
  BY <1>1 DEF WriteInv, MarkerInv
<1>7. Upload!Store
  BY <1>1, <1>2, <1>3, <1>4, <1>6 DEF Upload!Store
<1>8. QED
  BY <1>5, <1>7 DEF Shown, Upload!Next

LEMMA LateStartShows ==
    ASSUME WriteInv, TakenInv, LateStart
    PROVE  Shown /\ TakenInv'
<1>1. /\ file'.pieces = {} /\ file'.complete = file.complete /\ breach' = TRUE /\ lateStart
      /\ UNCHANGED <<source, phase, consumed, retries, outcome, wire, late, lateStart>>
  BY DEF LateStart, sourceVars, loopVars, lateVars
<1>2. StateShown' = StateShown /\ Whole' = Whole
  BY <1>1 DEF StateShown, Whole
<1>3. TakenInv'
  BY <1>1 DEF TakenInv
<1>4. Upload!EmptyLate
  BY <1>1, <1>2 DEF Upload!EmptyLate, TakenInv
<1>5. QED
  BY <1>3, <1>4 DEF Shown, Upload!Next

LEMMA RecvOkShows ==
    ASSUME WriteInv, TakenInv, RecvOk
    PROVE  Shown /\ TakenInv'
<1>1. /\ phase \in {"ready", "ack"} \cup Streaming /\ breach' = (breach \/ ~file.complete)
      /\ UNCHANGED <<source, phase, consumed, retries, outcome, wire, late, lateStart, file>>
  BY DEF RecvOk, sourceVars, loopVars, lateVars
<1>2. StateShown = "writing" /\ StateShown' = "writing" /\ Whole' = Whole
  BY <1>1, Running, StateForm DEF Streaming, Whole
<1>3. TakenInv'
  BY <1>1 DEF TakenInv
<1>4. CASE file.complete
  <2>1. breach' = breach
    BY <1>1, <1>4 DEF WriteInv, WriteTypeOK
  <2>2. QED
    BY <1>1, <1>2, <1>3, <2>1, Unseen
<1>5. CASE ~file.complete
  <2>1. Upload!AcknowledgeEarly
    BY <1>1, <1>2, <1>5 DEF Upload!AcknowledgeEarly
  <2>2. QED
    BY <1>3, <2>1 DEF Shown, Upload!Next
<1>6. QED
  BY <1>4, <1>5

LEMMA FailureShows ==
    ASSUME WriteInv, TakenInv, Failing
    PROVE  Shown /\ TakenInv'
<1>1. PICK kind \in Kinds :
          /\ AttemptFails(kind) /\ UNCHANGED others /\ parent' \in BOOLEAN
          /\ phase \notin {"ack", "chmod", "ended"}
  BY FailureForm
<1>2. QED
  BY <1>1, AttemptShows

LEMMA QuietSteps ==
    ASSUME WriteInv, TakenInv,
           \/ RetryDelay \/ Connect \/ MadeParent \/ SourceYields \/ SourceEnds
           \/ Send \/ SendLast \/ Heartbeat
           \/ \E kind \in Kinds : RequestFails(kind)
    PROVE  Shown /\ TakenInv'
<1>1. /\ UNCHANGED <<source, consumed, file, breach, retries, outcome, late, lateStart>>
      /\ phase \notin {"chmod", "ended"} /\ phase' # "chmod"
      /\ phase' \in {"ack"} \cup Streaming => phase \in {"ack"} \cup Streaming
      /\ wire' = wire \/ phase \in Streaming
  <2>1. CASE RetryDelay \/ Connect \/ MadeParent
    BY <2>1 DEF RetryDelay, Connect, MadeParent, sourceVars, loopVars, lateVars, fileVars, Streaming
  <2>2. CASE SourceYields \/ SourceEnds
    BY <2>2 DEF SourceYields, SourceEnds, sourceVars, loopVars, lateVars, fileVars, Streaming
  <2>3. CASE Send \/ SendLast \/ Heartbeat
    BY <2>3 DEF Send, SendLast, Heartbeat, sourceVars, loopVars, lateVars, fileVars, Streaming
  <2>4. CASE \E kind \in Kinds : RequestFails(kind)
    BY <2>4 DEF RequestFails, sourceVars, loopVars, lateVars, fileVars, Streaming
  <2>5. QED
    BY <2>1, <2>2, <2>3, <2>4
<1>2. QED
  BY <1>1, QuietShows

LEMMA StepShows ==
    ASSUME WriteInv, TakenInv, [Next]_vars
    PROVE  Shown /\ TakenInv'
<1>0. WriteInv'
  BY NextKeeps
<1>1. CASE Source
  BY <1>1, QuietSteps DEF Source
<1>2. CASE Loop
  BY <1>2, QuietSteps, WriteReadyShows, MissingParentShows, FailureShows, PullShows,
     SettlesShows, ApplyModeShows DEF Loop, Failing
<1>3. CASE Failure
  <2>1. CASE \E kind \in Kinds : RequestFails(kind)
    BY <2>1, QuietSteps
  <2>2. CASE ~\E kind \in Kinds : RequestFails(kind)
    BY <1>3, <2>2, FailureShows DEF Failure, Failing
  <2>3. QED
    BY <2>1, <2>2
<1>4. CASE Heartbeat
  BY <1>4, QuietSteps
<1>5. CASE Service
  BY <1>0, <1>5, ServerReceivesShows, LateFrameShows, LateStartShows, RecvOkShows DEF Service
<1>6. CASE UNCHANGED vars
  <2>1. UNCHANGED <<source, consumed, file, breach, retries, outcome, phase, wire, late, lateStart>>
    BY <1>6 DEF vars, sourceVars, loopVars, fileVars, lateVars
  <2>2. StateShown' = StateShown
    BY <2>1 DEF StateShown
  <2>3. TakenInv'
    BY <2>1 DEF TakenInv
  <2>4. QED
    BY <2>1, <2>2, <2>3, Unseen
<1>7. QED
  BY <1>1, <1>2, <1>3, <1>4, <1>5, <1>6 DEF Next

LEMMA InitShows ==
    ASSUME Init
    PROVE  TakenInv /\ Upload!Init
<1>1. /\ source \in [chunks: 0..MaxChunks, replayable: BOOLEAN] /\ consumed = FALSE
      /\ file = [pieces |-> {}, complete |-> FALSE] /\ breach = FALSE /\ retries = 0
      /\ phase = "connect" /\ outcome = "none" /\ wire = <<>> /\ late = {} /\ ~lateStart
  BY DEF Init
<1>2. Whole \in {{<<k, k>> : k \in 1..n} : n \in 0..MaxChunks}
  BY <1>1 DEF Whole
<1>3. StateShown = "writing"
  BY <1>1, StateForm
<1>4. TakenInv
  BY <1>1 DEF TakenInv, Streaming
<1>5. QED
  BY <1>1, <1>2, <1>3, <1>4 DEF Upload!Init

\* Every step of an upload is one that UploadContract allows or unseen by the caller:
\* what is tried again, emptied, stored and taken for success is just what may be, over
\* any losses, early acknowledgements and late arrivals (files-transfer.ts:58,
\* files-ws-client.ts:366).
THEOREM UploadKeepsContract == Spec => UploadHolds
<1>1. Init => TakenInv /\ Upload!Init
  BY InitShows
<1>2. WriteInv /\ TakenInv /\ [Next]_vars => [Upload!Next]_(Upload!vars) /\ TakenInv'
  BY StepShows DEF Shown
<1>3. QED
  BY AlwaysWriteInv, <1>1, <1>2, PTL DEF Spec, UploadHolds, Upload!Spec
=============================================================================
