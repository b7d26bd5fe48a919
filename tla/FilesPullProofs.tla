--------------------------- MODULE FilesPullProofs ---------------------------
(***************************************************************************)
(* Downloads, for every size of file and segment, every retry budget and   *)
(* every set of read options: the caller gets the bytes asked for, once    *)
(* and in order; at most a segment waits for a slow consumer; no lease is  *)
(* kept; a read gives up only when the budget is spent at one place; a     *)
(* cancelled one delivers and requests nothing more; and all of it is what  *)
(* DownloadContract allows.                                                *)
(***************************************************************************)
EXTENDS FilesPull, SequenceTheorems, TLAPS

\* The m positions from f on.
Ramp(f, m) == [k \in 1..m |-> f + k - 1]

\* One past the last position wanted.
Stop == LastWanted + 1

\* An end of the range that stops the loop neither too early nor, when the file is
\* longer, too late.
EndOK(end) == end \in Nat /\ Stop <= end /\ (Size <= Stop \/ end <= Stop)

OutInv ==
    /\ out = Ramp(FirstWanted, Len(out))
    /\ Len(out) = 0 \/ FirstWanted + Len(out) <= Stop

\* Where the loop is, against what the caller has: the same place, until the
\* consumer cancels.
PositionInv ==
    /\ Resolved => /\ EndOK(range.end)
                   /\ ~aborted => range.position = FirstWanted + Len(out)
    /\ ~Resolved => out = <<>> /\ phase \in {"connect", "stat", "delay", "ended"}
    /\ phase = "stat" => request.fromEnd /\ ~Resolved
    /\ phase \in {"capacity", "segment"} => range.position < range.end
    /\ phase = "read" => range.position + (want - received) <= range.end

QueueInv ==
    /\ aborted => queued = 0
    /\ request.stream =>
          /\ queued <= MaxSegment
          /\ phase = "segment" => queued = 0
          /\ phase = "read" => queued <= received

EndInv ==
    /\ outcome # "none" => phase = "ended"
    /\ outcome = "done" => aborted \/ out = Wanted

RetryInv ==
    /\ phase # "ended" => retries <= MaxRetries /\ retries <= lostAt[Len(out)]
    /\ GivesUpLate

PullInv ==
    TypeOK /\ OutInv /\ PositionInv /\ QueueInv /\ LeaseReturned /\ EndInv /\ RetryInv

-----------------------------------------------------------------------------
(* Data.                                                                   *)

LEMMA MaxOfTwo ==
    ASSUME NEW a \in Int, NEW b \in Int
    PROVE  Max({a, b}) = IF a >= b THEN a ELSE b
<1>1. CASE a >= b
  BY <1>1 DEF Max
<1>2. CASE ~(a >= b)
  BY <1>2 DEF Max
<1>3. QED
  BY <1>1, <1>2

LEMMA MinOfTwo ==
    ASSUME NEW a \in Int, NEW b \in Int
    PROVE  Min({a, b}) = IF a <= b THEN a ELSE b
<1>1. CASE a <= b
  BY <1>1 DEF Min
<1>2. CASE ~(a <= b)
  BY <1>2 DEF Min
<1>3. QED
  BY <1>1, <1>2

LEMMA RampForm ==
    ASSUME NEW f \in Nat, NEW m \in Nat
    PROVE  Ramp(f, m) \in Seq(Nat) /\ Len(Ramp(f, m)) = m
<1>1. \A k \in 1..m : f + k - 1 \in Nat
  OBVIOUS
<1>2. QED
  BY <1>1 DEF Ramp

LEMMA RampTyped ==
    ASSUME NEW f \in Nat, NEW m \in Nat, NEW S, \A k \in 1..m : f + k - 1 \in S
    PROVE  Ramp(f, m) \in Seq(S)
  BY DEF Ramp

LEMMA RampGrows ==
    ASSUME NEW f \in Nat, NEW m \in Nat, NEW n \in Nat
    PROVE  Ramp(f, m) \o Ramp(f + m, n) = Ramp(f, m + n)
<1> DEFINE s == Ramp(f, m)
           t == Ramp(f + m, n)
           u == Ramp(f, m + n)
<1>1. /\ s \in Seq(Nat) /\ t \in Seq(Nat) /\ u \in Seq(Nat)
      /\ Len(s) = m /\ Len(t) = n /\ Len(u) = m + n
  BY RampForm, m + n \in Nat, f + m \in Nat
<1>2. /\ \A k \in 1..m : s[k] = f + k - 1
      /\ \A k \in 1..n : t[k] = f + m + k - 1
      /\ \A k \in 1..(m + n) : u[k] = f + k - 1
  BY DEF Ramp
<1> HIDE DEF s, t, u
<1>3. /\ s \o t \in Seq(Nat) /\ Len(s \o t) = m + n
      /\ \A k \in 1..(m + n) : (s \o t)[k] = IF k <= m THEN s[k] ELSE t[k - m]
  BY <1>1, ConcatProperties
<1>4. ASSUME NEW k \in 1..(m + n)
      PROVE  (s \o t)[k] = u[k]
  <2>1. CASE k <= m
    BY <2>1, <1>2, <1>3
  <2>2. CASE ~(k <= m)
    <3>1. k - m \in 1..n
      BY <2>2
    <3>2. t[k - m] = f + m + (k - m) - 1
      BY <3>1, <1>2
    <3>3. QED
      BY <2>2, <3>1, <3>2, <1>2, <1>3
  <2>3. QED
    BY <2>1, <2>2
<1>5. s \o t = u
  BY <1>1, <1>3, <1>4, SeqEqual
<1>6. QED
  BY <1>5 DEF s, t, u

LEMMA RampPrefix ==
    ASSUME NEW f \in Nat, NEW m \in Nat, NEW l \in Nat, m <= l
    PROVE  IsPrefix(Ramp(f, m), Ramp(f, l))
<1>1. Len(Ramp(f, m)) = m /\ Len(Ramp(f, l)) = l
  BY RampForm
<1>2. SubSeq(Ramp(f, m), 1, m) = SubSeq(Ramp(f, l), 1, m)
  BY <1>1 DEF Ramp
<1>3. QED
  BY <1>1, <1>2 DEF IsPrefix

\* What the options ask for, as an interval of positions.
LEMMA WantedForm ==
    ASSUME request \in Requests
    PROVE  /\ FirstWanted \in Nat
           /\ Stop \in Int /\ Stop <= Size
           /\ Wanted = Ramp(FirstWanted, IF Stop > FirstWanted THEN Stop - FirstWanted ELSE 0)
<1>1. /\ request.start \in 0..Size + 1 /\ request.length \in 0..Size + 1
      /\ request.fromEnd \in BOOLEAN /\ request.stream \in BOOLEAN
  BY RequestsAssumption DEF ValidRequests, RequestType
<1>2. Size \in Nat
  BY BoundsAssumption
<1>3. FirstWanted \in Nat
  <2>1. Max({0, Size - request.length}) \in Nat
    BY <1>1, <1>2, MaxOfTwo
  <2>2. QED
    BY <2>1, <1>1 DEF FirstWanted
<1>4. LastWanted \in Int /\ LastWanted <= Size - 1
  <2>1. request.start + request.length \in Int
    BY <1>1, <1>2
  <2>2. Min({Size, request.start + request.length}) \in Int
        /\ Min({Size, request.start + request.length}) <= Size
    BY <1>2, <2>1, MinOfTwo
  <2>3. QED
    BY <2>2, <1>2 DEF LastWanted
<1>5. Max({0, LastWanted - FirstWanted + 1}) = IF Stop > FirstWanted THEN Stop - FirstWanted ELSE 0
  <2>1. LastWanted - FirstWanted + 1 \in Int
    BY <1>3, <1>4
  <2>2. QED
    BY <2>1, <1>3, <1>4, MaxOfTwo DEF Stop
<1>6. QED
  BY <1>2, <1>3, <1>4, <1>5 DEF Stop, Wanted, Ramp

\* resolveRange() begins where the caller wants and ends well.
LEMMA RangesBegin ==
    ASSUME request \in Requests
    PROVE  /\ request.fromEnd => TailRange.position = FirstWanted /\ EndOK(TailRange.end)
           /\ ~request.fromEnd => PlainRange.position = FirstWanted /\ EndOK(PlainRange.end)
<1>1. /\ request.start \in 0..Size + 1 /\ request.length \in 0..Size + 1
      /\ request.fromEnd \in BOOLEAN
  BY RequestsAssumption DEF ValidRequests, RequestType
<1>2. Size \in Nat /\ MaxSegment \in Nat
  BY BoundsAssumption
<1>3. ASSUME request.fromEnd
      PROVE  TailRange.position = FirstWanted /\ EndOK(TailRange.end)
  BY <1>2, <1>3 DEF TailRange, FirstWanted, EndOK, Stop, LastWanted
<1>4. ASSUME ~request.fromEnd, request.length = NoLength
      PROVE  PlainRange.position = FirstWanted /\ EndOK(PlainRange.end)
  BY <1>2, <1>4 DEF PlainRange, FirstWanted, EndOK, Stop, LastWanted, Infinity
<1>5. ASSUME ~request.fromEnd, request.length # NoLength
      PROVE  PlainRange.position = FirstWanted /\ EndOK(PlainRange.end)
  <2>1. request.start + request.length \in Nat
    BY <1>1, <1>2
  <2>2. Stop = IF Size <= request.start + request.length THEN Size
               ELSE request.start + request.length
    BY <1>5, <1>2, <2>1, MinOfTwo DEF Stop, LastWanted
  <2>3. QED
    BY <1>1, <1>2, <1>5, <2>1, <2>2 DEF PlainRange, FirstWanted, EndOK
<1>6. QED
  BY <1>3, <1>4, <1>5

-----------------------------------------------------------------------------
(* Steps.                                                                  *)

\* The options do not change, nor what they ask for.
LEMMA Still ==
    ASSUME request' = request
    PROVE  /\ FirstWanted' = FirstWanted /\ Stop' = Stop /\ Wanted' = Wanted
           /\ EndOK(range.end)' = EndOK(range'.end)
  BY DEF FirstWanted, LastWanted, Stop, Wanted, EndOK

\* The loop may stop once nothing wanted is left.
LEMMA Complete ==
    ASSUME request \in Requests, NEW o \in Seq(0..Size - 1),
           o = Ramp(FirstWanted, Len(o)),
           Len(o) = 0 \/ FirstWanted + Len(o) <= Stop, FirstWanted + Len(o) >= Stop
    PROVE  o = Wanted
<1>1. Len(o) \in Nat /\ FirstWanted \in Nat /\ Stop \in Int
  BY WantedForm, LenProperties
<1>2. Len(o) = IF Stop > FirstWanted THEN Stop - FirstWanted ELSE 0
  BY <1>1
<1>3. QED
  BY <1>2, WantedForm

\* n bytes are delivered from where the caller is.
LEMMA Extend ==
    ASSUME request \in Requests, out \in Seq(0..Size - 1), OutInv,
           NEW n \in Nat, NEW p, p = FirstWanted + Len(out),
           n = 0 \/ p + n <= Stop,
           request' = request, out' = out \o [k \in 1..n |-> p + k - 1]
    PROVE  /\ OutInv' /\ out' \in Seq(0..Size - 1)
           /\ Len(out') = Len(out) + n
<1>1. Len(out) \in Nat /\ FirstWanted \in Nat /\ Stop \in Int /\ Stop <= Size /\ Size \in Nat
  BY WantedForm, LenProperties, BoundsAssumption
<1>2. out' = Ramp(FirstWanted, Len(out)) \o Ramp(FirstWanted + Len(out), n)
  BY DEF OutInv, Ramp
<1>3. out' = Ramp(FirstWanted, Len(out) + n)
  BY <1>1, <1>2, RampGrows
<1>4. Len(out') = Len(out) + n
  BY <1>1, <1>3, RampForm, Len(out) + n \in Nat
<1>5. Len(out') = 0 \/ FirstWanted + Len(out') <= Stop
  BY <1>1, <1>4 DEF OutInv
<1>6. OutInv'
  BY <1>3, <1>4, <1>5, Still DEF OutInv
<1>7. out' \in Seq(0..Size - 1)
  <2>1. \A k \in 1..(Len(out) + n) : FirstWanted + k - 1 \in 0..Size - 1
    BY <1>1, <1>4, <1>5
  <2>2. Len(out) + n \in Nat
    BY <1>1
  <2>3. QED
    BY <1>1, <1>3, <2>1, <2>2, RampTyped
<1>8. QED
  BY <1>4, <1>6, <1>7

\* What follows from the ending of a step: it returns with all that was wanted, or
\* goes on for the next segment.
LEMMA NextSegmentForm ==
    ASSUME NEW r, NEW n, NextSegment(r, n)
    PROVE  \/ /\ r.position >= r.end
              /\ phase' = "ended" /\ outcome' = "done" /\ leased' = FALSE
           \/ /\ ~(r.position >= r.end)
              /\ phase' \in {"segment", "capacity"}
              /\ phase' = "segment" /\ request.stream => n = 0
              /\ outcome' = outcome /\ leased' = leased
  BY DEF NextSegment, Return, HasCapacity

LEMMA PullInit == Init => PullInv
<1> SUFFICES ASSUME Init PROVE PullInv
  OBVIOUS
<1>1. Size \in Nat /\ MaxSegment \in Nat \ {0} /\ MaxRetries \in Nat
  BY BoundsAssumption
<1>2. FirstWanted \in Nat /\ Stop \in Int
  BY WantedForm DEF Init
<1>3. Len(out) = 0 /\ ~Resolved
  BY DEF Init, Resolved
<1>4. TypeOK
  BY <1>1 DEF Init, TypeOK, Unresolved
<1>5. OutInv
  BY <1>2, <1>3 DEF Init, OutInv, Ramp
<1>6. PositionInv
  BY <1>3 DEF Init, PositionInv
<1>7. QueueInv /\ LeaseReturned /\ EndInv /\ RetryInv
  BY <1>1, <1>3 DEF Init, QueueInv, LeaseReturned, EndInv, RetryInv, GivesUpLate
<1>8. QED
  BY <1>4, <1>5, <1>6, <1>7 DEF PullInv

\* Steps that deliver nothing and meet no failure.
LEMMA OutStays ==
    ASSUME PullInv, UNCHANGED <<request, out, lostAt>>
    PROVE  OutInv' /\ out' \in Seq(0..Size - 1)
           /\ lostAt' \in [0..Size -> Nat] /\ Len(out)' = Len(out)
  BY Still DEF PullInv, OutInv, TypeOK

LEMMA Bounds ==
    /\ Size \in Nat /\ MaxSegment \in Nat /\ MaxSegment > 0 /\ MaxRetries \in Nat
    /\ Infinity \in Nat /\ Infinity >= Size
  BY BoundsAssumption DEF Infinity

LEMMA Options ==
    ASSUME request \in Requests
    PROVE  request.stream \in BOOLEAN /\ request.fromEnd \in BOOLEAN
  BY RequestsAssumption DEF ValidRequests, RequestType

LEMMA RangeTypes ==
    ASSUME request \in Requests
    PROVE  /\ request.fromEnd => TailRange \in [position: Nat, end: Nat]
           /\ ~request.fromEnd => PlainRange \in [position: Nat, end: Nat]
  BY RangesBegin, WantedForm DEF TailRange, PlainRange, EndOK

\* The range of a read is known for good once it is known.
LEMMA ResolvedForms ==
    ASSUME NEW r \in [position: Nat, end: Nat]
    PROVE  r # Unresolved
  BY DEF Unresolved

LEMMA ConnectedStep == PullInv /\ Connected => PullInv'
<1> SUFFICES ASSUME PullInv, Connected PROVE PullInv'
  OBVIOUS
<1>0. UNCHANGED <<request, want, received, retries, queued, aborted, out, lostAt>>
      /\ phase = "connect" /\ TypeOK /\ request \in Requests
  BY DEF Connected, PullInv, TypeOK, segmentVars
<1>1. OutInv' /\ out' \in Seq(0..Size - 1)
      /\ lostAt' \in [0..Size -> Nat] /\ Len(out)' = Len(out)
  BY <1>0, OutStays
<1>2. CASE aborted
  <2>1. Return /\ range' = range
    BY <1>2 DEF Connected
  <2>2. TypeOK'
    BY <1>0, <1>1, <2>1 DEF TypeOK, Return
  <2>3. PositionInv'
    BY <1>0, <1>1, <1>2, <2>1, Still DEF PullInv, PositionInv, Return, Resolved
  <2>4. QueueInv' /\ LeaseReturned' /\ EndInv' /\ RetryInv'
    BY <1>0, <1>1, <1>2, <2>1, Still
       DEF PullInv, QueueInv, LeaseReturned, EndInv, RetryInv, GivesUpLate, Return
  <2>5. QED
    BY <1>1, <2>2, <2>3, <2>4 DEF PullInv
<1>3. CASE ~aborted /\ request.fromEnd /\ ~Resolved
  <2>1. phase' = "stat" /\ leased' = TRUE /\ UNCHANGED <<range, outcome>>
    BY <1>3 DEF Connected
  <2>2. TypeOK'
    BY <1>0, <1>1, <2>1 DEF TypeOK
  <2>3. PositionInv'
    BY <1>0, <1>1, <1>3, <2>1, Still DEF PullInv, PositionInv, Resolved
  <2>4. QueueInv' /\ LeaseReturned' /\ EndInv' /\ RetryInv'
    BY <1>0, <1>1, <1>3, <2>1, Still
       DEF PullInv, QueueInv, LeaseReturned, EndInv, RetryInv, GivesUpLate
  <2>5. QED
    BY <1>1, <2>2, <2>3, <2>4 DEF PullInv
<1>4. CASE ~aborted /\ ~(request.fromEnd /\ ~Resolved)
  <2>1. /\ range' = IF Resolved THEN range ELSE PlainRange
        /\ \/ /\ range'.position >= range'.end
              /\ phase' = "ended" /\ outcome' = "done" /\ leased' = FALSE
           \/ /\ ~(range'.position >= range'.end)
              /\ phase' \in {"segment", "capacity"}
              /\ phase' = "segment" /\ request.stream => queued = 0
              /\ leased' = TRUE /\ outcome' = outcome
    BY <1>4 DEF Connected, Return, HasCapacity
  <2>2. /\ range' \in [position: Nat, end: Nat] /\ EndOK(range'.end)
        /\ range'.position = FirstWanted + Len(out)
    <3>1. CASE Resolved
      BY <1>0, <1>4, <2>1, <3>1 DEF PullInv, TypeOK, PositionInv, EndOK
    <3>2. CASE ~Resolved
      <4>1. ~request.fromEnd /\ out = <<>>
        BY <1>4, <3>2 DEF PullInv, PositionInv
      <4>2. PlainRange.position = FirstWanted + Len(out)
        BY <1>0, <4>1, RangesBegin, WantedForm
      <4>3. QED
        BY <1>0, <2>1, <3>2, <4>1, <4>2, RangesBegin, RangeTypes
    <3>3. QED
      BY <3>1, <3>2
  <2>3. TypeOK'
    BY <1>0, <1>1, <2>1, <2>2 DEF TypeOK
  <2>4. PositionInv'
    <3>1. range' # Unresolved
      BY <2>2, ResolvedForms
    <3>2. range'.position \in Nat /\ range'.end \in Nat
      BY <2>2
    <3>3. QED
      BY <1>0, <1>1, <2>1, <2>2, <3>1, <3>2, Still DEF PositionInv, Resolved
  <2>5. EndInv'
    <3>1. range'.position >= range'.end => out = Wanted
      <4>1. range'.position >= range'.end => FirstWanted + Len(out) >= Stop
        BY <1>0, <2>2, WantedForm DEF EndOK
      <4>2. QED
        BY <1>0, <4>1, Complete DEF PullInv, TypeOK, OutInv
    <3>2. QED
      BY <1>0, <1>1, <1>4, <2>1, <3>1, Still DEF PullInv, EndInv
  <2>6. QueueInv' /\ LeaseReturned' /\ RetryInv'
    BY <1>0, <1>1, <1>4, <2>1
       DEF PullInv, QueueInv, LeaseReturned, EndInv, RetryInv, GivesUpLate
  <2>7. QED
    BY <1>1, <2>3, <2>4, <2>5, <2>6 DEF PullInv
<1>5. QED
  BY <1>2, <1>3, <1>4

LEMMA StatStep == PullInv /\ StatReply => PullInv'
<1> SUFFICES ASSUME PullInv, StatReply PROVE PullInv'
  OBVIOUS
<1>0. /\ UNCHANGED <<request, want, received, retries, queued, aborted, out, lostAt>>
      /\ phase = "stat" /\ TypeOK /\ request \in Requests
  BY DEF StatReply, PullInv, TypeOK, segmentVars
<1>1. OutInv' /\ out' \in Seq(0..Size - 1)
      /\ lostAt' \in [0..Size -> Nat] /\ Len(out)' = Len(out)
  BY <1>0, OutStays
<1>a. range' = TailRange /\ NextSegment(range', queued)
  BY DEF StatReply
<1>2. request.fromEnd /\ out = <<>>
  BY <1>0 DEF PullInv, PositionInv
<1>3. /\ range' \in [position: Nat, end: Nat] /\ EndOK(range'.end)
      /\ range'.position = FirstWanted + Len(out)
  BY <1>0, <1>a, <1>2, RangesBegin, RangeTypes, WantedForm
<1>4. \/ /\ range'.position >= range'.end
         /\ phase' = "ended" /\ outcome' = "done" /\ leased' = FALSE
      \/ /\ ~(range'.position >= range'.end)
         /\ phase' \in {"segment", "capacity"}
         /\ phase' = "segment" /\ request.stream => queued = 0
         /\ outcome' = outcome /\ leased' = leased
  BY <1>a DEF NextSegment, Return, HasCapacity
<1>5. TypeOK'
  BY <1>0, <1>1, <1>3, <1>4 DEF TypeOK
<1>6. PositionInv'
  <2>1. range' # Unresolved /\ range'.position \in Nat /\ range'.end \in Nat
    BY <1>3, ResolvedForms
  <2>2. Resolved' /\ EndOK(range.end)' /\ FirstWanted' = FirstWanted
    BY <1>0, <1>3, <2>1, Still DEF Resolved, Unresolved
  <2>3. phase' # "stat" /\ phase' # "read"
        /\ (phase' \in {"capacity", "segment"} => range'.position < range'.end)
    BY <1>4, <2>1
  <2>4. QED
    BY <1>1, <1>3, <2>2, <2>3 DEF PositionInv
<1>7. EndInv'
  <2>1. range'.position >= range'.end => out = Wanted
    <3>1. range'.position >= range'.end => FirstWanted + Len(out) >= Stop
      BY <1>0, <1>3, WantedForm DEF EndOK
    <3>2. QED
      BY <1>0, <3>1, Complete DEF PullInv, TypeOK, OutInv
  <2>2. QED
    BY <1>0, <1>1, <1>4, <2>1, Still DEF PullInv, EndInv
<1>8. QueueInv' /\ LeaseReturned' /\ RetryInv'
  BY <1>0, <1>1, <1>4 DEF PullInv, QueueInv, LeaseReturned, EndInv, RetryInv, GivesUpLate
<1>9. QED
  BY <1>1, <1>5, <1>6, <1>7, <1>8 DEF PullInv

LEMMA FailsStep == \A transient \in BOOLEAN : PullInv /\ StepFails(transient) => PullInv'
<1> SUFFICES ASSUME PullInv, NEW transient \in BOOLEAN, StepFails(transient) PROVE PullInv'
  OBVIOUS
<1>0. /\ UNCHANGED <<request, range, want, received, aborted, out>>
      /\ phase \in {"connect", "stat", "read"} /\ leased' = FALSE
      /\ queued' = IF phase' = "ended" THEN 0 ELSE queued
      /\ TypeOK /\ request \in Requests
  BY DEF StepFails, Fail, PullInv, TypeOK, segmentVars
<1>1. OutInv' /\ Len(out)' = Len(out) /\ Len(out) \in 0..Size
  <2>1. Len(out) \in Nat /\ FirstWanted \in Nat /\ Stop \in Int /\ Stop <= Size /\ Size \in Nat
    BY <1>0, WantedForm, LenProperties, BoundsAssumption DEF TypeOK
  <2>2. QED
    BY <1>0, <2>1, Still DEF PullInv, OutInv
<1>2. \/ /\ aborted
         /\ phase' = "ended" /\ outcome' = "done" /\ UNCHANGED <<retries, lostAt>>
      \/ /\ ~aborted
         /\ retries' = retries + 1
         /\ lostAt' = [lostAt EXCEPT ![Len(out)] = @ + (IF transient THEN 1 ELSE 0)]
         /\ \/ /\ transient /\ retries + 1 <= MaxRetries
               /\ phase' = "delay" /\ outcome' = outcome
            \/ /\ transient /\ ~(retries + 1 <= MaxRetries)
               /\ phase' = "ended" /\ outcome' = "lost"
            \/ /\ ~transient
               /\ phase' = "ended" /\ outcome' = "refused"
  BY DEF StepFails, Fail, MayResume
<1>3. /\ lostAt \in [0..Size -> Nat] /\ retries \in Nat /\ MaxRetries \in Nat
      /\ retries <= MaxRetries /\ retries <= lostAt[Len(out)]
  BY <1>0, Bounds DEF PullInv, RetryInv, TypeOK
<1>4. TypeOK'
  <2>1. lostAt' \in [0..Size -> Nat]
    BY <1>1, <1>2, <1>3
  <2>2. retries' \in 0..MaxRetries + 1
    BY <1>2, <1>3
  <2>3. queued' \in Nat /\ phase' \in {"delay", "ended"}
        /\ outcome' \in {"none", "done", "refused", "lost"}
    BY <1>0, <1>2 DEF TypeOK
  <2>4. QED
    BY <1>0, <2>1, <2>2, <2>3 DEF TypeOK
<1>5. PositionInv'
  BY <1>0, <1>1, <1>2, Still DEF PullInv, PositionInv, Resolved
<1>6. QueueInv'
  BY <1>0, <1>2, Bounds DEF PullInv, QueueInv
<1>7. LeaseReturned' /\ EndInv'
  BY <1>0, <1>2, Still DEF PullInv, LeaseReturned, EndInv
<1>8. RetryInv'
  <2>1. CASE aborted
    BY <1>0, <1>1, <1>2, <2>1 DEF PullInv, RetryInv, GivesUpLate
  <2>2. CASE ~aborted /\ transient
    <3>1. lostAt'[Len(out)] = lostAt[Len(out)] + 1 /\ lostAt[Len(out)] \in Nat
      BY <1>1, <1>2, <1>3, <2>2
    <3>2. lostAt'[Len(out')] >= retries + 1
      BY <1>0, <1>3, <3>1
    <3>3. outcome = "none"
      BY <1>0 DEF PullInv, EndInv
    <3>4. CASE retries + 1 <= MaxRetries
      BY <1>2, <1>3, <2>2, <3>2, <3>3, <3>4 DEF RetryInv, GivesUpLate
    <3>5. CASE ~(retries + 1 <= MaxRetries)
      <4>1. lostAt'[Len(out')] > MaxRetries
        BY <1>3, <1>0, <3>1, <3>5
      <4>2. QED
        BY <1>2, <2>2, <3>5, <4>1 DEF RetryInv, GivesUpLate
    <3>6. QED
      BY <3>4, <3>5
  <2>3. CASE ~aborted /\ ~transient
    BY <1>2, <2>3 DEF RetryInv, GivesUpLate
  <2>4. QED
    BY <2>1, <2>2, <2>3
<1>9. QED
  BY <1>1, <1>4, <1>5, <1>6, <1>7, <1>8 DEF PullInv

LEMMA DelayStep == PullInv /\ RetryDelay => PullInv'
<1> SUFFICES ASSUME PullInv, RetryDelay PROVE PullInv'
  OBVIOUS
<1>0. /\ UNCHANGED <<request, range, want, received, retries, queued, aborted, out, lostAt>>
      /\ phase = "delay" /\ TypeOK /\ request \in Requests
      /\ \/ aborted /\ phase' = "ended" /\ outcome' = "done" /\ leased' = FALSE
         \/ ~aborted /\ phase' = "connect" /\ outcome' = outcome /\ leased' = leased
  BY DEF RetryDelay, Return, PullInv, TypeOK, segmentVars
<1>1. OutInv' /\ out' \in Seq(0..Size - 1)
      /\ lostAt' \in [0..Size -> Nat] /\ Len(out)' = Len(out)
  BY <1>0, OutStays
<1>2. TypeOK'
  BY <1>0, <1>1 DEF TypeOK
<1>3. PositionInv'
  BY <1>0, <1>1, Still DEF PullInv, PositionInv, Resolved
<1>4. QueueInv' /\ LeaseReturned' /\ EndInv' /\ RetryInv'
  BY <1>0, <1>1, Still DEF PullInv, QueueInv, LeaseReturned, EndInv, RetryInv, GivesUpLate
<1>5. QED
  BY <1>1, <1>2, <1>3, <1>4 DEF PullInv

LEMMA ReadStep == \A bytes \in 1..MaxSegment : PullInv /\ ReadSegment(bytes) => PullInv'
<1> SUFFICES ASSUME PullInv, NEW bytes \in 1..MaxSegment, ReadSegment(bytes) PROVE PullInv'
  OBVIOUS
<1>0. /\ UNCHANGED <<request, range, retries, queued, aborted, out, lostAt>>
      /\ phase = "segment" /\ TypeOK /\ request \in Requests
      /\ \/ /\ aborted /\ phase' = "ended" /\ outcome' = "done" /\ leased' = FALSE
            /\ want' = want /\ received' = received
         \/ /\ ~aborted /\ phase' = "read" /\ outcome' = outcome /\ leased' = leased
            /\ want' = Min({bytes, range.end - range.position}) /\ received' = 0
  BY DEF ReadSegment, Return, PullInv, TypeOK, segmentVars
<1>1. OutInv' /\ out' \in Seq(0..Size - 1)
      /\ lostAt' \in [0..Size -> Nat] /\ Len(out)' = Len(out)
  BY <1>0, OutStays
<1>2. /\ range.position \in Nat /\ range.end \in Nat /\ range.position < range.end
      /\ Resolved
  BY <1>0 DEF PullInv, PositionInv, TypeOK, EndOK
<1>3. /\ Min({bytes, range.end - range.position}) \in 0..MaxSegment
      /\ Min({bytes, range.end - range.position}) <= range.end - range.position
  <2>1. range.end - range.position \in Int /\ range.end - range.position > 0
    BY <1>2
  <2>2. QED
    BY <2>1, MinOfTwo, Bounds
<1>4. TypeOK'
  <2>1. want' \in 0..MaxSegment /\ received' \in 0..want'
    BY <1>0, <1>3 DEF TypeOK
  <2>2. phase' \in {"ended", "read"} /\ leased' \in BOOLEAN
        /\ outcome' \in {"none", "done", "refused", "lost"}
    BY <1>0 DEF TypeOK
  <2>3. QED
    BY <1>0, <1>1, <2>1, <2>2 DEF TypeOK
<1>5. PositionInv'
  <2>1. phase' = "read" => range'.position + (want' - received') <= range'.end
    BY <1>0, <1>2, <1>3
  <2>2. QED
    BY <1>0, <1>1, <1>2, <2>1, Still DEF PullInv, PositionInv, Resolved
<1>6. QueueInv' /\ LeaseReturned' /\ EndInv' /\ RetryInv'
  BY <1>0, <1>1, Still DEF PullInv, QueueInv, LeaseReturned, EndInv, RetryInv, GivesUpLate
<1>7. QED
  BY <1>1, <1>4, <1>5, <1>6 DEF PullInv

LEMMA ConsumerStep ==
    \A n \in 1..queued : PullInv /\ ConsumerReads(n) => PullInv'
<1> SUFFICES ASSUME PullInv, NEW n \in 1..queued, ConsumerReads(n) PROVE PullInv'
  OBVIOUS
<1>0. /\ UNCHANGED <<request, range, want, received, retries, aborted, leased, outcome, out, lostAt>>
      /\ ~aborted /\ queued' = queued - n
      /\ phase' = IF phase = "capacity" /\ queued' = 0 THEN "segment" ELSE phase
      /\ TypeOK /\ request \in Requests
  BY DEF ConsumerReads, PullInv, TypeOK, segmentVars
<1>1. OutInv' /\ out' \in Seq(0..Size - 1)
      /\ lostAt' \in [0..Size -> Nat] /\ Len(out)' = Len(out)
  BY <1>0, OutStays
<1>2. queued \in Nat /\ queued' \in Nat /\ queued' <= queued
  BY <1>0 DEF TypeOK
<1>3. TypeOK'
  BY <1>0, <1>1, <1>2 DEF TypeOK
<1>4. PositionInv'
  BY <1>0, <1>1, Still DEF PullInv, PositionInv, Resolved
<1>5. QueueInv'
  BY <1>0, <1>2, Bounds DEF PullInv, QueueInv, TypeOK
<1>6. LeaseReturned' /\ EndInv' /\ RetryInv'
  BY <1>0, <1>1, Still DEF PullInv, LeaseReturned, EndInv, RetryInv, GivesUpLate
<1>7. QED
  BY <1>1, <1>3, <1>4, <1>5, <1>6 DEF PullInv

LEMMA CancelStep == PullInv /\ Cancel => PullInv'
<1> SUFFICES ASSUME PullInv, Cancel PROVE PullInv'
  OBVIOUS
<1>0. /\ UNCHANGED <<request, range, want, received, retries, outcome, out, lostAt>>
      /\ aborted' = TRUE /\ queued' = 0 /\ leased' = FALSE /\ phase # "ended"
      /\ phase' = IF phase = "capacity" THEN "segment" ELSE phase
      /\ TypeOK /\ request \in Requests
  BY DEF Cancel, PullInv, TypeOK, segmentVars
<1>1. OutInv' /\ out' \in Seq(0..Size - 1)
      /\ lostAt' \in [0..Size -> Nat] /\ Len(out)' = Len(out)
  BY <1>0, OutStays
<1>2. TypeOK'
  BY <1>0, <1>1 DEF TypeOK
<1>3. PositionInv'
  BY <1>0, <1>1, Still DEF PullInv, PositionInv, Resolved
<1>4. QueueInv' /\ LeaseReturned' /\ EndInv' /\ RetryInv'
  BY <1>0, <1>1, Bounds, Still
     DEF PullInv, QueueInv, LeaseReturned, EndInv, RetryInv, GivesUpLate, TypeOK
<1>5. QED
  BY <1>1, <1>2, <1>3, <1>4 DEF PullInv

\* The server sends what is left of the segment, or of the file.
LEMMA OwedForm ==
    ASSUME TypeOK
    PROVE  /\ Owed \in Nat /\ Owed <= want - received
           /\ Owed = 0 \/ range.position + Owed <= Size
           /\ Owed = want - received \/ range.position + Owed >= Size
<1>1. /\ want - received \in Nat /\ range.position \in Nat /\ Size \in Nat
  BY Bounds DEF TypeOK
<1>2. Max({0, Size - range.position}) = IF 0 >= Size - range.position THEN 0
                                        ELSE Size - range.position
  BY <1>1, MaxOfTwo
<1>3. Max({0, Size - range.position}) \in Nat
  BY <1>1, <1>2
<1> DEFINE a == want - received
           b == Max({0, Size - range.position})
<1>4. Owed = Min({a, b})
  BY DEF Owed
<1>5. a \in Nat /\ b \in Nat
  BY <1>1, <1>3
<1> HIDE DEF a, b
<1>6. Owed = IF a <= b THEN a ELSE b
  BY <1>4, <1>5, MinOfTwo
<1>7. QED
  BY <1>1, <1>2, <1>5, <1>6 DEF a, b

LEMMA FrameStep ==
    ASSUME PullInv, NEW n \in 0..Owed, NEW last \in BOOLEAN,
           last => n = Owed, n = 0 => last, Frame(n, last)
    PROVE  PullInv'
<1>0. /\ UNCHANGED <<request, want, aborted, lostAt>> /\ phase = "read" /\ ~aborted
      /\ received' = received + n /\ range' = [range EXCEPT !.position = @ + n]
      /\ queued' \in Enqueued(n)
      /\ out' = out \o [k \in 1..n |-> range.position + k - 1]
      /\ retries' = IF n > 0 THEN 0 ELSE retries
  BY DEF Frame
<1>1. /\ TypeOK /\ request \in Requests /\ out \in Seq(0..Size - 1) /\ OutInv
      /\ range.position = FirstWanted + Len(out) /\ EndOK(range.end) /\ Resolved
      /\ range.position + (want - received) <= range.end /\ outcome = "none"
  BY <1>0 DEF PullInv, PositionInv, TypeOK, EndInv
<1>2. /\ FirstWanted \in Nat /\ Stop \in Int /\ Stop <= Size /\ Size \in Nat
      /\ Len(out) \in Nat /\ range.position \in Nat /\ range.end \in Nat
      /\ want \in Nat /\ received \in Nat /\ received <= want /\ want <= MaxSegment
      /\ MaxSegment \in Nat /\ MaxRetries \in Nat /\ retries \in Nat /\ queued \in Nat
  BY <1>1, WantedForm, Bounds, LenProperties DEF TypeOK, EndOK
<1>3. /\ n \in Nat /\ n <= want - received
      /\ n = 0 \/ range.position + n <= Size
  BY <1>1, <1>2, OwedForm
<1>4. n = 0 \/ range.position + n <= Stop
  BY <1>1, <1>2, <1>3 DEF EndOK
<1>5. /\ OutInv' /\ out' \in Seq(0..Size - 1) /\ Len(out') = Len(out) + n
  BY <1>0, <1>1, <1>3, <1>4, Extend
<1>6. /\ range' \in [position: Nat, end: Nat] /\ range'.position = range.position + n
      /\ range'.end = range.end /\ range'.position = FirstWanted + Len(out')
  <2>1. range \in [position: Nat, end: {-1} \cup Nat]
    BY <1>1 DEF TypeOK
  <2>2. /\ range' = [position |-> range.position + n, end |-> range.end]
    BY <1>0, <2>1
  <2>3. range.position + n \in Nat
    BY <1>2, <1>3
  <2>4. QED
    BY <1>1, <1>2, <1>3, <1>5, <2>2, <2>3
<1>7. \/ /\ phase' = "ended" /\ outcome' = "done" /\ leased' = FALSE
         /\ \/ range'.position >= range'.end
            \/ last /\ received + n < want
      \/ /\ phase' \in {"segment", "capacity"} /\ ~(range'.position >= range'.end)
         /\ phase' = "segment" /\ request.stream => queued' = 0
         /\ outcome' = outcome /\ leased' = leased
      \/ phase' = "read" /\ outcome' = outcome /\ leased' = leased
  BY <1>0 DEF Frame, EndOfFile, NextSegment, Return, HasCapacity
<1>8. queued' \in Nat /\ (request.stream => queued' = 0 \/ (queued' = n /\ queued = 0) \/ queued' = queued + n)
  BY <1>0, <1>2, <1>3 DEF Enqueued
<1>9. TypeOK'
  <2>1. /\ received' \in 0..want' /\ retries' \in 0..MaxRetries + 1
        /\ want' \in 0..MaxSegment
    <3>1. received' = received + n /\ want' = want
      BY <1>0
    <3>2. retries' = 0 \/ retries' = retries
      BY <1>0
    <3>3. QED
      BY <1>1, <1>2, <1>3, <3>1, <3>2 DEF TypeOK
  <2>2. /\ phase' \in {"ended", "segment", "capacity", "read"} /\ leased' \in BOOLEAN
        /\ outcome' \in {"none", "done"}
    BY <1>1, <1>7 DEF TypeOK
  <2>3. range' \in [position: Nat, end: {-1} \cup Nat]
    BY <1>6
  <2>4. request' \in Requests /\ aborted' \in BOOLEAN /\ lostAt' \in [0..Size -> Nat]
    BY <1>0, <1>1 DEF TypeOK
  <2>5. QED
    BY <1>5, <1>8, <2>1, <2>2, <2>3, <2>4 DEF TypeOK
<1>10. PositionInv'
  <2>1. Resolved' /\ EndOK(range.end)' /\ FirstWanted' = FirstWanted
    BY <1>0, <1>1, <1>6, ResolvedForms, Still DEF Resolved, Unresolved
  <2>2. phase' = "read" => range'.position + (want' - received') <= range'.end
    BY <1>0, <1>1, <1>2, <1>3, <1>6
  <2>3. phase' \in {"capacity", "segment"} => range'.position < range'.end
    BY <1>2, <1>6, <1>7
  <2>4. phase' # "stat"
    BY <1>7
  <2>5. QED
    BY <1>6, <2>1, <2>2, <2>3, <2>4 DEF PositionInv
<1>11. QueueInv'
  <2>1. request.stream => queued <= received
    BY <1>0 DEF PullInv, QueueInv
  <2>2. request.stream => queued' <= received + n
    BY <1>2, <1>3, <1>8, <2>1
  <2>3. request.stream => queued' <= MaxSegment
    BY <1>2, <1>3, <1>8, <2>2
  <2>4. QED
    BY <1>0, <1>7, <2>2, <2>3 DEF QueueInv
<1>12. EndInv'
  <2>1. ASSUME phase' = "ended"
        PROVE  out' = Wanted'
    <3>1. range'.position >= range'.end \/ (last /\ received + n < want)
      BY <2>1, <1>7
    <3>2. range'.position >= Stop
      <4>1. CASE range'.position >= range'.end
        BY <4>1, <1>1, <1>2, <1>6 DEF EndOK
      <4>2. CASE last /\ received + n < want
        <5>1. n = Owed
          BY <4>2
        <5>2. range.position + n >= Size
          BY <5>1, <4>2, <1>1, <1>2, <1>3, OwedForm
        <5>3. QED
          BY <5>2, <1>2, <1>3, <1>6
      <4>3. QED
        BY <3>1, <4>1, <4>2
    <3>3. FirstWanted + Len(out') >= Stop
      BY <3>2, <1>6
    <3>4. /\ out' = Ramp(FirstWanted, Len(out'))
          /\ Len(out') = 0 \/ FirstWanted + Len(out') <= Stop
      BY <1>0, <1>5, Still DEF OutInv
    <3>5. out' = Wanted
      BY <1>1, <1>5, <3>3, <3>4, Complete
    <3>6. QED
      BY <1>0, <3>5, Still
  <2>2. QED
    BY <1>0, <1>1, <1>7, <2>1 DEF EndInv
<1>13. LeaseReturned' /\ RetryInv'
  <2>1. retries <= MaxRetries /\ retries <= lostAt[Len(out)]
    BY <1>0 DEF PullInv, RetryInv
  <2>2. Len(out') \in 0..Size
    <3>1. Len(out') = Len(out) + n /\ (n = 0 \/ FirstWanted + Len(out) + n <= Stop)
      BY <1>1, <1>2, <1>4, <1>5
    <3>2. Len(out) = 0 \/ FirstWanted + Len(out) <= Stop
      BY <1>1 DEF OutInv
    <3>3. QED
      BY <1>2, <1>3, <3>1, <3>2
  <2>3. lostAt[Len(out')] \in Nat
    BY <2>2, <1>1 DEF TypeOK
  <2>4. retries' <= MaxRetries /\ retries' <= lostAt'[Len(out')]
    <3>1. CASE n > 0
      BY <3>1, <2>3, <1>0, <1>2
    <3>2. CASE ~(n > 0)
      <4>1. n = 0
        BY <3>2, <1>3
      <4>2. Len(out') = Len(out)
        BY <4>1, <1>2, <1>5
      <4>3. QED
        BY <3>2, <4>2, <2>1, <1>0
    <3>3. QED
      BY <3>1, <3>2
  <2>5. outcome' # "lost"
    BY <1>1, <1>7
  <2>6. LeaseReturned'
    BY <1>0, <1>1, <1>7 DEF LeaseReturned
  <2>7. QED
    BY <2>4, <2>5, <2>6 DEF RetryInv, GivesUpLate
<1>14. QED
  BY <1>5, <1>9, <1>10, <1>11, <1>12, <1>13 DEF PullInv

LEMMA AfterCancelStep ==
    ASSUME PullInv, NEW n \in 0..Owed, n = 0 => Owed = 0, FrameAfterCancel(n)
    PROVE  PullInv'
<1>0. /\ UNCHANGED <<request, want, queued, aborted, out, lostAt>> /\ phase = "read" /\ aborted
  BY DEF FrameAfterCancel
<1>1. OutInv' /\ out' \in Seq(0..Size - 1)
      /\ lostAt' \in [0..Size -> Nat] /\ Len(out)' = Len(out)
  BY <1>0, OutStays
<1>2. /\ TypeOK /\ request \in Requests /\ EndOK(range.end) /\ Resolved /\ outcome = "none"
      /\ retries <= MaxRetries /\ retries <= lostAt[Len(out)] /\ queued = 0
  BY <1>0 DEF PullInv, PositionInv, TypeOK, EndInv, RetryInv, QueueInv
<1>3. /\ range.position \in Nat /\ range.end \in Nat /\ want \in Nat /\ received \in Nat
      /\ received <= want /\ n \in Nat /\ n <= want - received
  BY <1>2, OwedForm DEF TypeOK, EndOK
<1>4. \/ /\ n > 0 /\ received' = received + n /\ range' = [range EXCEPT !.position = @ + n]
         /\ retries' = 0 /\ phase' = "ended" /\ outcome' = "done" /\ leased' = FALSE
      \/ /\ UNCHANGED <<range, received, retries>>
         /\ \/ phase' = "ended" /\ outcome' = "done" /\ leased' = FALSE
            \/ /\ phase' \in {"segment", "capacity"} /\ ~(range.position >= range.end)
               /\ outcome' = outcome /\ leased' = leased
  BY <1>0 DEF FrameAfterCancel, EndOfFile, NextSegment, Return
<1>5. /\ range' \in [position: Nat, end: Nat] /\ range'.end = range.end
      /\ received' \in 0..want /\ retries' \in Nat /\ retries' <= retries
  <2>1. range \in [position: Nat, end: {-1} \cup Nat] /\ retries \in Nat
    BY <1>2, Bounds DEF TypeOK
  <2>2. range' = range \/ range' = [position |-> range.position + n, end |-> range.end]
    BY <1>4, <2>1
  <2>3. range = [position |-> range.position, end |-> range.end]
    BY <2>1
  <2>4. range' \in [position: Nat, end: Nat] /\ range'.end = range.end
    BY <1>3, <2>2, <2>3, range.position + n \in Nat
  <2>5. received' \in 0..want /\ retries' \in Nat /\ retries' <= retries
    <3>1. received' = received + n \/ received' = received
      BY <1>4
    <3>2. retries' = 0 \/ retries' = retries
      BY <1>4
    <3>3. QED
      BY <1>3, <2>1, <3>1, <3>2
  <2>6. QED
    BY <2>4, <2>5
<1>6. TypeOK'
  <2>1. retries' \in 0..MaxRetries + 1
    BY <1>2, <1>5, Bounds DEF TypeOK
  <2>2. /\ phase' \in {"ended", "segment", "capacity"} /\ leased' \in BOOLEAN
        /\ outcome' \in {"none", "done"}
    BY <1>2, <1>4 DEF TypeOK
  <2>3. range' \in [position: Nat, end: {-1} \cup Nat]
    BY <1>5
  <2>4. request' \in Requests /\ aborted' \in BOOLEAN /\ queued' \in Nat
        /\ want' \in 0..MaxSegment /\ received' \in 0..want'
    BY <1>0, <1>2, <1>5 DEF TypeOK
  <2>5. QED
    BY <1>1, <2>1, <2>2, <2>3, <2>4 DEF TypeOK
<1>7. PositionInv'
  <2>1. Resolved' /\ EndOK(range.end)'
    BY <1>0, <1>2, <1>5, ResolvedForms, Still DEF Resolved, Unresolved
  <2>2. phase' \in {"capacity", "segment"} => range'.position < range'.end
    BY <1>3, <1>4
  <2>3. phase' # "stat" /\ phase' # "read" /\ aborted'
    BY <1>0, <1>4
  <2>4. QED
    BY <2>1, <2>2, <2>3 DEF PositionInv
<1>8. QueueInv'
  BY <1>0, <1>2, <1>4, Bounds DEF QueueInv
<1>9. LeaseReturned' /\ EndInv'
  BY <1>0, <1>2, <1>4 DEF PullInv, LeaseReturned, EndInv
<1>10. RetryInv'
  <2>1. lostAt[Len(out)] \in Int /\ MaxRetries \in Nat /\ retries \in Nat
    <3>1. Len(out) \in 0..Size
      <4>1. Len(out) \in Nat /\ FirstWanted \in Nat /\ Stop \in Int /\ Stop <= Size /\ Size \in Nat
        BY <1>2, WantedForm, LenProperties, BoundsAssumption DEF TypeOK
      <4>2. QED
        BY <4>1 DEF PullInv, OutInv
    <3>2. QED
      BY <3>1, <1>2, Bounds DEF TypeOK
  <2>2. retries' <= MaxRetries /\ retries' <= lostAt[Len(out)]
    BY <1>2, <1>5, <2>1
  <2>3. QED
    BY <1>0, <1>2, <1>4, <2>2 DEF RetryInv, GivesUpLate
<1>11. QED
  BY <1>1, <1>6, <1>7, <1>8, <1>9, <1>10 DEF PullInv

LEMMA StutterStep == PullInv /\ UNCHANGED vars => PullInv'
<1> SUFFICES ASSUME PullInv, UNCHANGED vars PROVE PullInv'
  OBVIOUS
<1>0. UNCHANGED <<request, phase, range, want, received, retries, queued, aborted, leased,
                  outcome, out, lostAt>>
  BY DEF vars, segmentVars
<1>1. OutInv' /\ out' \in Seq(0..Size - 1)
      /\ lostAt' \in [0..Size -> Nat] /\ Len(out)' = Len(out)
  BY <1>0, OutStays
<1>2. TypeOK'
  BY <1>0 DEF PullInv, TypeOK
<1>3. PositionInv'
  BY <1>0, <1>1, Still DEF PullInv, PositionInv, Resolved
<1>4. QueueInv' /\ LeaseReturned' /\ EndInv' /\ RetryInv'
  BY <1>0, <1>1, Still DEF PullInv, QueueInv, LeaseReturned, EndInv, RetryInv, GivesUpLate
<1>5. QED
  BY <1>1, <1>2, <1>3, <1>4 DEF PullInv

LEMMA PullStep == PullInv /\ [Next]_vars => PullInv'
<1> SUFFICES ASSUME PullInv, [Next]_vars PROVE PullInv'
  OBVIOUS
<1>1. CASE Connected
  BY <1>1, ConnectedStep
<1>2. CASE StatReply
  BY <1>2, StatStep
<1>3. CASE RetryDelay
  BY <1>3, DelayStep
<1>4. ASSUME NEW transient \in BOOLEAN, StepFails(transient) PROVE PullInv'
  BY <1>4, FailsStep
<1>5. ASSUME NEW bytes \in 1..MaxSegment, ReadSegment(bytes) PROVE PullInv'
  BY <1>5, ReadStep
<1>6. ASSUME NEW n \in 0..Owed, NEW last \in BOOLEAN,
             last => n = Owed, n = 0 => last, Frame(n, last)
      PROVE  PullInv'
  BY <1>6, FrameStep
<1>7. ASSUME NEW n \in 0..Owed, n = 0 => Owed = 0, FrameAfterCancel(n) PROVE PullInv'
  BY <1>7, AfterCancelStep
<1>8. CASE Consume
  BY <1>8, ConsumerStep DEF Consume
<1>9. CASE Cancel
  BY <1>9, CancelStep
<1>10. CASE UNCHANGED vars
  BY <1>10, StutterStep
<1>11. QED
  BY <1>1, <1>2, <1>3, <1>4, <1>5, <1>6, <1>7, <1>8, <1>9, <1>10 DEF Next, Pull

-----------------------------------------------------------------------------
(* Results.                                                                *)

\* What was delivered is the beginning of what is wanted.
LEMMA DeliveredForm == PullInv => Delivered
<1> SUFFICES ASSUME PullInv PROVE Delivered
  OBVIOUS
<1>1. /\ request \in Requests /\ out \in Seq(0..Size - 1) /\ OutInv
  BY DEF PullInv, TypeOK
<1>2. Len(out) \in Nat /\ FirstWanted \in Nat /\ Stop \in Int
  BY <1>1, WantedForm, LenProperties
<1> DEFINE l == IF Stop > FirstWanted THEN Stop - FirstWanted ELSE 0
<1>3. l \in Nat /\ Len(out) <= l
  BY <1>1, <1>2 DEF OutInv
<1>4. Wanted = Ramp(FirstWanted, l)
  BY <1>1, WantedForm
<1> HIDE DEF l
<1>5. IsPrefix(Ramp(FirstWanted, Len(out)), Ramp(FirstWanted, l))
  BY <1>2, <1>3, RampPrefix
<1>6. IsPrefix(out, Wanted)
  BY <1>1, <1>4, <1>5 DEF OutInv
<1>7. QED
  BY <1>6 DEF PullInv, EndInv, Delivered

\* The caller of a read gets the positions it asked for, in order and once, over
\* any losses; and all of them when the read succeeds (files-transfer.ts:201).
THEOREM Delivery == Spec => []Delivered
<1>1. QED
  BY PullInit, PullStep, DeliveredForm, PTL DEF Spec

\* A slow consumer never has more than one segment waiting (files.ts:319).
THEOREM OneSegment == Spec => []OneSegmentHeld
<1>1. PullInv => OneSegmentHeld
  BY DEF PullInv, QueueInv, OneSegmentHeld
<1>2. QED
  BY PullInit, PullStep, <1>1, PTL DEF Spec

\* No lease outlives the pull or its cancellation (files.ts:309).
THEOREM LeasesReturn == Spec => []LeaseReturned
<1>1. PullInv => LeaseReturned
  BY DEF PullInv
<1>2. QED
  BY PullInit, PullStep, <1>1, PTL DEF Spec

\* A read gives up on lost connections only after more than TRANSFER_MAX_RETRIES of
\* them at one position (files-transfer.ts:128).
THEOREM GivingUp == Spec => []GivesUpLate
<1>1. PullInv => GivesUpLate
  BY DEF PullInv, RetryInv
<1>2. QED
  BY PullInit, PullStep, <1>1, PTL DEF Spec

\* Every variable of a download keeps its type.
THEOREM PullTypeCorrect == Spec => []TypeOK
<1>1. PullInv => TypeOK
  BY DEF PullInv
<1>2. QED
  BY PullInit, PullStep, <1>1, PTL DEF Spec

\* Once the consumer has cancelled, nothing more reaches it and no segment is
\* requested, whichever await of the loop the cancellation met (files.ts:309).
THEOREM CancelledForGood == Spec => CancelIsFinal
<1>1. ASSUME aborted, [Next]_vars
      PROVE  out' = out /\ (phase' = "read" => phase = "read")
  <2>1. CASE Connected
    BY <1>1, <2>1 DEF Connected, Return
  <2>2. CASE StatReply
    BY <2>2, NextSegmentForm DEF StatReply
  <2>3. CASE RetryDelay
    BY <2>3 DEF RetryDelay, Return
  <2>4. ASSUME NEW transient \in BOOLEAN, StepFails(transient)
        PROVE  out' = out /\ (phase' = "read" => phase = "read")
    BY <1>1, <2>4 DEF StepFails, Fail
  <2>5. ASSUME NEW bytes \in 1..MaxSegment, ReadSegment(bytes)
        PROVE  out' = out /\ (phase' = "read" => phase = "read")
    BY <1>1, <2>5 DEF ReadSegment, Return
  <2>6. ASSUME NEW n, FrameAfterCancel(n)
        PROVE  out' = out /\ phase = "read"
    BY <2>6 DEF FrameAfterCancel
  <2>7. ~\E n, last : Frame(n, last)
    BY <1>1 DEF Frame
  <2>8. ~Consume /\ ~Cancel
    BY <1>1 DEF Consume, ConsumerReads, Cancel
  <2>9. CASE UNCHANGED vars
    BY <2>9 DEF vars
  <2>10. QED
    BY <1>1, <2>1, <2>2, <2>3, <2>4, <2>5, <2>6, <2>7, <2>8, <2>9 DEF Next, Pull
<1>2. [Next]_vars => [aborted => out' = out /\ (phase' = "read" => phase = "read")]_vars
  BY <1>1
<1>3. QED
  BY <1>2, PTL DEF Spec, CancelIsFinal

-----------------------------------------------------------------------------
(* A download implements DownloadContract.                                 *)

\* The loop has its lease exactly between connect() and what ends the attempt, and its
\* retries are the losses at the place it has reached.
LoopInv ==
    /\ leased <=> ~aborted /\ phase \in {"stat", "segment", "capacity", "read"}
    /\ ~aborted /\ phase # "ended" => retries = lostAt[Len(out)]
    /\ \A k \in 0..Size : k > Len(out) => lostAt[k] = 0

LEMMA StateForm ==
    /\ aborted => StateShown = "cancelled"
    /\ ~aborted /\ outcome = "none" => StateShown = "reading"
    /\ ~aborted /\ outcome = "done" => StateShown = "done"
    /\ ~aborted /\ outcome \in {"refused", "lost"} => StateShown = "failed"
    /\ aborted' => StateShown' = "cancelled"
    /\ ~aborted' /\ outcome' = "none" => StateShown' = "reading"
    /\ ~aborted' /\ outcome' = "done" => StateShown' = "done"
    /\ ~aborted' /\ outcome' \in {"refused", "lost"} => StateShown' = "failed"
  BY DEF StateShown

\* What a step is to the caller.
Shown == Download!Next \/ UNCHANGED Download!vars

LEMMA Placed ==
    ASSUME PullInv
    PROVE  Len(out) \in 0..Size /\ out \in Seq(0..Size - 1) /\ request \in Requests
<1>1. request \in Requests /\ out \in Seq(0..Size - 1)
  BY DEF PullInv, TypeOK
<1>2. Len(out) \in Nat /\ FirstWanted \in Nat /\ Stop \in Int /\ Stop <= Size /\ Size \in Nat
  BY <1>1, WantedForm, LenProperties, BoundsAssumption
<1>3. QED
  BY <1>1, <1>2 DEF PullInv, OutInv

LEMMA PlacedForm == PullInv => Len(out) \in 0..Size
  BY Placed

LEMMA Reading ==
    ASSUME PullInv, LoopInv, ~aborted, phase # "ended"
    PROVE  StateShown = "reading" /\ outcome = "none" /\ LossesShown = retries
  BY StateForm DEF PullInv, EndInv, LoopInv, LossesShown

\* Steps at which nothing is delivered or lost.
LEMMA NothingNew ==
    ASSUME UNCHANGED <<request, out, lostAt>>
    PROVE  Wanted' = Wanted /\ LossesShown' = LossesShown
  BY Still DEF LossesShown

LEMMA Unseen ==
    ASSUME UNCHANGED <<request, out, lostAt>>, leased' = leased,
           (phase' = "read") <=> (phase = "read"), StateShown' = StateShown
    PROVE  Shown
<1>1. (phase' = "read") = (phase = "read")
  OBVIOUS
<1>2. QED
  BY <1>1, NothingNew DEF Shown, Download!vars

LEMMA IsResolve ==
    ASSUME StateShown = "reading", StateShown' = "done", leased' = FALSE, phase' # "read",
           phase # "read", UNCHANGED <<request, out, lostAt>>, out = Wanted
    PROVE  Shown
<1>1. (phase' = "read") = FALSE /\ (phase = "read") = FALSE
  OBVIOUS
<1>2. QED
  BY <1>1, NothingNew DEF Shown, Download!Next, Download!Resolve

\* What every step that ends no loop leaves of LoopInv to prove.
LEMMA LoopStays ==
    ASSUME LoopInv, UNCHANGED <<out, lostAt>>,
           leased' <=> ~aborted' /\ phase' \in {"stat", "segment", "capacity", "read"},
           ~aborted' /\ phase' # "ended" => ~aborted /\ phase # "ended" /\ retries' = retries
    PROVE  LoopInv'
  BY DEF LoopInv

LEMMA ConnectedShows ==
    ASSUME PullInv, PullInv', LoopInv, Connected
    PROVE  Shown /\ LoopInv'
<1>1. /\ UNCHANGED <<request, retries, aborted, out, lostAt>> /\ phase = "connect"
      /\ ~leased
  BY DEF Connected, segmentVars, LoopInv
<1>2. \/ phase' = "ended" /\ outcome' = "done" /\ leased' = FALSE
      \/ /\ ~aborted /\ phase' \in {"stat", "segment", "capacity"}
         /\ leased' = TRUE /\ outcome' = outcome
  BY DEF Connected, Return
<1>3. LoopInv'
  BY <1>1, <1>2, LoopStays
<1>4. CASE aborted
  <2>1. leased' = leased /\ phase' # "read" /\ phase # "read" /\ StateShown' = StateShown
    BY <1>1, <1>2, <1>4, StateForm DEF PullInv, TypeOK
  <2>2. QED
    BY <1>1, <1>3, <2>1, Unseen
<1>5. CASE ~aborted /\ phase' = "ended" /\ outcome' = "done" /\ leased' = FALSE
  <2>1. StateShown = "reading" /\ StateShown' = "done"
    BY <1>1, <1>5, Reading, StateForm
  <2>2. out = Wanted
    BY <1>1, <1>5, Still DEF PullInv, EndInv
  <2>3. QED
    BY <1>1, <1>3, <1>5, <2>1, <2>2, IsResolve
<1>6. CASE ~aborted /\ phase' \in {"stat", "segment", "capacity"} /\ leased' = TRUE
           /\ outcome' = outcome
  <2>1. StateShown = "reading" /\ StateShown' = "reading"
    BY <1>1, <1>6, Reading, StateForm
  <2>2. (phase' = "read") = (phase = "read")
    BY <1>1, <1>6
  <2>3. Download!Lease
    BY <1>1, <1>6, <2>1, <2>2, NothingNew DEF Download!Lease
  <2>4. QED
    BY <1>3, <2>3 DEF Shown, Download!Next
<1>7. QED
  BY <1>2, <1>4, <1>5, <1>6

LEMMA StatShows ==
    ASSUME PullInv, PullInv', LoopInv, StatReply
    PROVE  Shown /\ LoopInv'
<1>1. UNCHANGED <<request, retries, aborted, out, lostAt>> /\ phase = "stat"
  BY DEF StatReply, segmentVars
<1>2. \/ phase' = "ended" /\ outcome' = "done" /\ leased' = FALSE
      \/ phase' \in {"segment", "capacity"} /\ leased' = leased /\ outcome' = outcome
  BY NextSegmentForm DEF StatReply
<1>3. LoopInv'
  <2>1. leased <=> ~aborted
    BY <1>1 DEF LoopInv
  <2>2. QED
    BY <1>1, <1>2, <2>1, LoopStays
<1>4. CASE aborted
  <2>1. leased = FALSE
    BY <1>4 DEF PullInv, TypeOK, LeaseReturned
  <2>2. leased' = leased /\ StateShown' = StateShown
    BY <1>1, <1>2, <1>4, <2>1, StateForm
  <2>3. QED
    BY <1>1, <1>2, <1>3, <2>2, Unseen
<1>5. CASE ~aborted /\ phase' = "ended" /\ outcome' = "done" /\ leased' = FALSE
  <2>1. StateShown = "reading" /\ StateShown' = "done"
    BY <1>1, <1>5, Reading, StateForm
  <2>2. out = Wanted
    BY <1>1, <1>5, Still DEF PullInv, EndInv
  <2>3. QED
    BY <1>1, <1>3, <1>5, <2>1, <2>2, IsResolve
<1>6. CASE ~aborted /\ phase' \in {"segment", "capacity"} /\ leased' = leased
           /\ outcome' = outcome
  <2>1. StateShown = "reading" /\ StateShown' = "reading"
    BY <1>1, <1>6, Reading, StateForm
  <2>2. QED
    BY <1>1, <1>3, <1>6, <2>1, Unseen
<1>7. QED
  BY <1>2, <1>4, <1>5, <1>6

LEMMA FailsShows ==
    ASSUME PullInv, PullInv', LoopInv, NEW transient \in BOOLEAN, StepFails(transient)
    PROVE  Shown /\ LoopInv'
<1>1. /\ UNCHANGED <<request, aborted, out>> /\ phase \in {"connect", "stat", "read"}
      /\ leased' = FALSE /\ Len(out) \in 0..Size
      /\ lostAt \in [0..Size -> Nat] /\ MaxRetries \in Nat
  BY Placed, Bounds DEF StepFails, Fail, PullInv, TypeOK
<1>2. \/ /\ aborted
         /\ phase' = "ended" /\ outcome' = "done" /\ UNCHANGED <<retries, lostAt>>
      \/ /\ ~aborted
         /\ retries' = retries + 1
         /\ lostAt' = [lostAt EXCEPT ![Len(out)] = @ + (IF transient THEN 1 ELSE 0)]
         /\ \/ /\ transient /\ retries + 1 <= MaxRetries
               /\ phase' = "delay" /\ outcome' = outcome
            \/ /\ transient /\ ~(retries + 1 <= MaxRetries)
               /\ phase' = "ended" /\ outcome' = "lost"
            \/ /\ ~transient
               /\ phase' = "ended" /\ outcome' = "refused"
  BY DEF StepFails, Fail, MayResume
<1>3. CASE aborted
  <2>1. /\ UNCHANGED <<lostAt, retries>> /\ phase' = "ended" /\ leased' = leased
        /\ leased = FALSE /\ StateShown = "cancelled" /\ StateShown' = "cancelled"
    BY <1>1, <1>2, <1>3, StateForm DEF PullInv, TypeOK, LeaseReturned
  <2>2. LoopInv'
    BY <1>1, <1>3, <2>1, LoopStays
  <2>3. CASE phase = "read"
    <3>1. (phase = "read") = TRUE /\ (phase' = "read") = FALSE
      BY <2>1, <2>3
    <3>2. Download!Unwind
      BY <1>1, <2>1, <3>1, NothingNew DEF Download!Unwind
    <3>3. QED
      BY <2>2, <3>2 DEF Shown, Download!Next
  <2>4. CASE phase # "read"
    BY <1>1, <2>1, <2>2, <2>4, Unseen
  <2>5. QED
    BY <2>3, <2>4
<1>4. CASE ~aborted
  <2>1. /\ StateShown = "reading" /\ outcome = "none" /\ LossesShown = retries
        /\ lostAt[Len(out)] = retries /\ retries \in Nat
    BY <1>1, <1>4, Reading DEF LoopInv, PullInv, TypeOK
  <2>2. /\ lostAt'[Len(out')] = IF transient THEN retries + 1 ELSE retries
        /\ \A k \in 0..Size : k > Len(out) => lostAt'[k] = lostAt[k]
    <3> DEFINE l == Len(out)
    <3>1. /\ lostAt' = [lostAt EXCEPT ![l] = lostAt[l] + (IF transient THEN 1 ELSE 0)]
          /\ out' = out /\ l \in 0..Size /\ lostAt[l] = retries
      BY <1>1, <1>2, <1>4, <2>1
    <3>2. Len(out') = l
      BY <3>1
    <3> HIDE DEF l
    <3>3. lostAt'[l] = retries + (IF transient THEN 1 ELSE 0)
      BY <1>1, <3>1
    <3>4. \A k \in 0..Size : k # l => lostAt'[k] = lostAt[k]
      BY <1>1, <3>1
    <3>5. l \in Nat /\ \A k \in 0..Size : k > l => k # l
      BY <3>1, Bounds
    <3>6. lostAt'[Len(out')] = IF transient THEN retries + 1 ELSE retries
      BY <2>1, <3>2, <3>3
    <3>7. \A k \in 0..Size : k > l => lostAt'[k] = lostAt[k]
      BY <3>4, <3>5
    <3>8. QED
      BY <3>6, <3>7 DEF l
  <2>4. /\ LossesShown' = IF transient THEN LossesShown + 1 ELSE LossesShown
        /\ LossesShown \in Nat
    BY <2>1, <2>2 DEF LossesShown
  <2>5. LoopInv'
    BY <1>1, <1>2, <1>4, <2>2 DEF LoopInv
  <2>6. (phase' = "read") = FALSE
    BY <1>2, <1>4
  <2>7. Wanted' = Wanted
    BY <1>1, Still
  <2>8. CASE transient
    <3>1. StateShown' = IF LossesShown < MaxRetries THEN "reading" ELSE "failed"
      <4>1. LossesShown < MaxRetries <=> retries + 1 <= MaxRetries
        BY <1>1, <2>1
      <4>2. QED
        BY <1>1, <1>2, <1>4, <2>1, <2>8, <4>1, StateForm
    <3>2. Download!Lose
      BY <1>1, <2>1, <2>4, <2>6, <2>7, <2>8, <3>1 DEF Download!Lose
    <3>3. QED
      BY <2>5, <3>2 DEF Shown, Download!Next
  <2>9. CASE ~transient
    <3>1. StateShown' = "failed"
      BY <1>1, <1>2, <1>4, <2>9, StateForm
    <3>2. Download!Refuse
      BY <1>1, <2>1, <2>4, <2>6, <2>7, <2>9, <3>1 DEF Download!Refuse
    <3>3. QED
      BY <2>5, <3>2 DEF Shown, Download!Next
  <2>10. QED
    BY <2>8, <2>9
<1>5. QED
  BY <1>3, <1>4

LEMMA DelayShows ==
    ASSUME PullInv, PullInv', LoopInv, RetryDelay
    PROVE  Shown /\ LoopInv'
<1>1. /\ UNCHANGED <<request, retries, aborted, out, lostAt>> /\ phase = "delay"
      /\ leased = FALSE
      /\ \/ aborted /\ phase' = "ended" /\ leased' = FALSE
         \/ ~aborted /\ phase' = "connect" /\ outcome' = outcome /\ leased' = leased
  BY DEF RetryDelay, Return, LoopInv, PullInv, TypeOK
<1>2. LoopInv'
  BY <1>1, LoopStays
<1>3. StateShown' = StateShown
  BY <1>1, StateForm, Reading
<1>4. QED
  BY <1>1, <1>2, <1>3, Unseen

LEMMA ReadShows ==
    ASSUME PullInv, PullInv', LoopInv, NEW bytes \in 1..MaxSegment, ReadSegment(bytes)
    PROVE  Shown /\ LoopInv'
<1>1. /\ UNCHANGED <<request, retries, aborted, out, lostAt>> /\ phase = "segment"
      /\ leased = ~aborted
      /\ \/ aborted /\ phase' = "ended" /\ leased' = FALSE
         \/ ~aborted /\ phase' = "read" /\ outcome' = outcome /\ leased' = leased
  BY DEF ReadSegment, Return, LoopInv, PullInv, TypeOK
<1>2. LoopInv'
  BY <1>1, LoopStays
<1>3. CASE aborted
  BY <1>1, <1>2, <1>3, StateForm, Unseen
<1>4. CASE ~aborted
  <2>1. StateShown = "reading" /\ StateShown' = "reading"
    BY <1>1, <1>4, StateForm, Reading
  <2>2. (phase = "read") = FALSE /\ (phase' = "read") = TRUE
    BY <1>1, <1>4
  <2>3. Download!Ask
    BY <1>1, <1>4, <2>1, <2>2, NothingNew DEF Download!Ask
  <2>4. QED
    BY <1>2, <2>3 DEF Shown, Download!Next
<1>5. QED
  BY <1>3, <1>4

\* What has been delivered after a frame is more of what is wanted.
LEMMA MoreOfIt ==
    ASSUME PullInv, PullInv', request' = request, Len(out) <= Len(out')
    PROVE  \E n \in Len(out)..Len(Wanted) : out' = SubSeq(Wanted, 1, n)
<1>1. IsPrefix(out', Wanted)
  <2>1. Delivered'
    BY DeliveredForm, PTL
  <2>2. QED
    BY <2>1, Still DEF Delivered
<1>2. /\ out' \in Seq(0..Size - 1) /\ out \in Seq(0..Size - 1)
  BY DEF PullInv, TypeOK
<1>3. /\ Len(out') \in Nat /\ Len(out) \in Nat /\ out' = SubSeq(out', 1, Len(out'))
  BY <1>2, LenProperties
<1>4. Len(out') <= Len(Wanted) /\ out' = SubSeq(Wanted, 1, Len(out'))
  BY <1>1, <1>3 DEF IsPrefix
<1>5. Len(Wanted) \in Nat
  <2>1. request \in Requests
    BY Placed
  <2>2. QED
    BY <2>1, WantedForm, RampForm
<1>6. Len(out') \in Len(out)..Len(Wanted)
  BY <1>3, <1>4, <1>5
<1>7. QED
  BY <1>4, <1>6

LEMMA FrameShows ==
    ASSUME PullInv, PullInv', LoopInv, NEW n \in 0..Owed, NEW last \in BOOLEAN,
           last => n = Owed, n = 0 => last, Frame(n, last)
    PROVE  Shown /\ LoopInv'
<1>1. /\ UNCHANGED <<request, aborted, lostAt>> /\ phase = "read" /\ ~aborted
      /\ out' = out \o [k \in 1..n |-> range.position + k - 1]
      /\ retries' = IF n > 0 THEN 0 ELSE retries
  BY DEF Frame
<1>2. \/ phase' = "ended" /\ outcome' = "done" /\ leased' = FALSE
      \/ phase' \in {"segment", "capacity", "read"} /\ outcome' = outcome /\ leased' = leased
  BY <1>1 DEF Frame, NextSegment, Return
<1>3. /\ leased = TRUE /\ StateShown = "reading" /\ LossesShown = retries
      /\ lostAt[Len(out)] = retries /\ outcome = "none"
  BY <1>1, Reading DEF LoopInv, PullInv, TypeOK
<1>4. n \in Nat /\ Len(out') = Len(out) + n /\ Len(out) \in 0..Size /\ Len(out') \in 0..Size
  <2>1. /\ TypeOK /\ request \in Requests /\ out \in Seq(0..Size - 1) /\ OutInv
        /\ range.position = FirstWanted + Len(out) /\ EndOK(range.end) /\ Resolved
        /\ range.position + (want - received) <= range.end
    BY <1>1 DEF PullInv, PositionInv, TypeOK
  <2>2. /\ range.position \in Nat /\ range.end \in Nat
        /\ want \in Nat /\ received \in Nat /\ received <= want
    BY <2>1, Bounds DEF TypeOK, EndOK
  <2>3. n \in Nat
    BY <2>1, <2>2, OwedForm
  <2>4. Len(out') = Len(out) + n
    <3>1. [k \in 1..n |-> range.position + k - 1] \in Seq(Int)
          /\ Len([k \in 1..n |-> range.position + k - 1]) = n
      BY <2>2, <2>3
    <3>2. out \in Seq(Int)
      BY <2>1, Bounds
    <3>3. QED
      BY <1>1, <3>1, <3>2, ConcatProperties
  <2>5. Len(out') \in 0..Size
    <3>1. (Len(out) \in 0..Size)'
      BY PlacedForm, PTL
    <3>2. QED
      BY <3>1
  <2>6. QED
    BY <2>3, <2>4, <2>5, Placed
<1>5. /\ n = 0 => out' = out
      /\ n > 0 => out' # out /\ LossesShown' = 0 /\ retries' = 0
      /\ n = 0 => LossesShown' = LossesShown /\ retries' = retries
  <2>1. n > 0 => lostAt'[Len(out')] = 0
    BY <1>1, <1>4, Bounds DEF LoopInv
  <2>2. n = 0 => Len(out') = Len(out)
    BY <1>4, Bounds
  <2>3. n = 0 => out' = out
    <3>1. ASSUME n = 0 PROVE out' = out
      <4>1. [k \in 1..0 |-> range.position + k - 1] = <<>>
        OBVIOUS
      <4>2. out \in Seq(0..Size - 1)
        BY Placed
      <4>3. QED
        BY <1>1, <3>1, <4>1, <4>2
    <3>2. QED
      BY <3>1
  <2>4. n > 0 => out' # out
    BY <1>4, Bounds
  <2>5. QED
    BY <1>1, <1>4, <2>1, <2>2, <2>3, <2>4 DEF LossesShown
<1>6. Download!Receive
  <2>1. \E m \in Len(out)..Len(Wanted) : out' = SubSeq(Wanted, 1, m)
    BY <1>1, <1>4, Bounds, MoreOfIt
  <2>2. LossesShown' = IF out' = out THEN LossesShown ELSE 0
    BY <1>4, <1>5
  <2>3. Wanted' = Wanted
    BY <1>1, Still
  <2>4. QED
    BY <2>1, <2>2, <2>3 DEF Download!Receive
<1>7. LoopInv'
  <2>1. leased' <=> ~aborted' /\ phase' \in {"stat", "segment", "capacity", "read"}
    BY <1>1, <1>2, <1>3
  <2>2. retries' = lostAt'[Len(out')]
    BY <1>1, <1>3, <1>4, <1>5 DEF LossesShown
  <2>3. \A k \in 0..Size : k > Len(out') => lostAt'[k] = 0
    BY <1>1, <1>4, Bounds DEF LoopInv
  <2>4. QED
    BY <2>1, <2>2, <2>3 DEF LoopInv
<1>8. (phase = "read") = TRUE
  BY <1>1
<1>9. CASE phase' = "ended" /\ outcome' = "done" /\ leased' = FALSE
  <2>1. StateShown' = "done" /\ (phase' = "read") = FALSE
    BY <1>1, <1>9, StateForm
  <2>2. out' = Wanted
    BY <1>1, <1>9, Still DEF PullInv, EndInv
  <2>3. Download!Resolve
    BY <1>3, <1>6, <1>8, <1>9, <2>1, <2>2 DEF Download!Resolve
  <2>4. QED
    BY <1>7, <2>3 DEF Shown, Download!Next
<1>10. CASE phase' \in {"segment", "capacity", "read"} /\ outcome' = outcome /\ leased' = leased
  <2>1. StateShown' = "reading" /\ (phase' = "read") \in BOOLEAN
    BY <1>1, <1>3, <1>10, StateForm
  <2>2. Download!Deliver
    BY <1>3, <1>6, <1>8, <1>10, <2>1 DEF Download!Deliver
  <2>3. QED
    BY <1>7, <2>2 DEF Shown, Download!Next
<1>11. QED
  BY <1>2, <1>9, <1>10

LEMMA AfterCancelShows ==
    ASSUME PullInv, PullInv', LoopInv, NEW n, FrameAfterCancel(n)
    PROVE  Shown /\ LoopInv'
<1>1. /\ UNCHANGED <<request, aborted, out, lostAt>> /\ phase = "read" /\ aborted
      /\ leased = FALSE
  BY DEF FrameAfterCancel, LoopInv, PullInv, TypeOK
<1>2. phase' # "read" /\ leased' = FALSE
  BY <1>1, NextSegmentForm DEF FrameAfterCancel, Return
<1>3. LoopInv'
  BY <1>1, <1>2, LoopStays
<1>4. StateShown = "cancelled" /\ StateShown' = "cancelled"
  BY <1>1, StateForm
<1>5. (phase = "read") = TRUE /\ (phase' = "read") = FALSE
  BY <1>1, <1>2
<1>6. Download!Unwind
  BY <1>1, <1>2, <1>4, <1>5, NothingNew DEF Download!Unwind
<1>7. QED
  BY <1>3, <1>6 DEF Shown, Download!Next

LEMMA ConsumeShows ==
    ASSUME PullInv, PullInv', LoopInv, Consume
    PROVE  Shown /\ LoopInv'
<1>1. /\ UNCHANGED <<request, retries, aborted, leased, outcome, out, lostAt>> /\ ~aborted
      /\ phase' = phase \/ (phase = "capacity" /\ phase' = "segment")
  BY DEF Consume, ConsumerReads, segmentVars
<1>2. LoopInv'
  <2>1. leased' <=> ~aborted' /\ phase' \in {"stat", "segment", "capacity", "read"}
    BY <1>1 DEF LoopInv
  <2>2. QED
    BY <1>1, <2>1, LoopStays
<1>3. StateShown' = StateShown
  BY <1>1 DEF StateShown
<1>4. QED
  BY <1>1, <1>2, <1>3, Unseen

LEMMA CancelShows ==
    ASSUME PullInv, PullInv', LoopInv, Cancel
    PROVE  Shown /\ LoopInv'
<1>1. /\ UNCHANGED <<request, retries, outcome, out, lostAt>> /\ ~aborted /\ aborted'
      /\ phase # "ended" /\ leased' = FALSE
      /\ phase' = phase \/ (phase = "capacity" /\ phase' = "segment")
  BY DEF Cancel, segmentVars
<1>2. LoopInv'
  BY <1>1, LoopStays
<1>3. StateShown = "reading" /\ StateShown' = "cancelled"
  BY <1>1, Reading, StateForm
<1>4. (phase' = "read") = (phase = "read")
  BY <1>1
<1>5. Download!Cancel
  BY <1>1, <1>3, <1>4, NothingNew DEF Download!Cancel
<1>6. QED
  BY <1>2, <1>5 DEF Shown, Download!Next

LEMMA StutterShows ==
    ASSUME LoopInv, UNCHANGED vars
    PROVE  Shown /\ LoopInv'
<1>1. UNCHANGED <<request, phase, retries, aborted, leased, outcome, out, lostAt>>
  BY DEF vars
<1>2. StateShown' = StateShown
  BY <1>1 DEF StateShown
<1>3. Shown
  BY <1>1, <1>2, Unseen
<1>4. LoopInv'
  BY <1>1 DEF LoopInv
<1>5. QED
  BY <1>3, <1>4

LEMMA StepShows == PullInv /\ LoopInv /\ [Next]_vars => Shown /\ LoopInv'
<1> SUFFICES ASSUME PullInv, LoopInv, [Next]_vars PROVE Shown /\ LoopInv'
  OBVIOUS
<1>0. PullInv'
  BY PullStep
<1>1. CASE Connected
  BY <1>0, <1>1, ConnectedShows
<1>2. CASE StatReply
  BY <1>0, <1>2, StatShows
<1>3. CASE RetryDelay
  BY <1>0, <1>3, DelayShows
<1>4. ASSUME NEW transient \in BOOLEAN, StepFails(transient) PROVE Shown /\ LoopInv'
  BY <1>0, <1>4, FailsShows
<1>5. ASSUME NEW bytes \in 1..MaxSegment, ReadSegment(bytes) PROVE Shown /\ LoopInv'
  BY <1>0, <1>5, ReadShows
<1>6. ASSUME NEW n \in 0..Owed, NEW last \in BOOLEAN,
             last => n = Owed, n = 0 => last, Frame(n, last)
      PROVE  Shown /\ LoopInv'
  BY <1>0, <1>6, FrameShows
<1>7. ASSUME NEW n \in 0..Owed, n = 0 => Owed = 0, FrameAfterCancel(n) PROVE Shown /\ LoopInv'
  BY <1>0, <1>7, AfterCancelShows
<1>8. CASE Consume
  BY <1>0, <1>8, ConsumeShows
<1>9. CASE Cancel
  BY <1>0, <1>9, CancelShows
<1>10. CASE UNCHANGED vars
  BY <1>10, StutterShows
<1>11. QED
  BY <1>1, <1>2, <1>3, <1>4, <1>5, <1>6, <1>7, <1>8, <1>9, <1>10 DEF Next, Pull

LEMMA InitShows == Init => LoopInv /\ Download!Init
<1> SUFFICES ASSUME Init PROVE LoopInv /\ Download!Init
  OBVIOUS
<1>1. /\ request \in Requests /\ phase = "connect" /\ retries = 0 /\ out = <<>>
      /\ aborted = FALSE /\ leased = FALSE /\ outcome = "none"
      /\ lostAt = [n \in 0..Size |-> 0]
  BY DEF Init
<1>2. Len(out) = 0 /\ 0 \in 0..Size
  BY <1>1, Bounds
<1>3. LoopInv
  BY <1>1, <1>2, Bounds DEF LoopInv
<1>4. LossesShown = 0 /\ StateShown = "reading" /\ (phase = "read") = FALSE
  BY <1>1, <1>2, StateForm DEF LossesShown
<1>5. Wanted \in Seq(0..Size - 1)
  <2> DEFINE l == IF Stop > FirstWanted THEN Stop - FirstWanted ELSE 0
  <2>1. /\ FirstWanted \in Nat /\ Stop \in Int /\ Stop <= Size /\ Wanted = Ramp(FirstWanted, l)
        /\ Size \in Nat
    BY <1>1, WantedForm, Bounds
  <2>2. l \in Nat
    BY <2>1
  <2>3. \A k \in 1..l : FirstWanted + k - 1 \in 0..Size - 1
    BY <2>1
  <2> HIDE DEF l
  <2>4. QED
    BY <2>1, <2>2, <2>3, RampTyped
<1>6. QED
  BY <1>1, <1>3, <1>4, <1>5 DEF Download!Init

\* Every step of a download, its losses, retries and cancellation included, is one that
\* DownloadContract allows or unseen by the caller (files-transfer.ts:201).
THEOREM DownloadKeepsContract == Spec => DownloadHolds
<1>1. Init => LoopInv /\ Download!Init
  BY InitShows
<1>2. PullInv /\ LoopInv /\ [Next]_vars => [Download!Next]_(Download!vars) /\ LoopInv'
  BY StepShows DEF Shown
<1>3. QED
  BY PullInit, PullStep, <1>1, <1>2, PTL DEF Spec, DownloadHolds, Download!Spec
=============================================================================
