--------------------------- MODULE ExecStdinProofs ---------------------------
(***************************************************************************)
(* For every window, high-water mark and number of calls: credits are      *)
(* conserved, and the socket gets the frames of the calls in call order.   *)
(* CreditInv is the arithmetic of the flow and the types of what it is     *)
(* computed from.  StreamInv says what the socket has got: all frames of   *)
(* the calls fulfilled and the chunks of the running one that are not      *)
(* `left'.  FlattenSeq is recursive, so what it returns for one call more  *)
(* is proved by induction, as the absence of a least counterexample.       *)
(***************************************************************************)
EXTENDS ExecStdin, SequenceTheorems, WellFoundedInduction, TLAPS

FlowOK ==
    /\ window \in Nat
    /\ credits \in Nat /\ wire \in Nat /\ held \in Nat /\ freed \in Nat
    /\ credits + wire + held + freed = window

CallsOK ==
    /\ calls \in Seq(Nat)
    /\ left \in Nat /\ okCalls \in Nat

CreditInv == FlowOK /\ CallsOK

-----------------------------------------------------------------------------
LEMMA MinOfThree ==
    ASSUME NEW a \in Nat, NEW b \in Nat, NEW c \in Nat
    PROVE  /\ Min({a, b, c}) \in Nat
           /\ Min({a, b, c}) <= a
           /\ Min({a, b, c}) <= b
<1>1. \E x \in {a, b, c} : \A y \in {a, b, c} : x <= y
  <2>1. CASE a <= b /\ a <= c
    BY <2>1
  <2>2. CASE b <= a /\ b <= c
    BY <2>2
  <2>3. CASE c <= a /\ c <= b
    BY <2>3
  <2>4. QED
    BY <2>1, <2>2, <2>3
<1>2. QED
  BY <1>1 DEF Min

\* The running write sends what it can pay for.
LEMMA SendChunksFlow ==
    ASSUME CreditInv, NEW n \in Nat, SendChunks(n)
    PROVE  /\ credits' \in Nat /\ wire' \in Nat
           /\ credits' + wire' = credits + wire
           /\ held' = held /\ freed' = freed
           /\ left' \in Nat /\ okCalls' \in Nat
<1> DEFINE sending == Min({n, credits, Room})
<1>1. Room \in Nat
  BY BoundsAssumption DEF Room, CreditInv, FlowOK
<1>2. sending \in Nat /\ sending <= n /\ sending <= credits
  BY <1>1, MinOfThree DEF CreditInv, FlowOK
<1>3. /\ credits' = credits - sending
      /\ wire' = wire + sending
      /\ held' = held /\ freed' = freed
      /\ \/ okCalls' = okCalls + 1 /\ left' = 0
         \/ okCalls' = okCalls /\ left' = n - sending
  BY DEF SendChunks, Fulfil
<1> HIDE DEF sending
<1>4. QED
  BY <1>2, <1>3 DEF CreditInv, FlowOK, CallsOK

LEMMA CreditInit == Init => CreditInv
  BY WindowsAssumption DEF Init, CreditInv, FlowOK, CallsOK

LEMMA CreditNext == CreditInv /\ [Next]_vars => CreditInv'
<1> SUFFICES ASSUME CreditInv, [Next]_vars
             PROVE  CreditInv'
  OBVIOUS
<1> USE DEF CreditInv, flowVars, callVars, chainVars
<1>1. ASSUME NEW n \in 0..MaxChunks, Write(n)
      PROVE  CreditInv'
  BY <1>1, BoundsAssumption DEF Write, FlowOK, CallsOK
<1>2. CASE End
  BY <1>2, BoundsAssumption DEF End, Eof, FlowOK, CallsOK
<1>3. CASE StartCall
  <2>1. UNCHANGED <<calls, window>>
    BY <1>3 DEF StartCall
  <2>2. CASE ~writable
    BY <1>3, <2>1, <2>2 DEF StartCall, Reject, FlowOK, CallsOK
  <2>3. CASE writable /\ calls[Current] = Eof
    BY <1>3, <2>1, <2>3 DEF StartCall, SendEof, Fulfil, FlowOK, CallsOK
  <2>4. CASE writable /\ calls[Current] # Eof
    <3>1. SendChunks(calls[Current]) /\ calls[Current] \in Nat
      BY <1>3, <2>4 DEF StartCall, Current, CallsOK
    <3>2. QED
      BY <2>1, <3>1, SendChunksFlow DEF FlowOK, CallsOK
  <2>5. QED
    BY <2>2, <2>3, <2>4
<1>4. CASE Resume
  <2>1. UNCHANGED <<calls, window>>
    BY <1>4 DEF Resume
  <2>2. CASE writable
    <3>1. SendChunks(left) /\ left \in Nat
      BY <1>4, <2>2 DEF Resume, CallsOK
    <3>2. QED
      BY <2>1, <3>1, SendChunksFlow DEF FlowOK, CallsOK
  <2>3. CASE ~writable
    BY <1>4, <2>1, <2>3 DEF Resume, Reject, FlowOK, CallsOK
  <2>4. QED
    BY <2>2, <2>3
<1>5. CASE Stall
  BY <1>5 DEF Stall, Reject, FlowOK, CallsOK
<1>6. CASE ProxyReceives
  BY <1>6 DEF ProxyReceives, FlowOK, CallsOK
<1>7. CASE CommandReads
  BY <1>7 DEF CommandReads, FlowOK, CallsOK
<1>8. ASSUME NEW chunks \in 1..window, RecvCredit(chunks)
      PROVE  CreditInv'
  BY <1>8 DEF RecvCredit, FlowOK, CallsOK
<1>9. ASSUME NEW chunks \in 0..window + 1, RecvBadCredit(chunks)
      PROVE  CreditInv'
  BY <1>9 DEF RecvBadCredit, AbortWriter, Reject, FlowOK, CallsOK
<1>10. CASE Ready
  BY <1>10 DEF Ready, FlowOK, CallsOK
<1>11. CASE StopWriting
  BY <1>11 DEF StopWriting, AbortWriter, Reject, FlowOK, CallsOK
<1>12. CASE Close
  BY <1>12 DEF Close, FlowOK, CallsOK
<1>13. CASE UNCHANGED vars
  BY <1>13 DEF vars, FlowOK, CallsOK
<1>14. QED
  BY <1>1, <1>2, <1>3, <1>4, <1>5, <1>6, <1>7, <1>8, <1>9, <1>10, <1>11, <1>12, <1>13
     DEF Next, ClientStep, ProxyStep

\* No credit is lost or made twice, whatever the window (exec-ws-client.ts:228).
THEOREM CreditsAreConserved == Spec => []CreditsConserved
<1>1. CreditInv => CreditsConserved
  BY DEF CreditInv, FlowOK, CreditsConserved
<1>2. QED
  BY CreditInit, CreditNext, <1>1, PTL DEF Spec

\* The client never has fewer credits than none, nor more than the window, so
\* that a grant the proxy may give is never refused as an error.
THEOREM CreditsInWindow == Spec => [](credits \in 0..window)
<1>1. CreditInv => credits \in 0..window
  BY DEF CreditInv, FlowOK
<1>2. QED
  BY CreditInit, CreditNext, <1>1, PTL DEF Spec

-----------------------------------------------------------------------------
(* The frames of a list of calls.                                          *)

Less == {ss \in Nat \X Nat : ss[1] < ss[2]}

\* A set of numbers has a least one: the induction of what follows.
LEMMA NatMin ==
    ASSUME NEW S \in SUBSET Nat, S # {}
    PROVE  \E n \in S : \A m \in S : n <= m
<1>1. IsWellFoundedOn(Less, Nat)
  BY NatLessThanWellFounded DEF OpToRel, Less
<1>2. PICK x \in S : \A y \in S : <<y, x>> \notin Less
  BY <1>1, WFMin
<1>3. ASSUME NEW y \in S
      PROVE  x <= y
  <2>1. <<y, x>> \notin Less
    BY <1>2
  <2>2. y \in Nat /\ x \in Nat
    OBVIOUS
  <2>3. QED
    BY <2>1, <2>2 DEF Less
<1>4. QED
  BY <1>3

Frame == Nat \X Nat

\* FlattenSeq, as the function it reads its result from.
Flattens(f, ss, n) ==
    f = [i \in 1..n |-> IF i = 1 THEN ss[i] ELSE f[i - 1] \o ss[i]]

LEMMA FlattensTyped ==
    ASSUME NEW n \in Nat, NEW ss \in [1..n -> Seq(Frame)]
    PROVE  \E f \in [1..n -> Seq(Frame)] : Flattens(f, ss, n)
<1> DEFINE Joins(f, m) ==
        \A i \in 1..m : f[i] = IF i = 1 THEN ss[i] ELSE f[i - 1] \o ss[i]
           Bad == {m \in 0..n : ~\E f \in [1..m -> Seq(Frame)] : Joins(f, m)}
<1>1. ASSUME Bad # {}
      PROVE  FALSE
  <2>1. PICK m \in Bad : \A k \in Bad : m <= k
    <3>1. Bad \in SUBSET Nat
      OBVIOUS
    <3> HIDE DEF Bad
    <3>2. QED
      BY <1>1, <3>1, NatMin
  <2>2. m # 0
    <3>1. [i \in 1..0 |-> <<>>] \in [1..0 -> Seq(Frame)] /\ Joins([i \in 1..0 |-> <<>>], 0)
      OBVIOUS
    <3>2. QED
      BY <2>1, <3>1
  <2>3. m \in 1..n /\ m - 1 \in 0..n /\ m - 1 \notin Bad
    <3>1. m \in 0..n /\ m - 1 \in 0..n /\ ~(m <= m - 1)
      BY <2>2
    <3> HIDE DEF Bad
    <3>2. QED
      BY <2>1, <2>2, <3>1
  <2>4. PICK f \in [1..m - 1 -> Seq(Frame)] : Joins(f, m - 1)
    BY <2>3
  <2> DEFINE x == IF m = 1 THEN ss[m] ELSE f[m - 1] \o ss[m]
             g == [i \in 1..m |-> IF i < m THEN f[i] ELSE x]
  <2>5. x \in Seq(Frame)
    <3>1. ss[m] \in Seq(Frame)
      BY <2>3
    <3>2. ASSUME m # 1
          PROVE  f[m - 1] \in Seq(Frame)
      BY <2>3, <2>4, <3>2
    <3>3. QED
      BY <3>1, <3>2
  <2>6. g \in [1..m -> Seq(Frame)]
    <3>1. \A i \in 1..m : i < m => f[i] \in Seq(Frame)
      BY <2>3, <2>4
    <3> HIDE DEF x
    <3>2. QED
      BY <2>5, <3>1
  <2>7. ASSUME NEW i \in 1..m
        PROVE  g[i] = IF i = 1 THEN ss[i] ELSE g[i - 1] \o ss[i]
    <3>1. CASE i = m
      <4>1. g[m] = x /\ (m # 1 => g[m - 1] = f[m - 1])
        BY <2>3
      <4>2. QED
        BY <3>1, <4>1
    <3>2. CASE i # m
      <4>1. i \in 1..m - 1 /\ g[i] = f[i] /\ (i # 1 => g[i - 1] = f[i - 1])
        BY <2>3, <3>2
      <4>2. QED
        BY <2>4, <4>1
    <3>3. QED
      BY <3>1, <3>2
  <2> HIDE DEF g
  <2>8. QED
    BY <2>1, <2>6, <2>7
<1>2. PICK f \in [1..n -> Seq(Frame)] : Joins(f, n)
  <2>1. n \in 0..n
    OBVIOUS
  <2>2. n \notin Bad
    BY <1>1
  <2>3. QED
    BY <2>1, <2>2
<1>3. f = [i \in 1..n |-> IF i = 1 THEN ss[i] ELSE f[i - 1] \o ss[i]]
  BY <1>2
<1>4. QED
  BY <1>3 DEF Flattens

Agree(f, g, m) == \A i \in 1..m : f[i] = g[i]

LEMMA LenOfFunction ==
    ASSUME NEW n \in Nat, NEW S, NEW f \in [1..n -> S]
    PROVE  f \in Seq(S) /\ Len(f) = n
  OBVIOUS

LEMMA FlattensOnce ==
    ASSUME NEW n \in Nat, NEW m \in 0..n,
           NEW ss \in [1..n -> Seq(Frame)], NEW tt \in [1..m -> Seq(Frame)],
           NEW f, NEW g,
           Agree(ss, tt, m), Flattens(f, ss, n), Flattens(g, tt, m)
    PROVE  Agree(f, g, m)
<1> USE DEF Agree
<1> DEFINE Bad == {k \in 1..m : f[k] # g[k]}
<1>1. SUFFICES ASSUME Bad # {}
               PROVE  FALSE
  OBVIOUS
<1>2. PICK k \in Bad : \A j \in Bad : k <= j
  <2>1. Bad \in SUBSET Nat
    OBVIOUS
  <2> HIDE DEF Bad
  <2>2. QED
    BY <1>1, <2>1, NatMin
<1>3. /\ f[k] = IF k = 1 THEN ss[k] ELSE f[k - 1] \o ss[k]
      /\ g[k] = IF k = 1 THEN tt[k] ELSE g[k - 1] \o tt[k]
  <2>1. k \in 1..m /\ k \in 1..n
    OBVIOUS
  <2>2. f = [i \in 1..n |-> IF i = 1 THEN ss[i] ELSE f[i - 1] \o ss[i]]
    BY DEF Flattens
  <2>3. g = [i \in 1..m |-> IF i = 1 THEN tt[i] ELSE g[i - 1] \o tt[i]]
    BY DEF Flattens
  <2>4. f[k] = IF k = 1 THEN ss[k] ELSE f[k - 1] \o ss[k]
    BY <2>1, <2>2
  <2>5. g[k] = IF k = 1 THEN tt[k] ELSE g[k - 1] \o tt[k]
    BY <2>1, <2>3
  <2>6. QED
    BY <2>4, <2>5
<1>4. ASSUME k # 1
      PROVE  f[k - 1] = g[k - 1]
  <2>1. k - 1 \in 1..m /\ ~(k <= k - 1)
    BY <1>4
  <2>2. QED
    BY <1>2, <2>1
<1>5. ss[k] = tt[k] /\ f[k] # g[k]
  OBVIOUS
<1> HIDE DEF Bad
<1>6. QED
  BY <1>3, <1>4, <1>5

\* What FlattenSeq returns for m sequences and for one more.
LEMMA FlattenStep ==
    ASSUME NEW m \in Nat, NEW n, n = m + 1, NEW ss \in [1..n -> Seq(Frame)],
           NEW tt \in [1..m -> Seq(Frame)], Agree(ss, tt, m)
    PROVE  /\ FlattenSeq(ss) \in Seq(Frame) /\ FlattenSeq(tt) \in Seq(Frame)
           /\ FlattenSeq(ss) = FlattenSeq(tt) \o ss[n]
<1> DEFINE a == CHOOSE f : Flattens(f, ss, n)
           b == CHOOSE f : Flattens(f, tt, m)
<1>1. n \in Nat /\ n \in 1..n /\ m \in 0..n /\ n # 0
  OBVIOUS
<1>2. Len(ss) = n /\ Len(tt) = m
  BY <1>1, LenOfFunction
<1>3. FlattenSeq(ss) = a[n]
  BY <1>1, <1>2 DEF FlattenSeq, Flattens
<1>4. FlattenSeq(tt) = IF m = 0 THEN tt ELSE b[m]
  BY <1>2 DEF FlattenSeq, Flattens
<1>5. PICK f \in [1..n -> Seq(Frame)] : Flattens(f, ss, n)
  BY <1>1, FlattensTyped
<1>6. PICK g \in [1..m -> Seq(Frame)] : Flattens(g, tt, m)
  BY FlattensTyped
<1>7. Flattens(a, ss, n) /\ Flattens(b, tt, m)
  BY <1>5, <1>6
<1> HIDE DEF a, b
<1>8. a[n] = f[n]
  <2>1. n \in 0..n /\ Agree(ss, ss, n)
    BY <1>1 DEF Agree
  <2>2. Agree(f, a, n)
    BY <1>1, <1>5, <1>7, <2>1, FlattensOnce
  <2>3. QED
    BY <1>1, <2>2 DEF Agree
<1>9. \A i \in 1..m : b[i] = f[i]
  <2>1. Agree(f, b, m)
    BY <1>1, <1>5, <1>7, FlattensOnce
  <2>2. QED
    BY <2>1 DEF Agree
<1>10. f[n] = IF m = 0 THEN ss[n] ELSE f[m] \o ss[n]
  <2>1. f = [i \in 1..n |-> IF i = 1 THEN ss[i] ELSE f[i - 1] \o ss[i]]
    BY <1>5 DEF Flattens
  <2>2. f[n] = IF n = 1 THEN ss[n] ELSE f[n - 1] \o ss[n]
    BY <1>1, <2>1
  <2>3. n - 1 = m /\ (n = 1 <=> m = 0)
    OBVIOUS
  <2>4. QED
    BY <2>2, <2>3
<1>11. f[n] \in Seq(Frame) /\ ss[n] \in Seq(Frame)
  BY <1>1, <1>5
<1>12. CASE m = 0
  <2>1. FlattenSeq(tt) = <<>>
    BY <1>2, <1>4, <1>12
  <2>2. QED
    BY <1>3, <1>8, <1>10, <1>11, <1>12, <2>1, ConcatEmptySeq
<1>13. CASE m # 0
  <2>1. b[m] = f[m] /\ f[m] \in Seq(Frame)
    BY <1>5, <1>9, <1>13
  <2>2. QED
    BY <1>3, <1>4, <1>8, <1>10, <1>11, <1>13, <2>1
<1>14. QED
  BY <1>12, <1>13

\* The frames of call i of the list cs, as Frames has them, and of its first m calls.
FramesOf(cs, i) == IF cs[i] = Eof THEN <<<<i, 0>>>> ELSE [k \in 1..cs[i] |-> <<i, k>>]

Stream(cs, m) == FlattenSeq([i \in 1..m |-> FramesOf(cs, i)])

LEMMA FramesForm ==
    ASSUME NEW cs \in Seq(Nat), NEW i \in 1..Len(cs)
    PROVE  FramesOf(cs, i) \in Seq(Frame)
<1>1. cs[i] \in Nat /\ i \in Nat
  OBVIOUS
<1>2. CASE cs[i] = Eof
  <2>1. <<i, 0>> \in Frame
    BY <1>1 DEF Frame
  <2>2. QED
    BY <1>2, <2>1 DEF FramesOf
<1>3. CASE cs[i] # Eof
  <2>1. [k \in 1..cs[i] |-> <<i, k>>] \in [1..cs[i] -> Frame]
    BY <1>1 DEF Frame
  <2>2. [k \in 1..cs[i] |-> <<i, k>>] \in Seq(Frame)
    BY <1>1, <2>1, LenOfFunction
  <2>3. QED
    BY <1>3, <2>2 DEF FramesOf
<1>4. QED
  BY <1>2, <1>3

LEMMA StreamStep ==
    ASSUME NEW cs \in Seq(Nat), NEW n \in 1..Len(cs)
    PROVE  /\ Stream(cs, n - 1) \in Seq(Frame) /\ Stream(cs, n) \in Seq(Frame)
           /\ Stream(cs, n) = Stream(cs, n - 1) \o FramesOf(cs, n)
<1> DEFINE m == n - 1
<1>0. m \in Nat /\ n = m + 1
  OBVIOUS
<1> HIDE DEF m
<1> DEFINE ss == [i \in 1..n |-> FramesOf(cs, i)]
           tt == [i \in 1..m |-> FramesOf(cs, i)]
<1>1. \A i \in 1..n : FramesOf(cs, i) \in Seq(Frame)
  <2>1. \A i \in 1..n : i \in 1..Len(cs)
    OBVIOUS
  <2>2. QED
    BY <2>1, FramesForm
<1>2. /\ ss \in [1..n -> Seq(Frame)] /\ tt \in [1..m -> Seq(Frame)]
      /\ ss[n] = FramesOf(cs, n) /\ Agree(ss, tt, m)
  BY <1>0, <1>1 DEF Agree
<1>3. Stream(cs, n) = FlattenSeq(ss) /\ Stream(cs, m) = FlattenSeq(tt)
  BY DEF Stream
<1> HIDE DEF ss, tt
<1>4. /\ FlattenSeq(ss) \in Seq(Frame) /\ FlattenSeq(tt) \in Seq(Frame)
      /\ FlattenSeq(ss) = FlattenSeq(tt) \o ss[n]
  BY <1>0, <1>2, FlattenStep
<1>5. QED
  BY <1>2, <1>3, <1>4 DEF m

LEMMA StreamEmpty == \A cs : Stream(cs, 0) = <<>>
  BY DEF Stream, FlattenSeq

LEMMA StreamTyped ==
    ASSUME NEW cs \in Seq(Nat), NEW m \in 0..Len(cs)
    PROVE  Stream(cs, m) \in Seq(Frame)
<1>1. ASSUME NEW n \in 1..Len(cs)
      PROVE  Stream(cs, n) \in Seq(Frame)
  BY StreamStep
<1>2. Stream(cs, 0) \in Seq(Frame)
  <2>1. Stream(cs, 0) = <<>>
    BY StreamEmpty
  <2>2. QED
    BY <2>1, EmptySeq
<1>3. m = 0 \/ m \in 1..Len(cs)
  OBVIOUS
<1>4. QED
  BY <1>1, <1>2, <1>3

\* Calls queued later do not change the frames of those before.
LEMMA StreamOfPart ==
    ASSUME NEW cs, NEW ds, NEW m \in Nat, \A i \in 1..m : cs[i] = ds[i]
    PROVE  Stream(cs, m) = Stream(ds, m)
<1>1. [i \in 1..m |-> FramesOf(cs, i)] = [i \in 1..m |-> FramesOf(ds, i)]
  BY DEF FramesOf
<1>2. QED
  BY <1>1 DEF Stream

LEMMA Regroup ==
    ASSUME NEW s \in Seq(Frame), NEW t \in Seq(Frame), NEW u \in Seq(Frame)
    PROVE  (s \o t) \o u = s \o (t \o u)
  BY ConcatAssociative

\* The frames of the first calls begin the frames of all.
LEMMA StreamGrows ==
    ASSUME NEW cs \in Seq(Nat), NEW m \in 0..Len(cs)
    PROVE  \E rest \in Seq(Frame) : Stream(cs, Len(cs)) = Stream(cs, m) \o rest
<1> DEFINE Begins(k) == \E rest \in Seq(Frame) : Stream(cs, k) = Stream(cs, m) \o rest
           Bad == {k \in m..Len(cs) : ~Begins(k)}
<1>1. ASSUME Bad # {}
      PROVE  FALSE
  <2>1. PICK k \in Bad : \A j \in Bad : k <= j
    <3>1. Bad \in SUBSET Nat
      OBVIOUS
    <3> HIDE DEF Bad
    <3>2. QED
      BY <1>1, <3>1, NatMin
  <2>2. Stream(cs, m) \in Seq(Frame)
    BY StreamTyped
  <2>3. k # m
    <3>1. Begins(m)
      BY <2>2, ConcatEmptySeq, EmptySeq
    <3>2. QED
      BY <2>1, <3>1
  <2>4. k - 1 \in Bad \/ Begins(k - 1)
    <3>1. k - 1 \in m..Len(cs)
      BY <2>3
    <3>2. QED
      BY <3>1
  <2>5. Begins(k - 1) /\ k - 1 \in Nat /\ k \in 1..Len(cs)
    <3>1. ~(k <= k - 1) /\ k - 1 \in Nat /\ k \in 1..Len(cs)
      BY <2>3
    <3> HIDE DEF Bad
    <3>2. QED
      BY <2>1, <2>4, <3>1
  <2>6. PICK rest \in Seq(Frame) : Stream(cs, k - 1) = Stream(cs, m) \o rest
    BY <2>5
  <2> DEFINE more == FramesOf(cs, k)
  <2>7. more \in Seq(Frame)
    BY <2>5, FramesForm
  <2>8. Stream(cs, k) = Stream(cs, k - 1) \o more
    BY <2>5, StreamStep
  <2> HIDE DEF more
  <2>9. Stream(cs, k) = Stream(cs, m) \o (rest \o more) /\ rest \o more \in Seq(Frame)
    <3> HIDE DEF Bad, Begins
    <3>1. (Stream(cs, m) \o rest) \o more = Stream(cs, m) \o (rest \o more)
      BY <2>2, <2>6, <2>7, Regroup
    <3>2. rest \o more \in Seq(Frame)
      BY <2>6, <2>7, ConcatProperties
    <3>3. QED
      BY <2>6, <2>8, <3>1, <3>2
  <2>10. QED
    BY <2>1, <2>9
<1>2. Len(cs) \in m..Len(cs)
  <2>1. Len(cs) \in Nat
    OBVIOUS
  <2>2. QED
    BY <2>1
<1>3. Len(cs) \notin Bad
  BY <1>1
<1>4. QED
  BY <1>2, <1>3

LEMMA PrefixOfConcat ==
    ASSUME NEW s \in Seq(Frame), NEW t \in Seq(Frame)
    PROVE  IsPrefix(s, s \o t)
<1> DEFINE u == s \o t
<1>1. /\ u \in Seq(Frame) /\ Len(u) = Len(s) + Len(t)
      /\ \A i \in 1..Len(s) : u[i] = s[i]
  OBVIOUS
<1> HIDE DEF u
<1>2. Len(s) \in Nat /\ Len(t) \in Nat /\ Len(s) <= Len(u)
  BY <1>1
<1>3. SubSeq(s, 1, Len(s)) = SubSeq(u, 1, Len(s))
  BY <1>1, <1>2
<1>4. QED
  BY <1>2, <1>3 DEF IsPrefix, u

-----------------------------------------------------------------------------
(* What the socket has got.                                                *)

\* The first s chunks of call i.
Part(i, s) == [k \in 1..s |-> <<i, k>>]

\* The chunks the running call has sent: all but `left', and none for an EOF, which
\* is sent and fulfilled in one step.
PartOk(s) ==
    /\ s \in Nat
    /\ s > 0 => Current <= Len(calls) /\ calls[Current] # Eof /\ s <= calls[Current]
    /\ writer = "idle" /\ ~broken => s = 0
    /\ writer # "idle" => /\ ~broken /\ Current <= Len(calls) /\ calls[Current] # Eof
                          /\ calls[Current] = s + left

StreamInv ==
    /\ okCalls <= Len(calls)
    /\ \E s \in Nat : PartOk(s) /\ log = Stream(calls, okCalls) \o Part(Current, s)

StdinInv == CreditInv /\ StreamInv

LEMMA PartForm ==
    ASSUME NEW i \in Nat, NEW s \in Nat
    PROVE  /\ Part(i, s) \in Seq(Frame) /\ Len(Part(i, s)) = s
           /\ \A k \in 1..s : Part(i, s)[k] = <<i, k>>
<1>1. Part(i, s) \in [1..s -> Frame]
  BY DEF Part, Frame
<1>2. Part(i, s) \in Seq(Frame) /\ Len(Part(i, s)) = s
  BY <1>1, LenOfFunction
<1>3. QED
  BY <1>2 DEF Part

\* A part and the chunks that follow it.
LEMMA PartStep ==
    ASSUME NEW i \in Nat, NEW s \in Nat, NEW t \in Nat
    PROVE  /\ [k \in 1..t |-> <<i, s + k>>] \in Seq(Frame)
           /\ Part(i, s) \o [k \in 1..t |-> <<i, s + k>>] = Part(i, s + t)
<1> DEFINE p == Part(i, s)
           q == [k \in 1..t |-> <<i, s + k>>]
           r == Part(i, s + t)
<1>1. s + t \in Nat
  OBVIOUS
<1>2. /\ p \in Seq(Frame) /\ Len(p) = s /\ \A k \in 1..s : p[k] = <<i, k>>
      /\ r \in Seq(Frame) /\ Len(r) = s + t /\ \A k \in 1..s + t : r[k] = <<i, k>>
  BY <1>1, PartForm
<1>3. q \in Seq(Frame) /\ Len(q) = t /\ \A k \in 1..t : q[k] = <<i, s + k>>
  <2>1. q \in [1..t -> Frame]
    BY DEF Frame
  <2>2. q \in Seq(Frame) /\ Len(q) = t
    BY <2>1, LenOfFunction
  <2>3. \A k \in 1..t : q[k] = <<i, s + k>>
    OBVIOUS
  <2>4. QED
    BY <2>2, <2>3
<1> HIDE DEF p, q, r
<1>4. /\ p \o q \in Seq(Frame) /\ Len(p \o q) = s + t
      /\ \A k \in 1..s + t : (p \o q)[k] = IF k <= s THEN p[k] ELSE q[k - s]
  BY <1>2, <1>3, ConcatProperties
<1>5. ASSUME NEW k \in 1..s + t
      PROVE  (p \o q)[k] = r[k]
  <2>1. CASE k <= s
    <3>1. k \in 1..s
      BY <2>1
    <3>2. p[k] = <<i, k>>
      BY <1>2, <3>1
    <3>3. r[k] = <<i, k>>
      BY <1>2
    <3>4. (p \o q)[k] = p[k]
      BY <1>4, <2>1
    <3>5. QED
      BY <3>2, <3>3, <3>4
  <2>2. CASE ~(k <= s)
    <3>1. k - s \in 1..t /\ s + (k - s) = k
      BY <2>2
    <3>2. q[k - s] = <<i, k>>
      BY <1>3, <3>1
    <3>3. r[k] = <<i, k>>
      BY <1>2
    <3>4. (p \o q)[k] = q[k - s]
      BY <1>4, <2>2
    <3>5. QED
      BY <3>2, <3>3, <3>4
  <2>3. QED
    BY <2>1, <2>2
<1>6. p \o q = r
  <2>1. Len(p \o q) = Len(r) /\ \A k \in 1..Len(p \o q) : (p \o q)[k] = r[k]
    BY <1>2, <1>4, <1>5
  <2>2. QED
    BY <1>2, <1>4, <2>1, SeqEqual
<1>7. QED
  BY <1>3, <1>6 DEF p, q, r

LEMMA EmptyPart ==
    ASSUME NEW S \in Seq(Frame), NEW i
    PROVE  S \o Part(i, 0) = S
<1>1. Part(i, 0) = <<>>
  BY DEF Part
<1>2. QED
  BY <1>1, ConcatEmptySeq

LEMMA StreamInvFacts ==
    ASSUME StdinInv
    PROVE  /\ calls \in Seq(Nat) /\ okCalls \in 0..Len(calls) /\ Len(calls) \in Nat
           /\ Current \in Nat /\ Current = okCalls + 1
           /\ Current <= Len(calls) => Current \in 1..Len(calls) /\ calls[Current] \in Nat
           /\ Stream(calls, okCalls) \in Seq(Frame)
<1>1. calls \in Seq(Nat) /\ okCalls \in Nat /\ okCalls <= Len(calls)
  BY DEF StdinInv, CreditInv, CallsOK, StreamInv
<1>2. Len(calls) \in Nat /\ okCalls \in 0..Len(calls)
  BY <1>1
<1>3. Stream(calls, okCalls) \in Seq(Frame)
  BY <1>1, <1>2, StreamTyped
<1>4. QED
  BY <1>1, <1>2, <1>3 DEF Current

\* A call that is queued.
LEMMA QueueKeepsStream ==
    ASSUME StdinInv, NEW x \in Nat, calls' = Append(calls, x), UNCHANGED <<chainVars, log>>
    PROVE  StreamInv'
<1>1. PICK s \in Nat : PartOk(s) /\ log = Stream(calls, okCalls) \o Part(Current, s)
  BY DEF StdinInv, StreamInv
<1>2. /\ Len(calls') = Len(calls) + 1
      /\ \A i \in 1..Len(calls) : calls'[i] = calls[i]
  BY StreamInvFacts
<1>3. UNCHANGED <<okCalls, broken, writer, left, log>> /\ Current' = Current
  BY DEF chainVars, Current
<1>4. Stream(calls', okCalls') = Stream(calls, okCalls)
  <2>1. okCalls \in Nat /\ \A i \in 1..okCalls : calls'[i] = calls[i]
    BY <1>2, StreamInvFacts
  <2>2. Stream(calls', okCalls) = Stream(calls, okCalls)
    BY <2>1, StreamOfPart
  <2>3. QED
    BY <1>3, <2>2
<1>5. Current <= Len(calls) => calls'[Current] = calls[Current] /\ Current <= Len(calls')
  BY <1>2, StreamInvFacts
<1>6. PartOk(s)'
  BY <1>1, <1>3, <1>5 DEF PartOk
<1>7. okCalls' <= Len(calls')
  BY <1>2, <1>3, StreamInvFacts
<1>8. QED
  BY <1>1, <1>3, <1>4, <1>6, <1>7 DEF StreamInv

\* A step that does not touch the chain, or that only wakes the call that waits.
LEMMA WakeKeepsStream ==
    ASSUME StdinInv, UNCHANGED <<calls, log, okCalls, broken, left>>,
           writer' = "idle" <=> writer = "idle"
    PROVE  StreamInv'
<1>1. PICK s \in Nat : PartOk(s) /\ log = Stream(calls, okCalls) \o Part(Current, s)
  BY DEF StdinInv, StreamInv
<1>2. PartOk(s)'
  BY <1>1 DEF PartOk, Current
<1>3. okCalls <= Len(calls)
  BY DEF StdinInv, StreamInv
<1>4. QED
  BY <1>1, <1>2, <1>3 DEF StreamInv, Current

LEMMA RejectKeepsStream ==
    ASSUME StdinInv, Reject, UNCHANGED <<calls, log>>
    PROVE  StreamInv'
<1>1. PICK s \in Nat : PartOk(s) /\ log = Stream(calls, okCalls) \o Part(Current, s)
  BY DEF StdinInv, StreamInv
<1>2. PartOk(s)'
  BY <1>1 DEF PartOk, Current, Reject
<1>3. okCalls <= Len(calls)
  BY DEF StdinInv, StreamInv
<1>4. QED
  BY <1>1, <1>2, <1>3 DEF StreamInv, Current, Reject

LEMMA EofKeepsStream ==
    ASSUME StdinInv, UNCHANGED calls, SendEof,
           Current <= Len(calls), calls[Current] = Eof, writer = "idle", ~broken
    PROVE  StreamInv'
<1>1. log = Stream(calls, okCalls)
  <2>1. PICK s \in Nat : PartOk(s) /\ log = Stream(calls, okCalls) \o Part(Current, s)
    BY DEF StdinInv, StreamInv
  <2>2. s = 0
    BY <2>1 DEF PartOk
  <2>3. QED
    BY <2>1, <2>2, StreamInvFacts, EmptyPart
<1> DEFINE c == Current
<1>2. c \in 1..Len(calls) /\ c = okCalls + 1 /\ okCalls = c - 1
  BY StreamInvFacts
<1>3. okCalls' = c /\ writer' = "idle" /\ ~broken' /\ log' = Append(log, <<c, 0>>)
  BY <1>2 DEF SendEof, Fulfil
<1>4. FramesOf(calls, c) = <<<<c, 0>>>>
  BY DEF FramesOf
<1> HIDE DEF c
<1>5. Stream(calls, c) = Stream(calls, okCalls) \o <<<<c, 0>>>> /\ Stream(calls, c) \in Seq(Frame)
  BY <1>2, <1>4, StreamInvFacts, StreamStep
<1>6. log' = Stream(calls, c)
  <2>1. <<c, 0>> \in Frame
    BY <1>2 DEF Frame
  <2>2. QED
    BY <1>1, <1>3, <1>5, <2>1, StreamInvFacts, AppendIsConcat
<1>7. log' = Stream(calls', okCalls') \o Part(Current', 0)
  BY <1>3, <1>5, <1>6, EmptyPart
<1>8. PartOk(0)' /\ okCalls' <= Len(calls')
  BY <1>2, <1>3, StreamInvFacts DEF PartOk
<1>9. QED
  BY <1>7, <1>8 DEF StreamInv

\* The loop of writeStdin goes on where it stopped.
LEMMA SendKeepsStream ==
    ASSUME StdinInv, NEW n \in Nat, NEW s \in Nat, SendChunks(n), UNCHANGED calls, ~broken,
           Current <= Len(calls), calls[Current] # Eof, calls[Current] = s + n,
           log = Stream(calls, okCalls) \o Part(Current, s)
    PROVE  StreamInv'
<1> DEFINE c == Current
           S == Stream(calls, okCalls)
<1>1. /\ c \in 1..Len(calls) /\ c \in Nat /\ okCalls = c - 1 /\ S \in Seq(Frame)
      /\ calls \in Seq(Nat) /\ Len(calls) \in Nat /\ calls[c] \in Nat /\ okCalls \in Nat
  BY StreamInvFacts
<1>2. PICK t \in Nat :
          /\ t <= n
          /\ log' = log \o [k \in 1..t |-> <<c, s + k>>]
          /\ IF t = n THEN okCalls' = c /\ writer' = "idle" /\ broken' = broken
             ELSE /\ left' = n - t /\ writer' # "idle"
                  /\ UNCHANGED <<okCalls, broken>>
  <2> DEFINE sending == Min({n, credits, Room})
  <2>1. Room \in Nat /\ credits \in Nat
    BY BoundsAssumption DEF Room, StdinInv, CreditInv, FlowOK
  <2>2. sending \in Nat /\ sending <= n
    BY <2>1, MinOfThree
  <2>3. calls[Current] - n = s
    BY <1>1
  <2>4. log' = log \o [k \in 1..sending |-> <<Current, s + k>>]
    BY <2>3 DEF SendChunks
  <2>5. IF sending = n THEN okCalls' = Current /\ writer' = "idle" /\ broken' = broken
        ELSE left' = n - sending /\ writer' # "idle" /\ UNCHANGED <<okCalls, broken>>
    BY DEF SendChunks, Fulfil, Current
  <2> HIDE DEF sending
  <2>6. QED
    BY <2>2, <2>4, <2>5
<1> DEFINE P == Part(c, s)
           Q == [k \in 1..t |-> <<c, s + k>>]
<1>3. Q \in Seq(Frame) /\ P \o Q = Part(c, s + t) /\ P \in Seq(Frame)
  BY <1>1, PartStep, PartForm
<1>4. log' = (S \o P) \o Q
  BY <1>2
<1>5. PICK u \in Nat : u = s + t
  OBVIOUS
<1>6. log' = S \o Part(c, u)
  <2>1. S \in Seq(Frame)
    BY <1>1
  <2>2. P \o Q = Part(c, u)
    BY <1>3, <1>5
  <2> HIDE DEF S, P, Q
  <2>3. (S \o P) \o Q = S \o (P \o Q)
    BY <1>3, <2>1, Regroup
  <2>4. QED
    BY <1>4, <2>2, <2>3
<1> HIDE DEF S, P, Q
<1>7. CASE t = n
  <2>1. FramesOf(calls, c) = Part(c, u)
    BY <1>5, <1>7 DEF FramesOf, Part
  <2>2. Stream(calls, c) = S \o FramesOf(calls, c) /\ Stream(calls, c) \in Seq(Frame)
    BY <1>1, StreamStep DEF S
  <2>3. okCalls' = c /\ writer' = "idle" /\ ~broken'
    BY <1>2, <1>7
  <2> HIDE DEF c
  <2>4. log' = Stream(calls', okCalls') \o Part(Current', 0)
    BY <1>6, <2>1, <2>2, <2>3, EmptyPart
  <2>5. PartOk(0)' /\ okCalls' <= Len(calls')
    BY <1>1, <2>3 DEF PartOk
  <2>6. QED
    BY <2>4, <2>5 DEF StreamInv
<1>8. CASE t # n
  <2>1. left' = n - t /\ writer' # "idle" /\ UNCHANGED <<okCalls, broken>>
    BY <1>2, <1>8
  <2>2. Current' = Current
    BY <2>1 DEF Current
  <2>3. u <= calls[Current] /\ calls[Current] = u + left'
    BY <1>2, <1>5, <2>1
  <2>4. PartOk(u)'
    BY <2>1, <2>2, <2>3 DEF PartOk
  <2>5. log' = Stream(calls', okCalls') \o Part(Current', u)
    BY <1>6, <2>1, <2>2 DEF S
  <2>6. okCalls' <= Len(calls')
    BY <1>1, <2>1
  <2>7. QED
    BY <2>4, <2>5, <2>6 DEF StreamInv
<1>9. QED
  BY <1>7, <1>8

LEMMA StreamNext == StdinInv /\ [Next]_vars => StreamInv'
<1> SUFFICES ASSUME StdinInv, [Next]_vars
             PROVE  StreamInv'
  OBVIOUS
<1> USE DEF flowVars, callVars, chainVars
<1>1. ASSUME NEW n \in 0..MaxChunks, Write(n)
      PROVE  StreamInv'
  BY <1>1, BoundsAssumption, QueueKeepsStream DEF Write
<1>2. CASE End
  <2>1. Eof \in Nat
    BY BoundsAssumption DEF Eof
  <2>2. QED
    BY <1>2, <2>1, QueueKeepsStream DEF End
<1>3. CASE StartCall
  <2>1. UNCHANGED calls /\ Current <= Len(calls) /\ ~broken /\ writer = "idle"
    BY <1>3 DEF StartCall
  <2>2. CASE ~writable
    BY <1>3, <2>1, <2>2, RejectKeepsStream DEF StartCall
  <2>3. CASE writable /\ calls[Current] = Eof
    <3>1. SendEof
      BY <1>3, <2>3 DEF StartCall
    <3>2. QED
      BY <2>1, <2>3, <3>1, EofKeepsStream
  <2>4. CASE writable /\ calls[Current] # Eof
    <3>1. PICK n \in Nat : n = calls[Current]
      BY <2>1, StreamInvFacts
    <3>2. SendChunks(n)
      BY <1>3, <2>4, <3>1 DEF StartCall
    <3>3. PICK s \in Nat : PartOk(s) /\ log = Stream(calls, okCalls) \o Part(Current, s)
      BY DEF StdinInv, StreamInv
    <3>4. s = 0 /\ calls[Current] = s + n
      BY <2>1, <3>1, <3>3 DEF PartOk
    <3>5. QED
      BY <2>1, <2>4, <3>2, <3>3, <3>4, SendKeepsStream
  <2>5. QED
    BY <2>2, <2>3, <2>4
<1>4. CASE Resume
  <2>1. UNCHANGED calls /\ writer # "idle"
    BY <1>4 DEF Resume
  <2>2. CASE ~writable
    BY <1>4, <2>1, <2>2, RejectKeepsStream DEF Resume
  <2>3. CASE writable
    <3>1. SendChunks(left) /\ left \in Nat
      BY <1>4, <2>3 DEF Resume, StdinInv, CreditInv, CallsOK
    <3>2. PICK s \in Nat : PartOk(s) /\ log = Stream(calls, okCalls) \o Part(Current, s)
      BY DEF StdinInv, StreamInv
    <3>3. /\ ~broken /\ Current <= Len(calls) /\ calls[Current] # Eof
          /\ calls[Current] = s + left
      BY <2>1, <3>2 DEF PartOk
    <3>4. QED
      BY <2>1, <3>1, <3>2, <3>3, SendKeepsStream
  <2>4. QED
    BY <2>2, <2>3
<1>5. CASE Stall
  BY <1>5, RejectKeepsStream DEF Stall
<1>6. CASE ProxyReceives
  BY <1>6, WakeKeepsStream DEF ProxyReceives
<1>7. CASE CommandReads
  BY <1>7, WakeKeepsStream DEF CommandReads
<1>8. ASSUME NEW chunks \in 1..window, RecvCredit(chunks)
      PROVE  StreamInv'
  <2>1. writer' = "idle" <=> writer = "idle"
    BY <1>8 DEF RecvCredit
  <2>2. QED
    BY <1>8, <2>1, WakeKeepsStream DEF RecvCredit
<1>9. ASSUME NEW chunks \in 0..window + 1, RecvBadCredit(chunks)
       PROVE  StreamInv'
  <2>1. UNCHANGED <<calls, log>> /\ (Reject \/ UNCHANGED <<okCalls, broken, writer, left>>)
    BY <1>9 DEF RecvBadCredit, AbortWriter
  <2>2. QED
    BY <2>1, RejectKeepsStream, WakeKeepsStream
<1>10. CASE Ready
  BY <1>10, WakeKeepsStream DEF Ready
<1>11. CASE StopWriting
  <2>1. UNCHANGED <<calls, log>> /\ (Reject \/ UNCHANGED <<okCalls, broken, writer, left>>)
    BY <1>11 DEF StopWriting, AbortWriter
  <2>2. QED
    BY <2>1, RejectKeepsStream, WakeKeepsStream
<1>12. CASE Close
  BY <1>12, WakeKeepsStream DEF Close
<1>13. CASE UNCHANGED vars
  BY <1>13, WakeKeepsStream DEF vars
<1>14. QED
  BY <1>1, <1>2, <1>3, <1>4, <1>5, <1>6, <1>7, <1>8, <1>9, <1>10, <1>11, <1>12, <1>13
     DEF Next, ClientStep, ProxyStep

LEMMA StdinNext == StdinInv /\ [Next]_vars => StdinInv'
  BY CreditNext, StreamNext DEF StdinInv

LEMMA StdinInit == Init => StdinInv
<1> SUFFICES ASSUME Init
             PROVE  StdinInv
  OBVIOUS
<1>1. CreditInv
  BY CreditInit
<1>2. calls = <<>> /\ okCalls = 0 /\ log = <<>> /\ writer = "idle" /\ broken = FALSE
  BY DEF Init
<1>3. log = Stream(calls, 0) \o Part(Current, 0)
  <2>1. <<>> \in Seq(Frame) /\ Stream(calls, 0) = <<>>
    BY StreamEmpty, EmptySeq
  <2>2. QED
    BY <1>2, <2>1, EmptyPart
<1>4. okCalls <= Len(calls) /\ PartOk(0)
  BY <1>2 DEF PartOk
<1>5. QED
  BY <1>1, <1>2, <1>3, <1>4 DEF StdinInv, StreamInv

\* The frames sent continue to the frames of all the calls.
LEMMA LogBegins ==
    ASSUME StdinInv
    PROVE  \E rest \in Seq(Frame) : log \in Seq(Frame) /\ Stream(calls, Len(calls)) = log \o rest
<1>1. PICK s \in Nat : PartOk(s) /\ log = Stream(calls, okCalls) \o Part(Current, s)
  BY DEF StdinInv, StreamInv
<1> DEFINE c == Current
           S == Stream(calls, okCalls)
           P == Part(c, s)
<1>2. /\ calls \in Seq(Nat) /\ okCalls \in 0..Len(calls) /\ c \in Nat /\ okCalls = c - 1
      /\ S \in Seq(Frame)
  BY StreamInvFacts
<1>3. CASE s = 0
  <2>1. log = S
    BY <1>1, <1>2, <1>3, EmptyPart
  <2>2. \E rest \in Seq(Frame) : Stream(calls, Len(calls)) = S \o rest
    BY <1>2, StreamGrows
  <2>3. QED
    BY <1>2, <2>1, <2>2
<1>4. CASE s > 0
  <2>1. c \in 1..Len(calls) /\ calls[c] # Eof /\ calls[c] \in Nat /\ s <= calls[c]
    BY <1>1, <1>4, StreamInvFacts DEF PartOk
  <2>2. PICK t \in Nat : calls[c] = s + t
    <3>1. calls[c] - s \in Nat /\ calls[c] = s + (calls[c] - s)
      BY <2>1
    <3>2. QED
      BY <3>1
  <2> DEFINE Q == [k \in 1..t |-> <<c, s + k>>]
  <2>3. Q \in Seq(Frame) /\ P \o Q = Part(c, s + t) /\ P \in Seq(Frame)
    BY <1>2, PartStep, PartForm
  <2>4. FramesOf(calls, c) = P \o Q
    BY <2>1, <2>2, <2>3 DEF FramesOf, Part
  <2>5. Stream(calls, c) = S \o FramesOf(calls, c)
    BY <1>2, <2>1, StreamStep
  <2>6. c \in 0..Len(calls)
    BY <2>1
  <2>7. PICK more \in Seq(Frame) : Stream(calls, Len(calls)) = Stream(calls, c) \o more
    BY <1>2, <2>6, StreamGrows
  <2>8. log = S \o P
    BY <1>1
  <2> HIDE DEF S, P, Q, c
  <2>9. log \in Seq(Frame) /\ Q \o more \in Seq(Frame)
    BY <1>2, <2>3, <2>8, ConcatProperties
  <2>10. Stream(calls, c) = log \o Q
    <3>1. (S \o P) \o Q = S \o (P \o Q)
      BY <1>2, <2>3, Regroup
    <3>2. QED
      BY <2>4, <2>5, <2>8, <3>1
  <2>11. (log \o Q) \o more = log \o (Q \o more)
    BY <2>3, <2>9, Regroup
  <2>12. QED
    BY <2>7, <2>9, <2>10, <2>11
<1>5. QED
  BY <1>3, <1>4

LEMMA StdinProperties == StdinInv => StreamInOrder /\ ResolvedWasSent
<1> SUFFICES ASSUME StdinInv
             PROVE  StreamInOrder /\ ResolvedWasSent
  OBVIOUS
<1>1. \A m \in Nat : StreamOf(m) = Stream(calls, m)
  BY DEF StreamOf, Stream, Frames, FramesOf
<1>2. StreamInOrder
  <2>1. PICK rest \in Seq(Frame) :
            log \in Seq(Frame) /\ Stream(calls, Len(calls)) = log \o rest
    BY LogBegins
  <2>2. IsPrefix(log, Stream(calls, Len(calls)))
    BY <2>1, PrefixOfConcat
  <2>3. QED
    BY <1>1, <2>2, StreamInvFacts DEF StreamInOrder
<1>3. ResolvedWasSent
  <2>1. PICK s \in Nat : log = Stream(calls, okCalls) \o Part(Current, s)
    BY DEF StdinInv, StreamInv
  <2>2. Part(Current, s) \in Seq(Frame) /\ Stream(calls, okCalls) \in Seq(Frame)
    BY StreamInvFacts, PartForm
  <2>3. IsPrefix(Stream(calls, okCalls), log)
    BY <2>1, <2>2, PrefixOfConcat
  <2>4. QED
    BY <1>1, <2>3, StreamInvFacts DEF ResolvedWasSent
<1>4. QED
  BY <1>2, <1>3

\* writeStdin and closeStdin behind the promise chain: whatever the credits, the send
\* buffer and the aborts do, the socket has got a beginning of the frames of the calls,
\* each once and in call order, the EOF after every chunk before it.
THEOREM FramesInCallOrder == Spec => []StreamInOrder
  BY StdinInit, StdinNext, StdinProperties, PTL DEF Spec

\* The promise of a write() or end() that is fulfilled: all frames of the call, and of
\* the calls before it, are in the socket.
THEOREM FulfilledWasSent == Spec => []ResolvedWasSent
  BY StdinInit, StdinNext, StdinProperties, PTL DEF Spec
=============================================================================
