-------------------------- MODULE AlgorithmsProofs ---------------------------
(***************************************************************************)
(* The sequential algorithms of OutputCapture, InfraService and            *)
(* FlagsResolver, for every input.                                         *)
(***************************************************************************)
EXTENDS OutputCapture, InfraService, FlagsResolver, FiniteSetTheorems, WellFoundedInduction, TLAPS

-----------------------------------------------------------------------------
(* The captured output is exact for every limit, every output and every    *)
(* split of it into frames.  The invariant says, for each output, what its *)
(* capture holds as a function of how much has arrived; OutputExact says   *)
(* it only of the result.                                                  *)

Captures == [bytes: Nat, text: Nat, tail: BOOLEAN, truncated: BOOLEAN, finished: BOOLEAN]
Texts == [length: Nat, tail: BOOLEAN]

\* What a capture retains of an output of which n bytes have arrived.
Kept(n) == IF options.capture THEN Smaller(n, options.limit) ELSE 0

\* The state of one output.
OutputOK(o) ==
    /\ written[o] \in Streams
    /\ received[o] \in 0..written[o].length
    /\ captured[o] \in Captures
    /\ captured[o].bytes = Kept(received[o])
    /\ captured[o].text = Decoded(written[o], captured[o].bytes)
    /\ captured[o].truncated <=> options.capture /\ received[o] > options.limit
    /\ captured[o].finished <=> result # NoResult
    /\ captured[o].tail <=> /\ captured[o].finished
                            /\ captured[o].text < captured[o].bytes
                            /\ ~captured[o].truncated
    /\ shown[o] \in Texts
    /\ shown[o].length = Decoded(written[o], received[o])

CInv ==
    /\ options \in [capture: BOOLEAN, limit: Limits]
    /\ written \in [Outputs -> Streams]
    /\ DOMAIN received = Outputs
    /\ DOMAIN captured = Outputs
    /\ DOMAIN shown = Outputs
    /\ \A o \in Outputs : OutputOK(o)
    /\ OutputExact

-----------------------------------------------------------------------------
(* What one operation does to one capture.                                 *)

LEMMA DecodedBound ==
    ASSUME NEW s \in Streams, NEW n \in 0..s.length, NEW m \in 0..n
    PROVE  /\ Decoded(s, m) \in Nat
           /\ Decoded(s, m) <= m
           /\ Decoded(s, m) <= Decoded(s, n)
<1>1. s.length \in Nat /\ m \in 0..s.length
  BY StreamsAssumption
<1>2. QED
  BY <1>1, StreamsAssumption DEF Decoded

LEMMA CapturedOK ==
    ASSUME options \in [capture: BOOLEAN, limit: Limits],
           NEW s \in Streams, NEW k \in Nat, NEW n \in Nat, k + n \in 0..s.length,
           NEW c \in Captures,
           c.bytes = Kept(k), c.text = Decoded(s, c.bytes), ~c.finished, ~c.tail,
           c.truncated <=> options.capture /\ k > options.limit
    PROVE  LET d == Captured(c, s, n) IN
           /\ d \in Captures
           /\ d.bytes = Kept(k + n)
           /\ d.text = Decoded(s, d.bytes)
           /\ d.truncated <=> options.capture /\ k + n > options.limit
           /\ ~d.finished
           /\ ~d.tail
<1>1. options.limit \in Nat /\ s.length \in Nat
  BY LimitsAssumption, StreamsAssumption
<1>2. CASE ~options.capture
  BY <1>1, <1>2 DEF Captured, Kept, Captures
<1>3. CASE options.capture
  <2> DEFINE bytes == c.bytes + Smaller(n, options.limit - c.bytes)
             d == Captured(c, s, n)
  <2>1. bytes = Smaller(k + n, options.limit) /\ bytes \in 0..(k + n)
    BY <1>1, <1>3 DEF Kept, Smaller
  <2>2. Decoded(s, bytes) \in Nat
    BY <2>1, DecodedBound
  <2>3. d = [c EXCEPT !.bytes = bytes, !.text = Decoded(s, bytes),
                      !.truncated = @ \/ Smaller(n, options.limit - c.bytes) < n]
    BY <1>3 DEF Captured
  <2>4. d.truncated <=> k + n > options.limit
    BY <1>1, <1>3, <2>3 DEF Kept, Smaller, Captures
  <2>5. /\ d \in Captures /\ d.bytes = bytes /\ d.text = Decoded(s, bytes)
        /\ ~d.finished /\ ~d.tail
    <3>1. c \in Captures /\ bytes \in Nat /\ (c.truncated \/ Smaller(n, options.limit - c.bytes) < n) \in BOOLEAN
      BY <2>1
    <3> HIDE DEF bytes
    <3>2. QED
      BY <2>2, <2>3, <3>1 DEF Captures
  <2>6. bytes = Kept(k + n)
    BY <1>3, <2>1 DEF Kept
  <2>7. QED
    BY <1>3, <2>4, <2>5, <2>6
<1>4. QED
  BY <1>2, <1>3

LEMMA FinishedOK ==
    ASSUME NEW c \in Captures,
           c.tail <=> c.finished /\ c.text < c.bytes /\ ~c.truncated
    PROVE  LET d == Finished(c) IN
           /\ d \in Captures
           /\ d.bytes = c.bytes
           /\ d.text = c.text
           /\ d.truncated = c.truncated
           /\ d.finished
           /\ d.tail <=> c.text < c.bytes /\ ~c.truncated
  BY DEF Finished, Captures

-----------------------------------------------------------------------------
(* The invariant.                                                          *)

LEMMA CInvInit == Init => CInv
<1> SUFFICES ASSUME Init
             PROVE  CInv
  OBVIOUS
<1>1. ASSUME NEW o \in Outputs
      PROVE  OutputOK(o)
  <2>1. written[o] \in Streams /\ written[o].length \in Nat /\ options.limit \in Nat
    BY StreamsAssumption, LimitsAssumption DEF Init
  <2>2. Decoded(written[o], 0) = 0
    BY <2>1, DecodedBound
  <2>3. QED
    BY <2>1, <2>2, <1>1 DEF Init, OutputOK, NewCapture, Captures, Texts, Kept, Smaller
<1>2. QED
  BY <1>1 DEF Init, CInv, OutputExact

\* The result is exact when it is made of finished captures.
LEMMA ResultExact ==
    ASSUME CInv, NEW kind, kind \in {"exit", "interrupted"},
           options' = options, written' = written, received' = received,
           captured' = [o \in Outputs |-> Finished(captured[o])],
           result' = Settled(kind, captured'),
           kind = "exit" => shown' = [o \in Outputs |->
               [shown[o] EXCEPT !.tail = shown[o].length < received[o]]]
    PROVE  OutputExact'
<1>1. ASSUME NEW o \in Outputs
      PROVE  /\ result'.text[o] = Whole(written[o], received[o])
             /\ captured'[o].truncated <=> options.capture /\ received[o] > options.limit
             /\ kind = "exit" => /\ result'.text[o].length <= shown'[o].length
                                 /\ result'.text[o].tail => shown'[o] = result'.text[o]
  <2>1. OutputOK(o)
    BY DEF CInv
  <2>2. options.limit \in Nat /\ options.capture \in BOOLEAN
        /\ written[o] \in Streams /\ written[o].length \in Nat
        /\ received[o] \in 0..written[o].length
    BY <2>1, StreamsAssumption, LimitsAssumption DEF CInv, OutputOK
  <2> DEFINE c == captured[o]
             d == Finished(c)
  <2>3. /\ d.bytes = c.bytes /\ d.text = c.text /\ d.truncated = c.truncated
        /\ d.tail <=> c.text < c.bytes /\ ~c.truncated
        /\ d \in Captures
    BY <2>1, FinishedOK DEF OutputOK
  <2>4. captured'[o] = d
    OBVIOUS
  <2>5. result'.text[o] = [length |-> d.text, tail |-> d.tail]
    BY <2>4 DEF Settled, Text
  <2>6. Kept(received[o]) \in 0..received[o]
    BY <2>2 DEF Kept, Smaller
  <2>7. /\ Decoded(written[o], 0) = 0
        /\ Decoded(written[o], Kept(received[o])) \in Nat
        /\ Decoded(written[o], Kept(received[o])) <= Decoded(written[o], received[o])
        /\ Decoded(written[o], received[o]) \in Nat
        /\ Decoded(written[o], received[o]) <= received[o]
    <3>1. 0 \in 0..received[o] /\ received[o] \in 0..received[o]
      BY <2>2
    <3>2. QED
      BY <3>1, <2>2, <2>6, DecodedBound
  <2>8. result'.text[o] = Whole(written[o], received[o])
    <3>1. CASE ~options.capture
      <4>1. c.bytes = 0 /\ c.text = 0
        BY <2>1, <2>7, <3>1 DEF OutputOK, Kept
      <4>2. d.text = 0 /\ d.tail = FALSE
        BY <4>1, <2>3 DEF Captures
      <4>3. QED
        BY <4>2, <2>5, <2>7, <3>1 DEF Whole
    <3>2. CASE options.capture
      <4>1. d.text = Decoded(written[o], Smaller(received[o], options.limit))
        BY <2>1, <2>3, <3>2 DEF OutputOK, Kept
      <4>2. d.tail <=> /\ received[o] <= options.limit
                       /\ d.text < Smaller(received[o], options.limit)
        BY <2>1, <2>2, <2>3, <3>2 DEF OutputOK, Kept
      <4>3. d.tail \in BOOLEAN
        BY <2>3 DEF Captures
      <4>4. QED
        BY <4>1, <4>2, <4>3, <2>5, <3>2 DEF Whole
    <3>3. QED
      BY <3>1, <3>2
  <2>9. captured'[o].truncated <=> options.capture /\ received[o] > options.limit
    BY <2>1, <2>3, <2>4 DEF OutputOK
  <2>10. ASSUME kind = "exit"
         PROVE  /\ result'.text[o].length <= shown'[o].length
                /\ result'.text[o].tail => shown'[o] = result'.text[o]
    <3>1. shown[o] \in Texts /\ shown[o].length = Decoded(written[o], received[o])
      BY <2>1 DEF OutputOK
    <3>2. shown'[o] = [length |-> Decoded(written[o], received[o]),
                       tail |-> Decoded(written[o], received[o]) < received[o]]
      BY <2>10, <3>1 DEF Texts
    <3>3. result'.text[o].length = Decoded(written[o], Kept(received[o]))
      BY <2>1, <2>3, <2>5 DEF OutputOK
    <3>4. ASSUME d.tail
          PROVE  shown'[o] = [length |-> d.text, tail |-> d.tail]
      <4>1. Kept(received[o]) = received[o] /\ d.text < received[o]
        BY <2>1, <2>2, <2>3, <3>4, <2>7 DEF OutputOK, Kept, Smaller
      <4>2. d.text = Decoded(written[o], received[o])
        BY <4>1, <2>1, <2>3 DEF OutputOK
      <4>3. d.tail = TRUE
        BY <3>4, <2>3 DEF Captures
      <4>4. QED
        BY <4>1, <4>2, <4>3, <3>2
    <3>5. QED
      BY <2>5, <2>7, <3>2, <3>3, <3>4
  <2>11. QED
    BY <2>8, <2>9, <2>10
<1>2. /\ result'.kind = kind
      /\ result'.truncated <=> \E o \in Outputs : captured'[o].truncated
  BY DEF Settled
<1>3. QED
  BY <1>1, <1>2 DEF OutputExact, Whole

LEMMA CInvNext == CInv /\ [Next]_vars => CInv'
<1> SUFFICES ASSUME CInv, [Next]_vars
             PROVE  CInv'
  OBVIOUS
<1>0. options.limit \in Nat
  BY LimitsAssumption DEF CInv
<1>1. ASSUME NEW o \in Outputs, NEW n \in 1..written[o].length, Receive(o, n)
      PROVE  CInv'
  <2>1. OutputOK(o) /\ written[o].length \in Nat /\ n \in Nat
    BY <1>1, StreamsAssumption DEF CInv, OutputOK
  <2>2. received[o] \in Nat /\ received[o] + n \in 0..written[o].length /\ ~captured[o].finished
    BY <1>1, <2>1 DEF Receive, OutputOK
  <2>3. OutputOK(o)'
    <3> DEFINE c == captured[o]
               d == Captured(c, written[o], n)
    <3>1. /\ d \in Captures
          /\ d.bytes = Kept(received[o] + n)
          /\ d.text = Decoded(written[o], d.bytes)
          /\ d.truncated <=> options.capture /\ received[o] + n > options.limit
          /\ ~d.finished
          /\ ~d.tail
      <4>1. ~c.tail
        BY <2>1, <2>2 DEF OutputOK
      <4>2. options \in [capture: BOOLEAN, limit: Limits]
        BY DEF CInv
      <4>3. QED
        BY <2>1, <2>2, <4>1, <4>2, CapturedOK DEF OutputOK
    <3>2. /\ captured'[o] = d
          /\ received'[o] = received[o] + n
          /\ written'[o] = written[o]
          /\ options' = options
          /\ result' = result /\ result = NoResult
      BY <1>1 DEF Receive, CInv
    <3>4. shown'[o] = [shown[o] EXCEPT !.length = Decoded(written[o], received[o] + n)]
      BY <1>1, <3>2 DEF Receive, CInv
    <3>5. Decoded(written[o], received[o] + n) \in Nat
      BY <2>1, <2>2, DecodedBound DEF OutputOK
    <3>6. shown'[o] \in Texts /\ shown'[o].length = Decoded(written'[o], received'[o])
      BY <2>1, <3>2, <3>4, <3>5 DEF OutputOK, Texts
    <3>7. (captured[o].bytes = Kept(received[o]))'
      BY <3>1, <3>2 DEF Kept
    <3>8. QED
      BY <2>1, <2>2, <3>1, <3>2, <3>6, <3>7 DEF OutputOK
  <2>4. ASSUME NEW p \in Outputs, p # o
        PROVE  OutputOK(p)'
    <3>1. OutputOK(p)
      BY DEF CInv
    <3>2. /\ written'[p] = written[p] /\ received'[p] = received[p]
          /\ captured'[p] = captured[p] /\ shown'[p] = shown[p]
          /\ options' = options /\ result' = result
      BY <1>1, <2>4 DEF Receive, CInv
    <3>3. QED
      BY <3>1, <3>2 DEF OutputOK, Kept, Decoded
  <2>5. /\ options' \in [capture: BOOLEAN, limit: Limits]
        /\ written' \in [Outputs -> Streams]
        /\ DOMAIN received' = Outputs /\ DOMAIN captured' = Outputs /\ DOMAIN shown' = Outputs
        /\ OutputExact'
    BY <1>1 DEF Receive, CInv, OutputExact
  <2>6. QED
    BY <2>3, <2>4, <2>5 DEF CInv
<1>2. ASSUME NEW kind \in {"exit", "interrupted"},
             options' = options, written' = written, received' = received,
             captured' = [o \in Outputs |-> Finished(captured[o])],
             result' # NoResult,
             \A o \in Outputs : shown'[o] \in Texts /\ shown'[o].length = shown[o].length,
             DOMAIN shown' = Outputs,
             OutputExact'
      PROVE  CInv'
  <2>1. ASSUME NEW o \in Outputs
        PROVE  OutputOK(o)'
    <3>1. OutputOK(o)
      BY DEF CInv
    <3> DEFINE c == captured[o]
               d == Finished(c)
    <3>2. captured'[o] = d
      BY <1>2
    <3>3. /\ d \in Captures /\ d.bytes = c.bytes /\ d.text = c.text
          /\ d.truncated = c.truncated /\ d.finished
          /\ d.tail <=> c.text < c.bytes /\ ~c.truncated
      BY <3>1, FinishedOK DEF OutputOK
    <3>4. QED
      BY <1>2, <3>1, <3>2, <3>3 DEF OutputOK, Kept, Decoded
  <2>2. QED
    BY <1>2, <2>1 DEF CInv
<1>3. CASE Exit
  <2>1. OutputExact'
    BY <1>3, ResultExact DEF Exit
  <2>2. ASSUME NEW o \in Outputs
        PROVE  shown'[o] \in Texts /\ shown'[o].length = shown[o].length
    <3>1. OutputOK(o)
      BY DEF CInv
    <3>2. shown'[o] = [shown[o] EXCEPT !.tail = shown[o].length < received[o]]
      BY <1>3 DEF Exit
    <3> DEFINE cut == shown[o].length < received[o]
    <3>3. cut \in BOOLEAN /\ shown[o] \in Texts /\ shown'[o] = [shown[o] EXCEPT !.tail = cut]
      BY <3>1, <3>2 DEF OutputOK
    <3> HIDE DEF cut
    <3>4. QED
      BY <3>3 DEF Texts
  <2>3. result' # NoResult /\ DOMAIN shown' = Outputs
    BY <1>3 DEF Exit, Settled, NoResult
  <2>4. QED
    BY <1>2, <1>3, <2>1, <2>2, <2>3 DEF Exit
<1>4. CASE Interrupted
  <2>1. ASSUME NEW o \in Outputs
        PROVE  shown'[o] \in Texts /\ shown'[o].length = shown[o].length
    BY <1>4 DEF Interrupted, CInv, OutputOK
  <2>2. result' # NoResult /\ DOMAIN shown' = Outputs
    BY <1>4 DEF Interrupted, Settled, NoResult, CInv
  <2>3. OutputExact'
    <3>1. CASE result = NoResult
      BY <1>4, <3>1, ResultExact DEF Interrupted
    <3>2. CASE result # NoResult
      BY <1>4, <3>2 DEF Interrupted, CInv, OutputExact, Whole, Decoded, Smaller
    <3>3. QED
      BY <3>1, <3>2
  <2>4. QED
    BY <1>2, <1>4, <2>1, <2>2, <2>3 DEF Interrupted
<1>5. CASE UNCHANGED vars
  BY <1>5 DEF vars, CInv, OutputOK, OutputExact, Kept, Whole, Decoded, Smaller
<1>6. QED
  BY <1>1, <1>3, <1>4, <1>5 DEF Next

\* Whatever the limit, the output and its frames, the captured text is the whole
\* characters within the limit and truncated says whether there was more (exec.ts:627).
THEOREM OutputIsExact == Spec => []OutputExact
<1>1. CInv => OutputExact
  BY DEF CInv
<1>2. QED
  BY CInvInit, CInvNext, <1>1, PTL DEF Spec

-----------------------------------------------------------------------------
(* A function of any size is accepted when, and only when, its start       *)
(* command fits in one argument.                                           *)

\* The limit is the exact one: a source of n bytes fits when n is at most
\* FUNCTION_SOURCE_MAX_BYTES, and no longer one does (sdk.ts:245-251).
THEOREM LimitIsExact ==
    ASSUME NEW n \in Nat
    PROVE  /\ Base64Length(n) \in Nat
           /\ ~CodeTooLarge(n) <=>
                  FUNCTION_START_COMMAND_PREFIX + Base64Length(n) + 1 <= 128 * 1024
<1>1. FUNCTION_SOURCE_MAX_BYTES = 98295
  BY DEF FUNCTION_SOURCE_MAX_BYTES, MAX_COMMAND_BYTES, FUNCTION_START_COMMAND_PREFIX
<1> DEFINE q == (n + 2) \div 3
<1>2. q \in Nat /\ 3 * q <= n + 2 /\ n + 2 <= 3 * q + 2
  OBVIOUS
<1> HIDE DEF q
<1>3. Base64Length(n) = 4 * q
  BY DEF Base64Length, q
<1>4. QED
  BY <1>1, <1>2, <1>3 DEF CodeTooLarge, FUNCTION_START_COMMAND_PREFIX

SourceOK(source) ==
    source # Absent =>
        /\ Head(source) = [s \in SourceSettings |-> Head(source)[s]]
        /\ Head(source).type \in SourceTypes

LEMMA SourceKind ==
    ASSUME NEW source, SourceOK(source), NEW root
    PROVE  KindOf(NormalizeSource(source, root)) \notin {"function", "error"}
<1> DEFINE g == Head(source)
<1>1. ASSUME NEW type, NEW name, NEW branch, NEW r, NEW rest, type \notin {"function", "error"}
      PROVE  KindOf(Source(type, name, branch, r, rest)) \notin {"function", "error"}
  BY <1>1 DEF KindOf, Source, Absent
<1>2. KindOf(Absent) \notin {"function", "error"}
  BY DEF KindOf
<1>3. CASE source # Absent /\ g.type \notin {"repo", "image name"}
  <2>1. NormalizeSource(source, root) = <<[g EXCEPT !.rootDirectory = Coalesce(<<@, root>>)]>>
    BY <1>3 DEF NormalizeSource
  <2>2. [g EXCEPT !.rootDirectory = Coalesce(<<@, root>>)].type = g.type
    BY <1>3 DEF SourceOK, SourceSettings
  <2>3. g.type \notin {"function", "error"}
    BY <1>3 DEF SourceOK, SourceTypes
  <2>4. QED
    <3> DEFINE made == [g EXCEPT !.rootDirectory = Coalesce(<<@, root>>)]
    <3> HIDE DEF made
    <3>1. made.type \notin {"function", "error"} /\ <<made>> # Absent
      BY <2>2, <2>3 DEF Absent, made
    <3>2. KindOf(<<made>>) \notin {"function", "error"}
      BY <3>1 DEF KindOf
    <3>3. QED
      BY <2>1, <3>2 DEF made
<1>4. CASE source # Absent /\ g.type = "repo"
  BY <1>1, <1>4 DEF NormalizeSource
<1>5. CASE source # Absent /\ g.type = "image name"
  BY <1>1, <1>5 DEF NormalizeSource
<1>6. CASE source = Absent
  BY <1>1, <1>2, <1>6 DEF NormalizeSource
<1>7. QED
  BY <1>3, <1>4, <1>5, <1>6

LEMMA ServiceKind ==
    ASSUME NEW c, SourceOK(c.source)
    PROVE  Service(c).kind \notin {"function", "error"}
<1>1. Service(c).kind = KindOf(NormalizeSource(c.source, Coalesce(<<c.root, c.rootDirectory>>)))
  BY DEF Service
<1>2. QED
  BY <1>1, SourceKind

LEMMA FirstGiven ==
    ASSUME NEW f, NEW x, NEW y, NEW z
    PROVE  Coalesce(<<<<f>>, x, y, z>>) = <<f>>
<1> DEFINE settings == <<<<f>>, x, y, z>>
           given == {i \in DOMAIN settings : settings[i] # Absent}
<1>1. 1 \in given /\ given \subseteq 1..4
  BY DEF Absent
<1>2. (CHOOSE i \in given : \A j \in given : i <= j) = 1
  BY <1>1
<1>3. QED
  BY <1>1, <1>2 DEF Coalesce

\* The start command of a function is that of its source file.
LEMMA FnStart ==
    ASSUME NEW c, c = [s \in Settings |-> c[s]],
           c.deploy = [s \in DeploySettings |-> c.deploy[s]],
           NEW code, Fn(c, code).kind = "function"
    PROVE  /\ ~CodeTooLarge(code)
           /\ Head(Fn(c, code).deploy.startCommand) = FunctionStartCommand(code)
<1> DEFINE source == IF c.source = Absent
                     THEN Source("image", <<"bun">>, Absent, Absent, Absent) ELSE c.source
           given == [c EXCEPT !.source = source, !.start = <<FunctionStartCommand(code)>>]
<1>1. ~CodeTooLarge(code) /\ Fn(c, code) = [Service(given) EXCEPT !.kind = "function"]
  BY DEF Fn
<1>2. Fn(c, code).deploy = NormalizeDeploy(given)
  BY <1>1 DEF Service
<1>3. /\ given.start = <<FunctionStartCommand(code)>>
      /\ given.deploy = [s \in DeploySettings |-> given.deploy[s]]
  BY DEF Settings
<1> HIDE DEF given
<1>4. NormalizeDeploy(given).startCommand =
        Coalesce(<<given.start, given.startCommand, given.run.command, given.deploy.startCommand>>)
  <2>1. "startCommand" \in DOMAIN given.deploy
    BY <1>3 DEF DeploySettings
  <2>2. QED
    BY <2>1 DEF NormalizeDeploy
<1>5. Fn(c, code).deploy.startCommand = <<FunctionStartCommand(code)>>
  BY <1>2, <1>3, <1>4, FirstGiven
<1>6. QED
  BY <1>1, <1>5

FInv == family \in Families /\ config \in family /\ FunctionFits

LEMMA FInvInit == InfraInit => FInv
  BY DEF InfraInit, FInv, FunctionFits, Nothing

LEMMA FInvNext == FInv /\ [InfraNext]_infraVars => FInv'
<1> SUFFICES ASSUME FInv, [InfraNext]_infraVars
             PROVE  FInv'
  OBVIOUS
<1>1. /\ config = [s \in Settings |-> config[s]]
      /\ config.deploy = [s \in DeploySettings |-> config.deploy[s]]
      /\ SourceOK(config.source)
  BY FamiliesAssumption DEF FInv, SourceOK
<1>2. CASE CallService
  <2>1. node' = Service(config) /\ UNCHANGED <<family, config>>
    BY <1>2 DEF CallService
  <2>2. node'.kind \notin {"function", "error"}
    BY <1>1, <2>1, ServiceKind
  <2>3. QED
    BY <2>1, <2>2 DEF FInv, FunctionFits
<1>3. ASSUME NEW code \in CodeSizes, CallFn(code)
      PROVE  FInv'
  <2>1. code \in Nat /\ node' = Fn(config, code)
    BY <1>3, CodeSizesAssumption DEF CallFn
  <2>2. CASE node'.kind = "function"
    <3>1. ~CodeTooLarge(code) /\ Head(node'.deploy.startCommand) = FunctionStartCommand(code)
      BY <1>1, <2>1, <2>2, FnStart
    <3>2. Head(node'.deploy.startCommand).bytes + 1 <= 128 * 1024
      BY <2>1, <3>1, LimitIsExact DEF FunctionStartCommand
    <3>3. QED
      BY <1>3, <2>2, <3>2 DEF CallFn, FInv, FunctionFits
  <2>3. CASE node'.kind = "error"
    <3>1. HasStart(config) \/ CodeTooLarge(code)
      BY <2>1, <2>3 DEF Fn
    <3>2. node' = [kind |-> "error", code |-> code]
      BY <2>1, <3>1 DEF Fn
    <3>3. QED
      BY <1>3, <2>1, <2>3, <3>1, <3>2, LimitIsExact DEF CallFn, FInv, FunctionFits, FUNCTION_START_COMMAND_PREFIX, HasStart
  <2>4. CASE node'.kind \notin {"function", "error"}
    BY <1>3, <2>4 DEF CallFn, FInv, FunctionFits
  <2>5. QED
    BY <2>2, <2>3, <2>4
<1>4. CASE CallAgain
  BY <1>4 DEF CallAgain, FInv, FunctionFits, HasStart
<1>5. CASE UNCHANGED infraVars
  BY <1>5 DEF infraVars, FInv, FunctionFits, HasStart
<1>6. QED
  BY <1>2, <1>3, <1>4, <1>5 DEF InfraNext

\* fn() accepts a source file of any size exactly when its start command fits.
THEOREM FunctionsFit == InfraSpec => []FunctionFits
<1>1. FInv => FunctionFits
  BY DEF FInv
<1>2. QED
  BY FInvInit, FInvNext, <1>1, PTL DEF InfraSpec

-----------------------------------------------------------------------------
(* Numbers.  A set of numbers has a least one: the well-foundedness of the *)
(* order on Nat stands in for an induction.                                *)

Less == {p \in Nat \X Nat : p[1] < p[2]}

LEMMA LeastIn ==
    ASSUME NEW S \in SUBSET Nat, S # {}
    PROVE  \E x \in S : \A y \in S : x <= y
<1>1. IsWellFoundedOn(Less, Nat)
  BY NatLessThanWellFounded DEF OpToRel, Less
<1>2. PICK x \in S : \A y \in S : <<y, x>> \notin Less
  BY <1>1, WFMin
<1>3. ASSUME NEW y \in S
      PROVE  x <= y
  <2>1. <<y, x>> \notin Less
    BY <1>2
  <2>2. y \in Nat /\ x \in Nat
    OBVIOUS
  <2>3. QED
    BY <2>1, <2>2 DEF Less
<1>4. QED
  BY <1>3

-----------------------------------------------------------------------------
(* The node service() returns is itself a configuration, and one of the    *)
(* spellings of its parts: normalising it again changes none of them.  One *)
(* lemma for each part; the configurations need only the shape that        *)
(* FamiliesAssumption gives them.                                          *)

\* At most the k-th of n spellings is given.
OnlyAt(f, n, k, x) ==
    /\ n \in Nat /\ DOMAIN f = 1..n /\ k \in 1..n /\ f[k] = x
    /\ \A i \in 1..n : i # k => f[i] = Absent

LEMMA CoalesceAt ==
    ASSUME NEW f, NEW n, NEW k, NEW x, OnlyAt(f, n, k, x)
    PROVE  Coalesce(f) = x
<1> DEFINE given == {i \in DOMAIN f : f[i] # Absent}
<1>1. CASE x = Absent
  <2>1. given = {}
    BY <1>1 DEF OnlyAt
  <2>2. QED
    BY <1>1, <2>1 DEF Coalesce
<1>2. CASE x # Absent
  <2>1. given = {k}
    BY <1>2 DEF OnlyAt
  <2>2. (CHOOSE i \in given : \A j \in given : i <= j) = k
    BY <2>1 DEF OnlyAt
  <2>3. QED
    BY <2>1, <2>2 DEF Coalesce, OnlyAt
<1>3. QED
  BY <1>1, <1>2

\* One of the spellings is given: the last of two, three or four, or the first of two.
LEMMA LastGiven ==
    ASSUME NEW x
    PROVE  /\ Coalesce(<<Absent, x>>) = x
           /\ Coalesce(<<x, Absent>>) = x
           /\ Coalesce(<<Absent, Absent, x>>) = x
           /\ Coalesce(<<Absent, Absent, Absent, x>>) = x
<1>1. OnlyAt(<<Absent, x>>, 2, 2, x)
  BY DEF OnlyAt
<1>2. OnlyAt(<<x, Absent>>, 2, 1, x)
  BY DEF OnlyAt
<1>3. OnlyAt(<<Absent, Absent, x>>, 3, 3, x)
  BY DEF OnlyAt
<1>4. OnlyAt(<<Absent, Absent, Absent, x>>, 4, 4, x)
  BY DEF OnlyAt
<1>5. QED
  BY <1>1, <1>2, <1>3, <1>4, CoalesceAt

ConfigOK(c) ==
    /\ c = [s \in Settings |-> c[s]]
    /\ c.deploy = [s \in DeploySettings |-> c.deploy[s]]
    /\ SourceOK(c.source)
    /\ DOMAIN c.volumeMounts = 1..Len(c.volumeMounts) /\ Len(c.volumeMounts) \in Nat

LEMMA OneOf == ASSUME NEW x PROVE <<x>> # <<>> /\ Head(<<x>>) = x
  OBVIOUS

\* A source that has a type keeps it.
LEMMA Typed ==
    ASSUME NEW g, g.type \notin {"repo", "image name"}, NEW root
    PROVE  NormalizeSource(<<g>>, root) =
             <<[g EXCEPT !.rootDirectory = Coalesce(<<g.rootDirectory, root>>)]>>
<1>1. <<g>> # Absent /\ Head(<<g>>) = g
  BY OneOf DEF Absent
<1> DEFINE s == <<g>>
<1> HIDE DEF s
<1>2. s # Absent /\ Head(s) = g
  BY <1>1 DEF s
<1>3. NormalizeSource(s, root) = <<[g EXCEPT !.rootDirectory = Coalesce(<<@, root>>)]>>
  BY <1>2 DEF NormalizeSource
<1>4. QED
  BY <1>3 DEF s

LEMMA SourceAgain ==
    ASSUME NEW source, SourceOK(source), NEW root
    PROVE  LET made == NormalizeSource(source, root) IN NormalizeSource(made, Absent) = made
<1> DEFINE g == Head(source)
           made == NormalizeSource(source, root)
<1>1. ASSUME NEW type, NEW name, NEW branch, NEW r, NEW rest, type \notin {"repo", "image name"}
      PROVE  NormalizeSource(Source(type, name, branch, r, rest), Absent)
               = Source(type, name, branch, r, rest)
  <2> DEFINE h == [type |-> type, name |-> name, branch |-> branch, rootDirectory |-> r, rest |-> rest]
  <2>1. NormalizeSource(<<h>>, Absent) = <<[h EXCEPT !.rootDirectory = Coalesce(<<r, Absent>>)]>>
    BY <1>1, Typed, h.type = type, h.rootDirectory = r
  <2>2. Coalesce(<<r, Absent>>) = r
    BY LastGiven
  <2>3. [h EXCEPT !.rootDirectory = r] = h
    OBVIOUS
  <2>4. QED
    BY <2>1, <2>2, <2>3 DEF Source
<1>2. CASE source # Absent /\ g.type \notin {"repo", "image name"}
  <2> DEFINE x == Coalesce(<<g.rootDirectory, root>>)
             h == [g EXCEPT !.rootDirectory = x]
  <2>1. made = <<h>>
    BY <1>2 DEF NormalizeSource
  <2>2. h.type = g.type /\ h.rootDirectory = x /\ h = [s \in SourceSettings |-> h[s]]
    BY <1>2 DEF SourceOK, SourceSettings
  <2> HIDE DEF h, x
  <2>3. NormalizeSource(<<h>>, Absent) = <<[h EXCEPT !.rootDirectory = Coalesce(<<h.rootDirectory, Absent>>)]>>
    BY <1>2, <2>2, Typed
  <2>4. Coalesce(<<h.rootDirectory, Absent>>) = h.rootDirectory
    BY LastGiven
  <2>5. [h EXCEPT !.rootDirectory = h.rootDirectory] = h
    BY <2>2
  <2>6. QED
    BY <2>1, <2>3, <2>4, <2>5
<1>3. CASE source # Absent /\ g.type = "repo"
  <2>1. made = Source("github", g.name, Coalesce(<<g.branch, <<"main">>>>), root, Absent)
    BY <1>3 DEF NormalizeSource
  <2>2. QED
    BY <1>1, <2>1
<1>4. CASE source # Absent /\ g.type = "image name"
  <2>1. made = Source("image", g.name, Absent, root, Absent)
    BY <1>4 DEF NormalizeSource
  <2>2. QED
    BY <1>1, <2>1
<1>5. CASE source = Absent /\ root # Absent
  <2>1. made = Source("empty", Absent, Absent, root, Absent)
    BY <1>5 DEF NormalizeSource
  <2>2. QED
    BY <1>1, <2>1
<1>6. CASE source = Absent /\ root = Absent
  BY <1>6 DEF NormalizeSource
<1>7. QED
  BY <1>2, <1>3, <1>4, <1>5, <1>6

LEMMA DeployAgain ==
    ASSUME NEW c, ConfigOK(c), NEW k, k.deploy = NormalizeDeploy(c),
           \A s \in {"start", "startCommand", "preDeploy", "preDeployCommand", "healthcheck",
                     "healthcheckPath", "healthcheckTimeout", "regions"} : k[s] = Absent,
           k.run = Blank.run, k.replicas = Blank.replicas
    PROVE  NormalizeDeploy(k) = k.deploy
<1> DEFINE d == k.deploy
<1>1. d = [s \in DeploySettings |-> d[s]]
  BY DEF NormalizeDeploy, ConfigOK
<1>2. /\ k.run.command = Absent /\ k.run.preDeploy = Absent /\ k.run.healthcheck = Absent
      /\ k.run.healthcheckTimeout = Absent
      /\ k.replicas.number = Absent /\ k.replicas.regions = Absent
  BY DEF Blank
<1>3. NormalizeReplicas(k) = [numReplicas |-> Absent, multiRegionConfig |-> Absent]
  <2>1. Coalesce(<<k.replicas.regions, k.regions>>) = Absent
    BY <1>2, LastGiven
  <2>2. QED
    BY <1>2, <2>1 DEF NormalizeReplicas
<1>4. Coalesce(<<k.preDeploy, k.preDeployCommand, k.run.preDeploy>>) = Absent
  BY <1>2, LastGiven
<1>5. NormalizeDeploy(k) =
        [k.deploy EXCEPT
            !.startCommand = Coalesce(<<Absent, Absent, Absent, @>>),
            !.preDeployCommand = @,
            !.healthcheckPath = Coalesce(<<Absent, Absent, Absent, @>>),
            !.healthcheckTimeout = Coalesce(<<Absent, Absent, @>>),
            !.numReplicas = Coalesce(<<Absent, @>>),
            !.multiRegionConfig = Coalesce(<<Absent, @>>)]
  <2> DEFINE replicaConfig == NormalizeReplicas(k)
             preDeploy == Coalesce(<<k.preDeploy, k.preDeployCommand, k.run.preDeploy>>)
  <2>1. /\ replicaConfig.numReplicas = Absent /\ replicaConfig.multiRegionConfig = Absent
        /\ ~Truthy(preDeploy)
    BY <1>3, <1>4 DEF Truthy
  <2>2. NormalizeDeploy(k) =
          [k.deploy EXCEPT
            !.startCommand = Coalesce(<<k.start, k.startCommand, k.run.command, @>>),
            !.preDeployCommand = IF Truthy(preDeploy) THEN <<Commands(preDeploy)>> ELSE @,
            !.healthcheckPath = Coalesce(<<k.healthcheck, k.healthcheckPath, k.run.healthcheck, @>>),
            !.healthcheckTimeout = Coalesce(<<k.healthcheckTimeout, k.run.healthcheckTimeout, @>>),
            !.numReplicas = Coalesce(<<replicaConfig.numReplicas, @>>),
            !.multiRegionConfig = Coalesce(<<replicaConfig.multiRegionConfig, @>>)]
    BY DEF NormalizeDeploy
  <2> HIDE DEF replicaConfig, preDeploy
  <2>3. QED
    BY <1>2, <2>1, <2>2
<1>6. /\ Coalesce(<<Absent, Absent, Absent, d.startCommand>>) = d.startCommand
      /\ Coalesce(<<Absent, Absent, Absent, d.healthcheckPath>>) = d.healthcheckPath
      /\ Coalesce(<<Absent, Absent, d.healthcheckTimeout>>) = d.healthcheckTimeout
      /\ Coalesce(<<Absent, d.numReplicas>>) = d.numReplicas
      /\ Coalesce(<<Absent, d.multiRegionConfig>>) = d.multiRegionConfig
  BY LastGiven
<1>7. [d EXCEPT !.startCommand = d.startCommand, !.preDeployCommand = d.preDeployCommand,
                !.healthcheckPath = d.healthcheckPath, !.healthcheckTimeout = d.healthcheckTimeout,
                !.numReplicas = d.numReplicas, !.multiRegionConfig = d.multiRegionConfig] = d
  <2> HIDE DEF d
  <2>1. QED
    BY <1>1 DEF DeploySettings
<1>8. NormalizeDeploy(k) =
        [d EXCEPT !.startCommand = d.startCommand, !.preDeployCommand = d.preDeployCommand,
                  !.healthcheckPath = d.healthcheckPath, !.healthcheckTimeout = d.healthcheckTimeout,
                  !.numReplicas = d.numReplicas, !.multiRegionConfig = d.multiRegionConfig]
  BY <1>1, <1>5, <1>6 DEF DeploySettings
<1>9. QED
  BY <1>7, <1>8

LEMMA VariablesAgain ==
    ASSUME NEW c, NEW k, k.variables = NormalizeVariables(c), k.env = <<>>
    PROVE  NormalizeVariables(k) = k.variables
<1>1. ASSUME NEW v PROVE NormalizeVariable(NormalizeVariable(v)) = NormalizeVariable(v)
  BY DEF NormalizeVariable
<1>2. DOMAIN k.env = {}
  OBVIOUS
<1>3. k.variables = [x \in DOMAIN k.variables |-> k.variables[x]]
  BY DEF NormalizeVariables
<1>4. \A x \in DOMAIN k.variables : NormalizeVariable(k.variables[x]) = k.variables[x]
  BY <1>1 DEF NormalizeVariables
<1>5. NormalizeVariables(k) = [x \in DOMAIN k.variables |-> NormalizeVariable(k.variables[x])]
  BY <1>2 DEF NormalizeVariables
<1>6. QED
  BY <1>3, <1>4, <1>5

LEMMA LargestIn ==
    ASSUME NEW n \in Nat, NEW S \in SUBSET (1..n), S # {}
    PROVE  \E x \in S : \A y \in S : y <= x
<1> DEFINE T == {n - y : y \in S}
<1>1. T \in SUBSET Nat /\ T # {}
  <2>1. \A y \in S : n - y \in Nat
    OBVIOUS
  <2>2. PICK y \in S : TRUE
    OBVIOUS
  <2>3. n - y \in T
    OBVIOUS
  <2>4. QED
    BY <2>1, <2>3
<1>2. PICK t \in T : \A u \in T : t <= u
  BY <1>1, LeastIn
<1>3. PICK x \in S : t = n - x
  OBVIOUS
<1>4. ASSUME NEW y \in S
      PROVE  y <= x
  <2>1. n - x <= n - y
    BY <1>2, <1>3
  <2>2. QED
    BY <2>1
<1>5. QED
  BY <1>4

MadeFrom(V, e) ==
    /\ DOMAIN V = {e[i][1] : i \in DOMAIN e}
    /\ V = [k \in DOMAIN V |-> V[k]]
    /\ \A k \in DOMAIN V : \E i \in DOMAIN e : e[i][1] = k /\ V[k] = e[i][2]

\* An object made from entries keeps for each key the value of one of them.
LEMMA FromSomeEntry ==
    ASSUME NEW e, NEW n \in Nat, DOMAIN e \subseteq 1..n
    PROVE  MadeFrom(FromEntries(e), e)
<1> DEFINE D == DOMAIN e
           Chosen(k) == CHOOSE i \in DOMAIN e : /\ e[i][1] = k
                                            /\ \A j \in DOMAIN e : e[j][1] = k => j <= i
           keys == {x[1] : x \in Range(e)}
<1>1. FromEntries(e) = [k \in keys |-> e[Chosen(k)][2]]
  BY DEF FromEntries
<1>2. keys = {e[i][1] : i \in D}
  BY DEF Range
<1>3. ASSUME NEW k \in keys
      PROVE  Chosen(k) \in D /\ e[Chosen(k)][1] = k
  <2> DEFINE S == {i \in D : e[i][1] = k}
  <2>1. S # {} /\ S \in SUBSET (1..n)
    BY <1>2
  <2>2. PICK i \in S : \A j \in S : j <= i
    BY <2>1, LargestIn
  <2>3. i \in DOMAIN e /\ e[i][1] = k /\ \A j \in DOMAIN e : e[j][1] = k => j <= i
    BY <2>2
  <2>4. QED
    BY <2>3
<1> HIDE DEF keys, Chosen
<1>4. DOMAIN FromEntries(e) = keys /\ \A k \in keys : FromEntries(e)[k] = e[Chosen(k)][2]
  BY <1>1
<1>5. QED
  BY <1>1, <1>2, <1>3, <1>4 DEF MadeFrom

\* f is a list of the entries of V, and makes V.
Lists(f, V) ==
    /\ \A i \in DOMAIN f : f[i][1] \in DOMAIN V /\ f[i][2] = V[f[i][1]]
    /\ f = [i \in DOMAIN f |-> f[i]]
    /\ FromEntries(f) = V

\* The entries of V, in one order.
Listed(V) == SetToSeq({<<k, V[k]>> : k \in DOMAIN V})

\* The entries of an object, in any order, make the object.
LEMMA EntriesOf ==
    ASSUME NEW V, V = [k \in DOMAIN V |-> V[k]], IsFiniteSet({<<k, V[k]>> : k \in DOMAIN V})
    PROVE  Lists(Listed(V), V)
<1> DEFINE S == {<<k, V[k]>> : k \in DOMAIN V}
           n == Cardinality(S)
           f == SetToSeq(S)
<1>0. \A e \in S : e[1] \in DOMAIN V /\ e[2] = V[e[1]]
  OBVIOUS
<1>1. \A k \in DOMAIN V : \E e \in S : e[1] = k
  <2>1. \A k \in DOMAIN V : <<k, V[k]>> \in S /\ <<k, V[k]>>[1] = k
    OBVIOUS
  <2> HIDE DEF S
  <2>2. QED
    BY <2>1
<1> HIDE DEF S
<1>2. IsFiniteSet(S)
  BY DEF S
<1>3. n \in Nat /\ ExistsBijection(1..n, S)
  BY <1>2, FS_CardinalityType
<1>4. \E g \in [1..n -> S] : IsInjective(g)
  BY <1>3 DEF ExistsBijection, Bijection, Injection
<1>5. f \in [1..n -> S] /\ IsInjective(f)
  BY <1>4 DEF SetToSeq
<1>6. f \in Surjection(1..n, S)
  <2>1. f \in Injection(1..n, S)
    BY <1>5 DEF Injection
  <2>2. Cardinality(1..n) = n
    BY <1>3, FS_Interval
  <2>3. QED
    BY <1>2, <2>1, <2>2, FS_Injection
<1> HIDE DEF n, f
<1>7. DOMAIN f = 1..n /\ (\A i \in 1..n : f[i] \in S) /\ f = [i \in DOMAIN f |-> f[i]]
  BY <1>5
<1>8. {f[i][1] : i \in 1..n} = DOMAIN V
  <2>1. ASSUME NEW k \in DOMAIN V
        PROVE  \E i \in 1..n : f[i][1] = k
    <3>1. PICK e \in S : e[1] = k
      BY <1>1
    <3>2. PICK i \in 1..n : f[i] = e
      BY <1>6 DEF Surjection
    <3>3. QED
      BY <3>1, <3>2
  <2>2. QED
    BY <1>0, <1>7, <2>1
<1>9. FromEntries(f) = V
  <2>0. MadeFrom(FromEntries(f), f)
    BY <1>3, <1>7, FromSomeEntry
  <2>1. DOMAIN FromEntries(f) = DOMAIN V
    BY <1>7, <1>8, <2>0 DEF MadeFrom
  <2>2. ASSUME NEW k \in DOMAIN V
        PROVE  FromEntries(f)[k] = V[k]
    <3>1. PICK i \in 1..n : f[i][1] = k /\ FromEntries(f)[k] = f[i][2]
      BY <1>7, <2>0, <2>1 DEF MadeFrom
    <3>2. QED
      BY <1>0, <1>7, <3>1
  <2>3. FromEntries(f) = [k \in DOMAIN V |-> FromEntries(f)[k]]
    BY <2>0, <2>1 DEF MadeFrom
  <2>4. QED
    BY <2>2, <2>3
<1>10. QED
  BY <1>0, <1>3, <1>5, <1>7, <1>9 DEF f, S, Lists, Listed

LEMMA MountsAgain ==
    ASSUME NEW m, DOMAIN m = 1..Len(m), Len(m) \in Nat
    PROVE  LET V == NormalizeVolumeMounts(m).volumeMounts
           IN  NormalizeVolumeMounts(Listed(V)).volumeMounts = V
<1> DEFINE D == DOMAIN m \ {i \in DOMAIN m : IsVolume(m[i])}
           raw == [i \in D |-> m[i]]
           V == NormalizeVolumeMounts(m).volumeMounts
           S == {<<p, V[p]>> : p \in DOMAIN V}
           f == Listed(V)
<1>1. V = FromEntries(raw)
  BY DEF NormalizeVolumeMounts
<1>2. D \in SUBSET (1..Len(m)) /\ DOMAIN raw = D /\ \A i \in D : raw[i] = m[i] /\ m[i][2].type # "volume"
  BY DEF IsVolume
<1> HIDE DEF D, raw, V
<1>3. /\ DOMAIN V = {raw[i][1] : i \in D}
      /\ V = [k \in DOMAIN V |-> V[k]]
      /\ \A k \in DOMAIN V : \E i \in D : raw[i][1] = k /\ V[k] = raw[i][2]
  <2>1. MadeFrom(V, raw)
    BY <1>1, <1>2, FromSomeEntry
  <2>2. QED
    BY <1>2, <2>1 DEF MadeFrom
<1>4. \A k \in DOMAIN V : V[k].type # "volume"
  BY <1>2, <1>3
<1>5. IsFiniteSet(S)
  <2> DEFINE g == [i \in D |-> <<raw[i][1], V[raw[i][1]]>>]
  <2>1. g \in [D -> S]
    BY <1>3
  <2>2. \A e \in S : \E i \in D : g[i] = e
    BY <1>3
  <2> HIDE DEF g, S
  <2>3. g \in Surjection(D, S)
    BY <2>1, <2>2 DEF Surjection
  <2>4. IsFiniteSet(1..Len(m))
    BY FS_Interval
  <2>5. IsFiniteSet(D)
    BY <1>2, <2>4, FS_Subset
  <2>6. QED
    BY <2>3, <2>5, FS_Surjection
<1>6. Lists(f, V)
  BY <1>3, <1>5, EntriesOf DEF Listed
<1> HIDE DEF f
<1>7. {i \in DOMAIN f : IsVolume(f[i])} = {}
  BY <1>4, <1>6 DEF IsVolume, Lists
<1>8. [i \in DOMAIN f \ {j \in DOMAIN f : IsVolume(f[j])} |-> f[i]] = f
  BY <1>6, <1>7 DEF Lists
<1>9. NormalizeVolumeMounts(f).volumeMounts = FromEntries(f)
  BY <1>8 DEF NormalizeVolumeMounts
<1>10. QED
  BY <1>6, <1>9 DEF f, V, Lists

\* A node given back to service() as a configuration keeps its parts.
PartsKept(c) ==
    LET n == Service(c)
        r == Service(AsConfig(n))
    IN  /\ \A part \in {"kind", "source", "build", "deploy", "variables"} : r[part] = n[part]
        /\ r.mounts.volumeMounts = n.mounts.volumeMounts

LEMMA NodeAgain ==
    ASSUME NEW c, ConfigOK(c)
    PROVE  PartsKept(c)
<1> DEFINE n == Service(c)
           k == AsConfig(n)
           r == Service(k)
           mounts == Listed(n.mounts.volumeMounts)
<1>1. /\ n.source = NormalizeSource(c.source, Coalesce(<<c.root, c.rootDirectory>>))
      /\ n.kind = KindOf(n.source) /\ n.build = NormalizeBuild(c)
      /\ n.deploy = NormalizeDeploy(c) /\ n.variables = NormalizeVariables(c)
      /\ n.mounts = NormalizeVolumeMounts(c.volumeMounts)
  BY DEF Service
<1>2. k = [Blank EXCEPT !.source = n.source, !.build = [text |-> Absent, object |-> n.build],
                        !.deploy = n.deploy, !.variables = n.variables, !.volumeMounts = mounts]
  BY DEF AsConfig, Listed
<1> HIDE DEF n, mounts
<1>3. /\ k.source = n.source /\ k.build = [text |-> Absent, object |-> n.build]
      /\ k.deploy = n.deploy /\ k.variables = n.variables
      /\ k.volumeMounts = mounts
      /\ k.run = Blank.run /\ k.replicas = Blank.replicas /\ k.env = <<>>
      /\ k.root = Absent /\ k.rootDirectory = Absent
      /\ \A s \in {"start", "startCommand", "preDeploy", "preDeployCommand", "healthcheck",
                   "healthcheckPath", "healthcheckTimeout", "regions"} : k[s] = Absent
  BY <1>2 DEF Blank
<1> HIDE DEF k
<1>4. /\ r.source = NormalizeSource(k.source, Coalesce(<<k.root, k.rootDirectory>>))
      /\ r.kind = KindOf(r.source) /\ r.build = NormalizeBuild(k)
      /\ r.deploy = NormalizeDeploy(k) /\ r.variables = NormalizeVariables(k)
      /\ r.mounts = NormalizeVolumeMounts(k.volumeMounts)
  BY DEF Service
<1> HIDE DEF r
<1>5. r.source = n.source
  <2>1. Coalesce(<<k.root, k.rootDirectory>>) = Absent
    BY <1>3, LastGiven
  <2>2. QED
    BY <1>1, <1>3, <1>4, <2>1, SourceAgain DEF ConfigOK
<1>6. r.build = n.build
  BY <1>3, <1>4 DEF NormalizeBuild
<1>7. r.deploy = n.deploy
  BY <1>1, <1>3, <1>4, DeployAgain
<1>8. r.variables = n.variables
  BY <1>1, <1>3, <1>4, VariablesAgain
<1>9. r.kind = n.kind
  BY <1>1, <1>4, <1>5
<1>10. r.mounts.volumeMounts = n.mounts.volumeMounts
  BY <1>1, <1>3, <1>4, MountsAgain DEF ConfigOK, mounts
<1>11. QED
  BY <1>5, <1>6, <1>7, <1>8, <1>9, <1>10 DEF PartsKept, n, k, r

\* What holds between a configuration, the node made of it and the node made of that.
NodeInv ==
    /\ family \in Families /\ config \in family
    /\ node = Nothing \/ node = Service(config) \/ node.kind \in {"error", "function"}
    /\ node = Nothing => again = Nothing
    /\ again # Nothing => node = Service(config) /\ again = Service(AsConfig(node))

LEMMA FnKind ==
    ASSUME NEW c, NEW code
    PROVE  Fn(c, code).kind \in {"error", "function"}
<1> DEFINE source == IF c.source = Absent
                     THEN Source("image", <<"bun">>, Absent, Absent, Absent) ELSE c.source
           given == [c EXCEPT !.source = source, !.start = <<FunctionStartCommand(code)>>]
<1>1. [Service(given) EXCEPT !.kind = "function"].kind = "function"
  BY DEF Service
<1>2. QED
  BY <1>1 DEF Fn

LEMMA NodeInvInit == InfraInit => NodeInv
  BY DEF InfraInit, NodeInv

LEMMA NodeInvNext == NodeInv /\ [InfraNext]_infraVars => NodeInv'
<1> SUFFICES ASSUME NodeInv, [InfraNext]_infraVars
             PROVE  NodeInv'
  OBVIOUS
<1>1. CASE CallService
  BY <1>1 DEF CallService, NodeInv
<1>2. ASSUME NEW code \in CodeSizes, CallFn(code)
      PROVE  NodeInv'
  BY <1>2, FnKind DEF CallFn, NodeInv
<1>3. CASE CallAgain
  <2>1. node # Nothing /\ node = Service(config)
    BY <1>3 DEF CallAgain, NodeInv, Nothing
  <2>2. QED
    BY <1>3, <2>1 DEF CallAgain, NodeInv
<1>4. CASE UNCHANGED infraVars
  BY <1>4 DEF infraVars, NodeInv
<1>5. QED
  BY <1>1, <1>2, <1>3, <1>4 DEF InfraNext

\* For every configuration: what service() made of it, given to service() again,
\* keeps its parts (iac/sdk.ts:433-516).
THEOREM NodeIsASpelling == InfraSpec => []NodeKept
<1>1. ASSUME NodeInv, again # Nothing
      PROVE  PartsKept(config)
  <2>1. ConfigOK(config)
    BY <1>1, FamiliesAssumption DEF NodeInv, ConfigOK, SourceOK
  <2>2. QED
    BY <2>1, NodeAgain
<1>2. NodeInv => NodeKept
  BY <1>1 DEF NodeInv, NodeKept, PartsKept
<1>3. QED
  BY NodeInvInit, NodeInvNext, <1>2, PTL DEF InfraSpec

-----------------------------------------------------------------------------
(* The spellings of a setting make one node: what service() chooses is one *)
(* of the values given, so where one value is given the order and the      *)
(* spelling do not matter.  Again one lemma for each part of the node.     *)

\* What is chosen from the values given, of which there may be none.
Picks(x, values) == IF values = {} THEN x = Absent ELSE x \in values

LEMMA OnePick ==
    ASSUME NEW x, NEW y, NEW S, Single(S), Picks(x, S), Picks(y, S)
    PROVE  x = y
  BY DEF Picks, Single

LEMMA CoalescePicks ==
    ASSUME NEW f, NEW n \in Nat, DOMAIN f = 1..n
    PROVE  Picks(Coalesce(f), Said(f))
<1> DEFINE given == {i \in DOMAIN f : f[i] # Absent}
<1>1. \A i \in given : f[i] \in Said(f)
  BY DEF Said, Range
<1>2. \A x \in Said(f) : \E i \in given : x = f[i]
  BY DEF Said, Range
<1>3. CASE given = {}
  BY <1>2, <1>3 DEF Picks, Coalesce
<1>4. CASE given # {}
  <2>1. given \in SUBSET Nat
    OBVIOUS
  <2>2. \E i \in given : \A j \in given : i <= j
    BY <1>4, <2>1, LeastIn
  <2>3. (CHOOSE i \in given : \A j \in given : i <= j) \in given
    BY <2>2
  <2>4. Coalesce(f) \in Said(f)
    BY <1>1, <1>4, <2>3 DEF Coalesce
  <2>5. QED
    BY <2>4 DEF Picks
<1>5. QED
  BY <1>3, <1>4

\* Of two, three or four spellings.
LEMMA SpellingPicked ==
    ASSUME NEW w, NEW x, NEW y, NEW z
    PROVE  /\ Picks(Coalesce(<<w, x>>), Said(<<w, x>>))
           /\ Picks(Coalesce(<<w, x, y>>), Said(<<w, x, y>>))
           /\ Picks(Coalesce(<<w, x, y, z>>), Said(<<w, x, y, z>>))
<1>1. DOMAIN <<w, x>> = 1..2 /\ DOMAIN <<w, x, y>> = 1..3 /\ DOMAIN <<w, x, y, z>> = 1..4
  OBVIOUS
<1>2. QED
  BY <1>1, CoalescePicks

LEMMA SaidOf ==
    ASSUME NEW x, NEW y
    PROVE  Said(<<x>>) = {x} \ {Absent} /\ Said(<<x, y>>) = {x, y} \ {Absent}
<1>1. Range(<<x>>) = {x}
  <2>1. DOMAIN <<x>> = {1} /\ <<x>>[1] = x
    OBVIOUS
  <2>2. QED
    BY <2>1 DEF Range
<1>2. Range(<<x, y>>) = {x, y}
  <2>1. DOMAIN <<x, y>> = {1, 2} /\ <<x, y>>[1] = x /\ <<x, y>>[2] = y
    OBVIOUS
  <2>2. QED
    BY <2>1 DEF Range
<1>3. QED
  BY <1>1, <1>2 DEF Said

\* The first of two spellings, if it is given.
LEMMA FirstOfTwo ==
    ASSUME NEW x, NEW y
    PROVE  Coalesce(<<x, y>>) = IF x = Absent THEN y ELSE x
<1> DEFINE f == <<x, y>>
           given == {i \in DOMAIN f : f[i] # Absent}
<1>1. DOMAIN f = {1, 2} /\ f[1] = x /\ f[2] = y
  OBVIOUS
<1> HIDE DEF f
<1>2. CASE x # Absent
  <2>1. 1 \in given /\ given \subseteq {1, 2}
    BY <1>1, <1>2
  <2>2. (CHOOSE i \in given : \A j \in given : i <= j) = 1
    BY <2>1
  <2>3. Coalesce(f) = x
    BY <1>1, <2>1, <2>2 DEF Coalesce
  <2>4. QED
    BY <1>2, <2>3 DEF f
<1>3. CASE x = Absent
  BY <1>3, LastGiven
<1>4. QED
  BY <1>2, <1>3

LEMMA SourceForm ==
    ASSUME NEW c, SourceOK(c.source), UntypedSourceKept(c)
    PROVE  LET s == SourceSaid(c)
               n == NormalizeSource(c.source, Coalesce(<<c.root, c.rootDirectory>>))
           IN  IF s.type = "none" THEN n = Absent
               ELSE \E r : Picks(r, s.roots) /\ n = Source(s.type, s.name, s.branch, r, s.rest)
<1> DEFINE s == SourceSaid(c)
           root == Coalesce(<<c.root, c.rootDirectory>>)
           roots == Said(<<c.root, c.rootDirectory>>)
           n == NormalizeSource(c.source, root)
           g == Head(c.source)
<1>1. Picks(root, roots)
  BY SpellingPicked
<1>2. Absent \notin roots
  BY DEF Said
<1> HIDE DEF root, roots
<1>3. CASE c.source = Absent
  <2>1. /\ s.type = IF roots = {} THEN "none" ELSE "empty"
        /\ s.name = Absent /\ s.branch = Absent /\ s.roots = roots /\ s.rest = Absent
    BY <1>3 DEF SourceSaid, roots
  <2>2. n = IF root # Absent THEN Source("empty", Absent, Absent, root, Absent) ELSE Absent
    BY <1>3 DEF NormalizeSource
  <2>3. roots = {} <=> root = Absent
    BY <1>1, <1>2 DEF Picks
  <2> HIDE DEF s, n
  <2>4. QED
    BY <1>1, <2>1, <2>2, <2>3 DEF s, n, root
<1>4. CASE c.source # Absent /\ g.type = "repo"
  <2>1. /\ s.type = "github" /\ s.name = g.name /\ s.rest = Absent /\ s.roots = roots
        /\ s.branch = IF g.branch = Absent THEN <<"main">> ELSE g.branch
    <3>1. g.rootDirectory = Absent /\ g.rest = Absent
      BY <1>4 DEF UntypedSourceKept
    <3>2. /\ s.type = "github" /\ s.name = g.name /\ s.rest = g.rest
          /\ s.roots = roots \cup Said(<<g.rootDirectory>>)
          /\ s.branch = IF g.branch = Absent THEN <<"main">> ELSE g.branch
      BY <1>4 DEF SourceSaid, roots
    <3>3. Said(<<Absent>>) = {}
      BY SaidOf
    <3> HIDE DEF s, g
    <3>4. QED
      BY <3>1, <3>2, <3>3
  <2>2. n = Source("github", g.name, Coalesce(<<g.branch, <<"main">>>>), root, Absent)
    BY <1>4 DEF NormalizeSource
  <2>3. Coalesce(<<g.branch, <<"main">>>>) = s.branch
    BY <2>1, FirstOfTwo
  <2> HIDE DEF s, n
  <2>4. QED
    BY <1>1, <2>1, <2>2, <2>3 DEF s, n, root
<1>5. CASE c.source # Absent /\ g.type = "image name"
  <2>1. /\ s.type = "image" /\ s.name = g.name /\ s.rest = Absent /\ s.roots = roots
        /\ s.branch = Absent
    <3>1. g.rootDirectory = Absent /\ g.rest = Absent /\ g.branch = Absent
      BY <1>5 DEF UntypedSourceKept
    <3>2. /\ s.type = "image" /\ s.name = g.name /\ s.rest = g.rest /\ s.branch = g.branch
          /\ s.roots = roots \cup Said(<<g.rootDirectory>>)
      BY <1>5 DEF SourceSaid, roots
    <3>3. Said(<<Absent>>) = {}
      BY SaidOf
    <3> HIDE DEF s, g
    <3>4. QED
      BY <3>1, <3>2, <3>3
  <2>2. n = Source("image", g.name, Absent, root, Absent)
    BY <1>5 DEF NormalizeSource
  <2> HIDE DEF s, n
  <2>3. QED
    BY <1>1, <2>1, <2>2 DEF s, n, root
<1>6. CASE c.source # Absent /\ g.type \notin {"repo", "image name"}
  <2> DEFINE x == Coalesce(<<g.rootDirectory, root>>)
  <2>1. /\ s.type = g.type /\ s.name = g.name /\ s.rest = g.rest
        /\ s.branch = g.branch /\ s.roots = roots \cup Said(<<g.rootDirectory>>)
    BY <1>6 DEF SourceSaid, roots
  <2>2. n = <<[g EXCEPT !.rootDirectory = x]>>
    BY <1>6 DEF NormalizeSource
  <2>3. x = IF g.rootDirectory = Absent THEN root ELSE g.rootDirectory
    BY FirstOfTwo
  <2>4. Picks(x, s.roots)
    BY <1>1, <1>2, <2>1, <2>3, SaidOf DEF Picks
  <2>5. [g EXCEPT !.rootDirectory = x] =
          [type |-> g.type, name |-> g.name, branch |-> g.branch, rootDirectory |-> x, rest |-> g.rest]
    <3>1. g = [t \in SourceSettings |-> g[t]]
      BY <1>6 DEF SourceOK
    <3> HIDE DEF g, x
    <3>2. QED
      BY <3>1 DEF SourceSettings
  <2>6. n = Source(s.type, s.name, s.branch, x, s.rest)
    BY <2>1, <2>2, <2>5 DEF Source
  <2>7. s.type # "none"
    BY <1>6, <2>1 DEF SourceOK, SourceTypes
  <2> HIDE DEF s, n, x
  <2>8. QED
    BY <2>4, <2>6, <2>7 DEF s, n, root
<1>7. QED
  BY <1>3, <1>4, <1>5, <1>6

LEMMA BuildForm ==
    ASSUME NEW c, c.build.object = [buildCommand |-> c.build.object.buildCommand, rest |-> c.build.object.rest],
           c.build.text # Absent => c.build.object.rest = Absent
    PROVE  \E b : /\ Picks(b, Said(<<c.build.text, c.build.object.buildCommand>>))
                  /\ NormalizeBuild(c) = [buildCommand |-> b, rest |-> c.build.object.rest]
<1> DEFINE text == c.build.text
           object == c.build.object
           b == Coalesce(<<text, object.buildCommand>>)
<1>1. Picks(b, Said(<<text, object.buildCommand>>))
  BY SpellingPicked
<1>2. NormalizeBuild(c) = [buildCommand |-> b, rest |-> object.rest]
  BY FirstOfTwo DEF NormalizeBuild
<1>3. QED
  BY <1>1, <1>2

\* The settings of `deploy' but its regions.
DeployForm(n, c) ==
    /\ n = [s \in DeploySettings |-> n[s]]
    /\ n.rest = c.deploy.rest
    /\ Picks(n.startCommand, Says(c).start)
    /\ Picks(n.preDeployCommand, Says(c).preDeploy)
    /\ Picks(n.healthcheckPath, Says(c).healthcheck)
    /\ Picks(n.healthcheckTimeout, Says(c).timeout)
    /\ Picks(n.numReplicas, Says(c).replicas)

LEMMA PreDeployForm ==
    ASSUME NEW c,
           Single({Truthy(q) : q \in Said(<<c.preDeploy, c.preDeployCommand, c.run.preDeploy>>)})
    PROVE  LET p == Coalesce(<<c.preDeploy, c.preDeployCommand, c.run.preDeploy>>)
           IN  Picks(IF Truthy(p) THEN <<Commands(p)>> ELSE c.deploy.preDeployCommand,
                     PreDeploySaid(c))
<1> DEFINE p == Coalesce(<<c.preDeploy, c.preDeployCommand, c.run.preDeploy>>)
           given == Said(<<c.preDeploy, c.preDeployCommand, c.run.preDeploy>>)
           d == c.deploy.preDeployCommand
           commands == {<<Commands(q)>> : q \in {q \in given : Truthy(q)}}
<1>1. Picks(p, given)
  BY SpellingPicked
<1>2. PreDeploySaid(c) = commands \cup ({d} \ {Absent})
  BY SaidOf DEF PreDeploySaid
<1>3. Single({Truthy(q) : q \in given})
  OBVIOUS
<1> HIDE DEF p, given, d
<1>4. CASE Truthy(p)
  <2>1. p \in given
    BY <1>1, <1>4 DEF Picks, Truthy
  <2>2. <<Commands(p)>> \in commands
    BY <1>4, <2>1
  <2>3. Picks(<<Commands(p)>>, PreDeploySaid(c))
    <3> HIDE DEF commands
    <3>1. QED
      BY <1>2, <2>2 DEF Picks
  <2>4. QED
    BY <1>4, <2>3 DEF p
<1>5. CASE ~Truthy(p)
  <2>1. \A q \in given : ~Truthy(q)
    <3>1. SUFFICES ASSUME NEW q \in given
                   PROVE  ~Truthy(q)
      OBVIOUS
    <3>2. p \in given
      BY <1>1, <3>1 DEF Picks
    <3>3. Truthy(q) = Truthy(p)
      BY <1>3, <3>1, <3>2, Zenon DEF Single
    <3>4. QED
      BY <1>5, <3>3
  <2>2. commands = {}
    BY <2>1
  <2>3. Picks(d, PreDeploySaid(c))
    <3> HIDE DEF commands
    <3>1. QED
      BY <1>2, <2>2 DEF Picks
  <2>4. QED
    BY <1>5, <2>3 DEF p, d
<1>6. QED
  BY <1>4, <1>5

LEMMA DeployPicks ==
    ASSUME NEW c, c.deploy = [s \in DeploySettings |-> c.deploy[s]],
           Single({Truthy(q) : q \in Said(<<c.preDeploy, c.preDeployCommand, c.run.preDeploy>>)})
    PROVE  /\ DeployForm(NormalizeDeploy(c), c)
           /\ NormalizeDeploy(c).multiRegionConfig =
                 Coalesce(<<NormalizeReplicas(c).multiRegionConfig, c.deploy.multiRegionConfig>>)
<1> DEFINE n == NormalizeDeploy(c)
           d == c.deploy
           replicaConfig == NormalizeReplicas(c)
           p == Coalesce(<<c.preDeploy, c.preDeployCommand, c.run.preDeploy>>)
           preDeploy == IF Truthy(p) THEN <<Commands(p)>> ELSE d.preDeployCommand
<1>1. n = [d EXCEPT
             !.startCommand = Coalesce(<<c.start, c.startCommand, c.run.command, @>>),
             !.preDeployCommand = IF Truthy(p) THEN <<Commands(p)>> ELSE @,
             !.healthcheckPath = Coalesce(<<c.healthcheck, c.healthcheckPath, c.run.healthcheck, @>>),
             !.healthcheckTimeout = Coalesce(<<c.healthcheckTimeout, c.run.healthcheckTimeout, @>>),
             !.numReplicas = Coalesce(<<replicaConfig.numReplicas, @>>),
             !.multiRegionConfig = Coalesce(<<replicaConfig.multiRegionConfig, @>>)]
  BY DEF NormalizeDeploy
<1>2. replicaConfig.numReplicas = c.replicas.number
  BY DEF NormalizeReplicas
<1>3. Picks(preDeploy, PreDeploySaid(c))
  BY PreDeployForm
<1>4. d = [s \in DeploySettings |-> d[s]]
  OBVIOUS
<1> HIDE DEF n, d, replicaConfig, p
<1>5. /\ n = [s \in DeploySettings |-> n[s]]
      /\ n.startCommand = Coalesce(<<c.start, c.startCommand, c.run.command, d.startCommand>>)
      /\ n.preDeployCommand = preDeploy
      /\ n.healthcheckPath =
            Coalesce(<<c.healthcheck, c.healthcheckPath, c.run.healthcheck, d.healthcheckPath>>)
      /\ n.healthcheckTimeout =
            Coalesce(<<c.healthcheckTimeout, c.run.healthcheckTimeout, d.healthcheckTimeout>>)
      /\ n.numReplicas = Coalesce(<<c.replicas.number, d.numReplicas>>)
      /\ n.multiRegionConfig =
            Coalesce(<<replicaConfig.multiRegionConfig, d.multiRegionConfig>>)
      /\ n.rest = d.rest
  BY <1>1, <1>2, <1>4 DEF DeploySettings
<1>6. /\ Says(c).start = Said(<<c.start, c.startCommand, c.run.command, d.startCommand>>)
      /\ Says(c).preDeploy = PreDeploySaid(c)
      /\ Says(c).healthcheck =
            Said(<<c.healthcheck, c.healthcheckPath, c.run.healthcheck, d.healthcheckPath>>)
      /\ Says(c).timeout =
            Said(<<c.healthcheckTimeout, c.run.healthcheckTimeout, d.healthcheckTimeout>>)
      /\ Says(c).replicas = Said(<<c.replicas.number, d.numReplicas>>)
  BY DEF Says, d
<1> HIDE DEF preDeploy
<1>7. DeployForm(n, c)
  <2>1. n.rest = c.deploy.rest
    BY <1>5 DEF d
  <2>2. Picks(Coalesce(<<c.start, c.startCommand, c.run.command, d.startCommand>>),
              Said(<<c.start, c.startCommand, c.run.command, d.startCommand>>))
    BY SpellingPicked
  <2>3. Picks(Coalesce(<<c.healthcheck, c.healthcheckPath, c.run.healthcheck, d.healthcheckPath>>),
              Said(<<c.healthcheck, c.healthcheckPath, c.run.healthcheck, d.healthcheckPath>>))
    BY SpellingPicked
  <2>4. Picks(Coalesce(<<c.healthcheckTimeout, c.run.healthcheckTimeout, d.healthcheckTimeout>>),
              Said(<<c.healthcheckTimeout, c.run.healthcheckTimeout, d.healthcheckTimeout>>))
    BY SpellingPicked
  <2>5. Picks(Coalesce(<<c.replicas.number, d.numReplicas>>), Said(<<c.replicas.number, d.numReplicas>>))
    BY SpellingPicked
  <2>6. /\ Picks(n.startCommand, Says(c).start) /\ Picks(n.healthcheckPath, Says(c).healthcheck)
        /\ Picks(n.healthcheckTimeout, Says(c).timeout) /\ Picks(n.numReplicas, Says(c).replicas)
        /\ Picks(n.preDeployCommand, Says(c).preDeploy)
    BY <1>3, <1>5, <1>6, <2>2, <2>3, <2>4, <2>5
  <2>7. n = [s \in DeploySettings |-> n[s]]
    BY <1>5
  <2>8. QED
    BY <2>1, <2>6, <2>7 DEF DeployForm
<1>8. QED
  BY <1>5, <1>7 DEF n, d, replicaConfig

LEMMA OneDeploy ==
    ASSUME NEW c, NEW d, NEW m, NEW n, DeployForm(m, c), DeployForm(n, d),
           Unambiguous(c), Says(c) = Says(d), m.multiRegionConfig = n.multiRegionConfig
    PROVE  m = n
<1> DEFINE s == Says(c)
<1>1. /\ Single(s.start) /\ Single(s.preDeploy) /\ Single(s.healthcheck)
      /\ Single(s.timeout) /\ Single(s.replicas)
  BY DEF Unambiguous
<1>2. c.deploy.rest = d.deploy.rest
  <2>1. Says(c).deploy = c.deploy.rest /\ Says(d).deploy = d.deploy.rest
    BY DEF Says
  <2>2. QED
    BY <2>1
<1> HIDE DEF s
<1>3. /\ Picks(m.startCommand, s.start) /\ Picks(n.startCommand, s.start)
      /\ Picks(m.preDeployCommand, s.preDeploy) /\ Picks(n.preDeployCommand, s.preDeploy)
      /\ Picks(m.healthcheckPath, s.healthcheck) /\ Picks(n.healthcheckPath, s.healthcheck)
      /\ Picks(m.healthcheckTimeout, s.timeout) /\ Picks(n.healthcheckTimeout, s.timeout)
      /\ Picks(m.numReplicas, s.replicas) /\ Picks(n.numReplicas, s.replicas)
  BY DEF DeployForm, s
<1>4. /\ m.startCommand = n.startCommand /\ m.preDeployCommand = n.preDeployCommand
      /\ m.healthcheckPath = n.healthcheckPath /\ m.healthcheckTimeout = n.healthcheckTimeout
      /\ m.numReplicas = n.numReplicas
  BY <1>1, <1>3, OnePick
<1>5. m.rest = n.rest
  BY <1>2 DEF DeployForm
<1>6. m = [t \in DeploySettings |-> m[t]] /\ n = [t \in DeploySettings |-> n[t]]
  BY DEF DeployForm
<1>7. \A t \in DeploySettings : m[t] = n[t]
  BY <1>4, <1>5 DEF DeploySettings
<1>8. QED
  BY <1>6, <1>7

\* A region of the node is what its numbers of replicas say, if these are one.
LEMMA OneValue ==
    ASSUME NEW x, NEW values, Absent \notin values, Picks(x, values), Single(values)
    PROVE  Said(<<x>>) = values
<1>1. Said(<<x>>) = {x} \ {Absent}
  BY SaidOf
<1>2. QED
  BY <1>1 DEF Picks, Single

\* The regions of a node, which come from one of the spellings.
RegionsForm(x, values) ==
    \/ x = Absent /\ values = {}
    \/ \E w : /\ x = <<w>> /\ RegionsBuilt(w) \in values
             /\ w = [r \in DOMAIN w |-> [numReplicas |-> w[r].numReplicas,
                                        stackerAssignment |-> w[r].stackerAssignment]]

LEMMA RegionsAreSaid ==
    ASSUME NEW h, \A r \in DOMAIN RegionsGiven(h) : Single(RegionsGiven(h)[r].replicas)
    PROVE  /\ RegionsBuilt(NormalizeRegions(h)) = RegionsGiven(h)
           /\ LET w == NormalizeRegions(h) IN
              w = [r \in DOMAIN w |-> [numReplicas |-> w[r].numReplicas,
                                      stackerAssignment |-> w[r].stackerAssignment]]
<1> DEFINE N(r) == Coalesce(<<h[r].number, h[r].count, h[r].replicas>>)
           S(r) == Said(<<h[r].number, h[r].count, h[r].replicas>>)
           w == NormalizeRegions(h)
<1>1. w = [r \in DOMAIN h |-> [numReplicas |-> N(r), stackerAssignment |-> h[r].stacker]]
  BY DEF NormalizeRegions
<1>2. RegionsGiven(h) = [r \in DOMAIN h |-> [replicas |-> S(r), stacker |-> h[r].stacker]]
  BY DEF RegionsGiven
<1>3. \A r : Picks(N(r), S(r)) /\ Absent \notin S(r)
  BY SpellingPicked DEF Said
<1> HIDE DEF N, S, w
<1>4. \A r \in DOMAIN h : Said(<<N(r)>>) = S(r)
  <2>1. SUFFICES ASSUME NEW r \in DOMAIN h
                 PROVE  Said(<<N(r)>>) = S(r)
    OBVIOUS
  <2>2. Single(S(r))
    BY <1>2
  <2>3. QED
    BY <1>3, <2>2, OneValue
<1>5. /\ DOMAIN w = DOMAIN h
      /\ \A r \in DOMAIN h : w[r].numReplicas = N(r) /\ w[r].stackerAssignment = h[r].stacker
  BY <1>1
<1>6. RegionsBuilt(w) = RegionsGiven(h)
  BY <1>2, <1>4, <1>5 DEF RegionsBuilt
<1>7. w = [r \in DOMAIN w |-> [numReplicas |-> w[r].numReplicas,
                              stackerAssignment |-> w[r].stackerAssignment]]
  BY <1>1, <1>5
<1>8. QED
  BY <1>6, <1>7 DEF w

LEMMA SameSaid ==
    ASSUME NEW x, NEW y, Said(<<x>>) = Said(<<y>>)
    PROVE  x = y
<1>1. {x} \ {Absent} = {y} \ {Absent}
  BY SaidOf
<1>2. QED
  BY <1>1

LEMMA OneRegions ==
    ASSUME NEW values, Single(values), NEW x, NEW y, RegionsForm(x, values), RegionsForm(y, values)
    PROVE  x = y
<1>1. CASE values = {}
  BY <1>1 DEF RegionsForm
<1>2. CASE values # {}
  <2>1. PICK v : /\ x = <<v>> /\ RegionsBuilt(v) \in values
                 /\ v = [r \in DOMAIN v |-> [numReplicas |-> v[r].numReplicas,
                                            stackerAssignment |-> v[r].stackerAssignment]]
    BY <1>2 DEF RegionsForm
  <2>2. PICK w : /\ y = <<w>> /\ RegionsBuilt(w) \in values
                 /\ w = [r \in DOMAIN w |-> [numReplicas |-> w[r].numReplicas,
                                            stackerAssignment |-> w[r].stackerAssignment]]
    BY <1>2 DEF RegionsForm
  <2>3. RegionsBuilt(v) = RegionsBuilt(w)
    BY <2>1, <2>2 DEF Single
  <2>4. DOMAIN v = DOMAIN w
    BY <2>3 DEF RegionsBuilt
  <2>5. ASSUME NEW r \in DOMAIN v
        PROVE  v[r].numReplicas = w[r].numReplicas /\ v[r].stackerAssignment = w[r].stackerAssignment
    <3>1. /\ Said(<<v[r].numReplicas>>) = Said(<<w[r].numReplicas>>)
          /\ v[r].stackerAssignment = w[r].stackerAssignment
      <4>1. RegionsBuilt(v)[r] = [replicas |-> Said(<<v[r].numReplicas>>), stacker |-> v[r].stackerAssignment]
        BY DEF RegionsBuilt
      <4>2. RegionsBuilt(w)[r] = [replicas |-> Said(<<w[r].numReplicas>>), stacker |-> w[r].stackerAssignment]
        BY <2>4 DEF RegionsBuilt
      <4>3. QED
        BY <2>3, <4>1, <4>2
    <3>2. QED
      BY <3>1, SameSaid
  <2>6. v = w
    BY <2>1, <2>2, <2>4, <2>5
  <2>7. QED
    BY <2>1, <2>2, <2>6
<1>3. QED
  BY <1>1, <1>2

LEMMA RegionsPick ==
    ASSUME NEW c, Unambiguous(c),
           c.deploy.multiRegionConfig # Absent =>
              LET regions == Head(c.deploy.multiRegionConfig) IN
              /\ c.deploy.multiRegionConfig = <<regions>>
              /\ regions = [r \in DOMAIN regions |->
                               [numReplicas |-> regions[r].numReplicas,
                                stackerAssignment |-> regions[r].stackerAssignment]]
    PROVE  RegionsForm(Coalesce(<<NormalizeReplicas(c).multiRegionConfig, c.deploy.multiRegionConfig>>),
                       RegionsSaid(c))
<1> DEFINE given == Said(<<c.replicas.regions, c.regions>>)
           g == Coalesce(<<c.replicas.regions, c.regions>>)
           made == NormalizeReplicas(c).multiRegionConfig
           d == c.deploy.multiRegionConfig
           x == Coalesce(<<made, d>>)
<1>1. Picks(g, given) /\ Absent \notin given
  BY SpellingPicked DEF Said
<1>2. RegionsSaid(c) = {RegionsGiven(Head(r)) : r \in given}
                         \cup {RegionsBuilt(Head(r)) : r \in {d} \ {Absent}}
  BY SaidOf DEF RegionsSaid
<1>3. c.replicas.number # Absent => given = {}
  BY DEF Unambiguous
<1>4. \A regions \in RegionsSaid(c) : \A r \in DOMAIN regions : Single(regions[r].replicas)
  BY DEF Unambiguous, Says
<1>5. made = IF c.replicas.number = Absent /\ g # Absent THEN <<NormalizeRegions(Head(g))>> ELSE Absent
  BY DEF NormalizeReplicas
<1>6. x = IF made = Absent THEN d ELSE made
  BY FirstOfTwo
<1> HIDE DEF given, g, made
<1>7. CASE given # {}
  <2>1. g \in given /\ g # Absent /\ c.replicas.number = Absent
    BY <1>1, <1>3, <1>7 DEF Picks
  <2> DEFINE w == NormalizeRegions(Head(g))
  <2>2. x = <<w>>
    BY <1>5, <1>6, <2>1 DEF Absent
  <2>3. RegionsGiven(Head(g)) \in RegionsSaid(c)
    BY <1>2, <2>1
  <2>4. \A r \in DOMAIN RegionsGiven(Head(g)) : Single(RegionsGiven(Head(g))[r].replicas)
    BY <1>4, <2>3
  <2>5. /\ RegionsBuilt(w) = RegionsGiven(Head(g))
        /\ w = [r \in DOMAIN w |-> [numReplicas |-> w[r].numReplicas,
                                    stackerAssignment |-> w[r].stackerAssignment]]
    BY <2>4, RegionsAreSaid
  <2> HIDE DEF w, x
  <2>6. RegionsForm(x, RegionsSaid(c))
    BY <2>2, <2>3, <2>5 DEF RegionsForm
  <2>7. QED
    BY <2>6 DEF x, made, d
<1>8. CASE given = {}
  <2>1. x = d
    BY <1>1, <1>5, <1>6, <1>8 DEF Picks
  <2>2. CASE d = Absent
    <3>1. RegionsSaid(c) = {}
      BY <1>2, <1>8, <2>2
    <3>2. QED
      BY <2>1, <2>2, <3>1 DEF RegionsForm, made
  <2>3. CASE d # Absent
    <3> DEFINE w == Head(d)
    <3>1. /\ d = <<w>>
          /\ w = [r \in DOMAIN w |-> [numReplicas |-> w[r].numReplicas,
                                      stackerAssignment |-> w[r].stackerAssignment]]
      BY <2>3
    <3>2. RegionsBuilt(w) \in RegionsSaid(c)
      BY <1>2, <2>3
    <3> HIDE DEF w, d, x
    <3>3. RegionsForm(x, RegionsSaid(c))
      BY <2>1, <3>1, <3>2 DEF RegionsForm
    <3>4. QED
      BY <3>3 DEF x, made, d
  <2>4. QED
    BY <2>2, <2>3
<1>9. QED
  BY <1>7, <1>8

LEMMA GivenPort ==
    ASSUME NEW p
    PROVE  Head(Coalesce(<<p, <<8080>>>>)) = IF p = Absent THEN 8080 ELSE Head(p)
<1>1. Coalesce(<<p, <<8080>>>>) = IF p = Absent THEN <<8080>> ELSE p
  BY FirstOfTwo
<1>2. CASE p = Absent
  BY <1>1, <1>2, OneOf
<1>3. CASE p # Absent
  <2>1. Coalesce(<<p, <<8080>>>>) = p
    BY <1>1, <1>3
  <2>2. QED
    BY <1>3, <2>1
<1>4. QED
  BY <1>2, <1>3

LEMMA DomainsForm ==
    ASSUME NEW c
    PROVE  NormalizeNetworking(c).customDomains =
             IF DomainsSaid(c) = Absent THEN Absent ELSE <<FromEntries(Head(DomainsSaid(c)))>>
<1> DEFINE h == Head(c.domains)
           Port(p) == Head(Coalesce(<<p, <<8080>>>>))
           PortSaid(p) == IF p = Absent THEN 8080 ELSE Head(p)
           entries == [i \in DOMAIN h |-> <<h[i].domain, Port(h[i].port)>>]
           said == [i \in DOMAIN h |-> <<h[i].domain, PortSaid(h[i].port)>>]
<1>1. NormalizeNetworking(c).customDomains = IF c.domains = Absent THEN Absent ELSE <<FromEntries(entries)>>
  BY DEF NormalizeNetworking
<1>2. DomainsSaid(c) = IF c.domains = Absent THEN Absent ELSE <<said>>
  BY DEF DomainsSaid
<1>3. entries = said
  <2>1. ASSUME NEW i \in DOMAIN h
        PROVE  Port(h[i].port) = PortSaid(h[i].port)
    BY GivenPort
  <2> HIDE DEF Port, PortSaid
  <2>2. QED
    BY <2>1
<1> HIDE DEF entries, said
<1>4. <<said>> # Absent /\ Head(<<said>>) = said
  BY OneOf DEF Absent
<1>5. QED
  BY <1>1, <1>2, <1>3, <1>4

\* The ports of the proxies, which come from one of two spellings.
PortsForm(x, values) ==
    \/ x = Absent /\ values = {}
    \/ \E ports \in values : x = <<ports>>

LEMMA PortsPick ==
    ASSUME NEW c
    PROVE  PortsForm(NormalizeNetworking(c).tcpProxies, PortsSaid(c))
<1> DEFINE P(tcp) == {p.port : p \in Range(Head(tcp))}
           Ports(tcp) == IF tcp = Absent THEN Absent ELSE <<P(tcp)>>
           a == c.tcp
           b == c.tcpProxies
           x == Coalesce(<<Ports(a), Ports(b)>>)
<1>1. NormalizeNetworking(c).tcpProxies = x
  BY DEF NormalizeNetworking
<1>2. PortsSaid(c) = {P(tcp) : tcp \in {a, b} \ {Absent}}
  BY SaidOf DEF PortsSaid
<1>3. x = IF Ports(a) = Absent THEN Ports(b) ELSE Ports(a)
  <2> DEFINE v == Ports(a)
             w == Ports(b)
  <2>1. x = Coalesce(<<v, w>>)
    OBVIOUS
  <2> HIDE DEF v, w, x
  <2>2. x = IF v = Absent THEN w ELSE v
    BY <2>1, FirstOfTwo
  <2>3. QED
    BY <2>2 DEF v, w
<1>4. \A tcp : tcp # Absent => <<P(tcp)>> # Absent
  BY OneOf DEF Absent
<1> HIDE DEF P, x, a, b
<1>5. PortsForm(x, PortsSaid(c))
  <2>1. CASE a # Absent
    <3>1. P(a) \in PortsSaid(c) /\ x = <<P(a)>>
      BY <1>2, <1>3, <1>4, <2>1
    <3>2. QED
      BY <3>1 DEF PortsForm
  <2>2. CASE a = Absent /\ b # Absent
    <3>1. P(b) \in PortsSaid(c) /\ x = <<P(b)>>
      BY <1>2, <1>3, <1>4, <2>2
    <3>2. QED
      BY <3>1 DEF PortsForm
  <2>3. CASE a = Absent /\ b = Absent
    <3>1. PortsSaid(c) = {} /\ x = Absent
      BY <1>2, <1>3, <2>3
    <3>2. QED
      BY <3>1 DEF PortsForm
  <2>4. QED
    BY <2>1, <2>2, <2>3
<1>6. QED
  BY <1>1, <1>5

LEMMA OneNetworking ==
    ASSUME NEW c, NEW d, Unambiguous(c), Says(c) = Says(d)
    PROVE  NormalizeNetworking(c) = NormalizeNetworking(d)
<1> DEFINE m == NormalizeNetworking(c)
           n == NormalizeNetworking(d)
<1>1. /\ c.networking.rest = d.networking.rest /\ DomainsSaid(c) = DomainsSaid(d)
      /\ PortsSaid(c) = PortsSaid(d) /\ Single(PortsSaid(c))
  <2>1. \A e : /\ Says(e).networking = e.networking.rest /\ Says(e).domains = DomainsSaid(e)
               /\ Says(e).ports = PortsSaid(e)
    BY DEF Says
  <2>2. Single(Says(c).ports)
    BY DEF Unambiguous
  <2>3. QED
    BY <2>1, <2>2
<1>2. m.rest = c.networking.rest /\ n.rest = d.networking.rest
  BY DEF NormalizeNetworking
<1>3. m.customDomains = n.customDomains
  BY <1>1, DomainsForm
<1>4. m.tcpProxies = n.tcpProxies
  <2>1. PortsForm(m.tcpProxies, PortsSaid(c)) /\ PortsForm(n.tcpProxies, PortsSaid(c))
    BY <1>1, PortsPick
  <2> HIDE DEF m, n
  <2>2. QED
    BY <1>1, <2>1 DEF PortsForm, Single
<1>5. /\ m = [rest |-> m.rest, customDomains |-> m.customDomains, tcpProxies |-> m.tcpProxies]
      /\ n = [rest |-> n.rest, customDomains |-> n.customDomains, tcpProxies |-> n.tcpProxies]
  BY DEF NormalizeNetworking
<1> HIDE DEF m, n
<1>6. m = n
  BY <1>1, <1>2, <1>3, <1>4, <1>5
<1>7. QED
  BY <1>6 DEF m, n

\* What the variables say is their object, as a set of entries.
LEMMA VariablesForm ==
    ASSUME NEW c
    PROVE  LET V == NormalizeVariables(c)
           IN  VariablesSaid(c) = {<<n, V[n]>> : n \in DOMAIN V} /\ V = [n \in DOMAIN V |-> V[n]]
<1> DEFINE V == NormalizeVariables(c)
           E == DOMAIN c.env
           W == DOMAIN c.variables
<1>1. V = [n \in E \cup W |-> NormalizeVariable(IF n \in E THEN c.env[n] ELSE c.variables[n])]
  BY DEF NormalizeVariables
<1>2. VariablesSaid(c) = {<<n, NormalizeVariable(c.env[n])>> : n \in E}
                           \cup {<<n, NormalizeVariable(c.variables[n])>> : n \in W \ E}
  BY DEF VariablesSaid
<1> HIDE DEF V, E, W
<1>3. /\ DOMAIN V = E \cup W
      /\ \A n \in E : V[n] = NormalizeVariable(c.env[n])
      /\ \A n \in W \ E : V[n] = NormalizeVariable(c.variables[n])
  BY <1>1
<1>4. /\ {<<n, NormalizeVariable(c.env[n])>> : n \in E} = {<<n, V[n]>> : n \in E}
      /\ {<<n, NormalizeVariable(c.variables[n])>> : n \in W \ E} = {<<n, V[n]>> : n \in W \ E}
  BY <1>3
<1>5. VariablesSaid(c) = {<<n, V[n]>> : n \in E} \cup {<<n, V[n]>> : n \in W \ E}
  BY <1>2, <1>4
<1>6. VariablesSaid(c) = {<<n, V[n]>> : n \in DOMAIN V}
  BY <1>3, <1>5
<1>7. V = [n \in DOMAIN V |-> V[n]]
  BY <1>1, <1>3
<1>8. QED
  BY <1>6, <1>7 DEF V

LEMMA OneGraph ==
    ASSUME NEW V, NEW W, V = [n \in DOMAIN V |-> V[n]], W = [n \in DOMAIN W |-> W[n]],
           {<<n, V[n]>> : n \in DOMAIN V} = {<<n, W[n]>> : n \in DOMAIN W}
    PROVE  V = W
<1>1. \A n \in DOMAIN V : n \in DOMAIN W /\ W[n] = V[n]
  <2>1. SUFFICES ASSUME NEW n \in DOMAIN V
                 PROVE  n \in DOMAIN W /\ W[n] = V[n]
    OBVIOUS
  <2>2. <<n, V[n]>> \in {<<k, W[k]>> : k \in DOMAIN W}
    OBVIOUS
  <2>3. QED
    BY <2>2
<1>2. \A n \in DOMAIN W : n \in DOMAIN V
  <2>1. SUFFICES ASSUME NEW n \in DOMAIN W
                 PROVE  n \in DOMAIN V
    OBVIOUS
  <2>2. <<n, W[n]>> \in {<<k, V[k]>> : k \in DOMAIN V}
    OBVIOUS
  <2>3. QED
    BY <2>2
<1>3. QED
  BY <1>1, <1>2

\* The shape FamiliesAssumption gives a configuration.
Shaped(c) ==
    /\ ConfigOK(c)
    /\ c.build.object = [buildCommand |-> c.build.object.buildCommand, rest |-> c.build.object.rest]
    /\ c.deploy.multiRegionConfig # Absent =>
          LET regions == Head(c.deploy.multiRegionConfig) IN
          /\ c.deploy.multiRegionConfig = <<regions>>
          /\ regions = [r \in DOMAIN regions |->
                           [numReplicas |-> regions[r].numReplicas,
                            stackerAssignment |-> regions[r].stackerAssignment]]

LEMMA OneSource ==
    ASSUME NEW c, NEW d, Shaped(c), Shaped(d), Unambiguous(c), Unambiguous(d), Says(c) = Says(d)
    PROVE  NormalizeSource(c.source, Coalesce(<<c.root, c.rootDirectory>>)) =
           NormalizeSource(d.source, Coalesce(<<d.root, d.rootDirectory>>))
<1> DEFINE Made(e) == NormalizeSource(e.source, Coalesce(<<e.root, e.rootDirectory>>))
           s == SourceSaid(c)
           t == SourceSaid(d)
<1>1. s = t /\ Single(s.roots)
  <2>1. Says(c).source = s /\ Says(d).source = t
    BY DEF Says
  <2>2. Single(Says(c).source.roots)
    BY DEF Unambiguous
  <2>3. QED
    BY <2>1, <2>2
<1>2. IF s.type = "none" THEN Made(c) = Absent
      ELSE \E r : Picks(r, s.roots) /\ Made(c) = Source(s.type, s.name, s.branch, r, s.rest)
  BY SourceForm DEF Shaped, ConfigOK, Unambiguous
<1>3. IF t.type = "none" THEN Made(d) = Absent
      ELSE \E r : Picks(r, t.roots) /\ Made(d) = Source(t.type, t.name, t.branch, r, t.rest)
  BY SourceForm DEF Shaped, ConfigOK, Unambiguous
<1> HIDE DEF Made, s, t
<1>4. Made(c) = Made(d)
  BY <1>1, <1>2, <1>3, OnePick
<1>5. QED
  BY <1>4 DEF Made

LEMMA OneBuild ==
    ASSUME NEW c, NEW d, Shaped(c), Shaped(d), Unambiguous(c), Unambiguous(d), Says(c) = Says(d)
    PROVE  NormalizeBuild(c) = NormalizeBuild(d)
<1> DEFINE Given(e) == Said(<<e.build.text, e.build.object.buildCommand>>)
<1>1. ASSUME NEW e, Shaped(e), Unambiguous(e)
      PROVE  \E b : Picks(b, Given(e)) /\ NormalizeBuild(e) = [buildCommand |-> b, rest |-> e.build.object.rest]
  BY <1>1, BuildForm DEF Shaped, Unambiguous
<1>2. \A e : Says(e).buildCommand = Given(e) /\ Says(e).build = e.build.object.rest
  BY DEF Says
<1>3. Single(Says(c).buildCommand)
  BY DEF Unambiguous
<1> HIDE DEF Given
<1>4. Given(c) = Given(d) /\ Single(Given(c)) /\ c.build.object.rest = d.build.object.rest
  BY <1>2, <1>3
<1>5. PICK b : Picks(b, Given(c)) /\ NormalizeBuild(c) = [buildCommand |-> b, rest |-> c.build.object.rest]
  BY <1>1
<1>6. PICK a : Picks(a, Given(d)) /\ NormalizeBuild(d) = [buildCommand |-> a, rest |-> d.build.object.rest]
  BY <1>1
<1>7. a = b
  BY <1>4, <1>5, <1>6, OnePick
<1>8. QED
  BY <1>4, <1>5, <1>6, <1>7

LEMMA OneDeployment ==
    ASSUME NEW c, NEW d, Shaped(c), Shaped(d), Unambiguous(c), Unambiguous(d), Says(c) = Says(d)
    PROVE  NormalizeDeploy(c) = NormalizeDeploy(d)
<1>1. ASSUME NEW e, Shaped(e), Unambiguous(e)
      PROVE  /\ DeployForm(NormalizeDeploy(e), e)
             /\ RegionsForm(NormalizeDeploy(e).multiRegionConfig, RegionsSaid(e))
  <2>1. /\ DeployForm(NormalizeDeploy(e), e)
        /\ NormalizeDeploy(e).multiRegionConfig =
             Coalesce(<<NormalizeReplicas(e).multiRegionConfig, e.deploy.multiRegionConfig>>)
    BY <1>1, DeployPicks DEF Shaped, ConfigOK, Unambiguous
  <2>2. RegionsForm(Coalesce(<<NormalizeReplicas(e).multiRegionConfig, e.deploy.multiRegionConfig>>),
                    RegionsSaid(e))
    BY <1>1, RegionsPick DEF Shaped
  <2>3. QED
    BY <2>1, <2>2
<1>2. RegionsSaid(c) = RegionsSaid(d) /\ Single(RegionsSaid(c))
  <2>1. \A e : Says(e).regions = RegionsSaid(e)
    BY DEF Says
  <2>2. Single(Says(c).regions)
    BY DEF Unambiguous
  <2>3. QED
    BY <2>1, <2>2
<1>3. /\ RegionsForm(NormalizeDeploy(c).multiRegionConfig, RegionsSaid(c))
      /\ RegionsForm(NormalizeDeploy(d).multiRegionConfig, RegionsSaid(c))
  BY <1>1, <1>2
<1>4. NormalizeDeploy(c).multiRegionConfig = NormalizeDeploy(d).multiRegionConfig
  BY <1>2, <1>3, OneRegions
<1>5. DeployForm(NormalizeDeploy(c), c) /\ DeployForm(NormalizeDeploy(d), d)
  BY <1>1
<1>6. QED
  BY <1>4, <1>5, OneDeploy

LEMMA SameNode ==
    ASSUME NEW c, NEW d, Shaped(c), Shaped(d), SayTheSame(c, d)
    PROVE  Service(c) = Service(d)
<1>1. CASE c = d
  BY <1>1
<1>2. CASE Unambiguous(c) /\ Unambiguous(d) /\ Says(c) = Says(d)
  <2>1. NormalizeSource(c.source, Coalesce(<<c.root, c.rootDirectory>>)) =
        NormalizeSource(d.source, Coalesce(<<d.root, d.rootDirectory>>))
    BY <1>2, OneSource
  <2>2. NormalizeBuild(c) = NormalizeBuild(d)
    BY <1>2, OneBuild
  <2>3. NormalizeDeploy(c) = NormalizeDeploy(d)
    BY <1>2, OneDeployment
  <2>4. NormalizeNetworking(c) = NormalizeNetworking(d)
    BY <1>2, OneNetworking
  <2>5. NormalizeVariables(c) = NormalizeVariables(d)
    <3>1. VariablesSaid(c) = VariablesSaid(d)
      <4>1. \A e : Says(e).variables = VariablesSaid(e)
        BY DEF Says
      <4>2. QED
        BY <1>2, <4>1
    <3> DEFINE V == NormalizeVariables(c)
               W == NormalizeVariables(d)
    <3>2. /\ VariablesSaid(c) = {<<n, V[n]>> : n \in DOMAIN V} /\ V = [n \in DOMAIN V |-> V[n]]
          /\ VariablesSaid(d) = {<<n, W[n]>> : n \in DOMAIN W} /\ W = [n \in DOMAIN W |-> W[n]]
      BY VariablesForm
    <3> HIDE DEF V, W
    <3>3. {<<n, V[n]>> : n \in DOMAIN V} = {<<n, W[n]>> : n \in DOMAIN W}
      BY <3>1, <3>2
    <3>4. V = W
      BY <3>2, <3>3, OneGraph
    <3>5. QED
      BY <3>4 DEF V, W
  <2>6. c.volumeMounts = d.volumeMounts
    <3>1. Says(c).volumeMounts = c.volumeMounts /\ Says(d).volumeMounts = d.volumeMounts
      BY DEF Says
    <3>2. QED
      BY <1>2, <3>1
  <2>7. QED
    BY <2>1, <2>2, <2>3, <2>4, <2>5, <2>6 DEF Service
<1>3. QED
  BY <1>1, <1>2 DEF SayTheSame

LEMMA ServiceMade ==
    ASSUME NodeInv, node.kind \notin {"nothing", "error", "function"}
    PROVE  node = Service(config)
  BY DEF NodeInv, Nothing

\* For every set of configurations whose spellings do not contradict each other: those
\* that say the same make one node (iac/sdk.ts:363-517), and the node's own spelling of
\* its parts is one of theirs.
THEOREM SpellingsMakeOneNode == InfraSpec => []SpellingsAgree
<1>1. ASSUME NodeInv, node.kind \notin {"nothing", "error", "function"}, NEW c \in family
      PROVE  Service(c) = node
  <2>1. Shaped(c) /\ Shaped(config) /\ SayTheSame(c, config)
    BY <1>1, FamiliesAssumption DEF NodeInv, Shaped, ConfigOK, SourceOK
  <2>2. QED
    BY <1>1, <2>1, SameNode, ServiceMade
<1>2. NodeInv /\ NodeKept => SpellingsAgree
  BY <1>1 DEF SpellingsAgree
<1>3. QED
  BY NodeInvInit, NodeInvNext, NodeIsASpelling, <1>2, PTL DEF InfraSpec

-----------------------------------------------------------------------------
(* The flag resolver has two evaluators of an expression, written twice    *)
(* because one may wait.  Their recursive functions satisfy one equation,  *)
(* and a function is determined by its equation, so no induction over the  *)
(* expression is needed.  That the order of the rules does not matter is a *)
(* fact about what a trace is read for: whether a value is given, whether  *)
(* all given values agree, and which rules gave one.                       *)

\* A clause is null or false in one evaluator exactly when it is false in the other.
LEMMA ClausesAgree ==
    ASSUME NEW clause, NEW a
    PROVE  EvaluateClause(clause, a) = EvaluateClauseSync(clause, a)
<1> USE DEF EvaluateClause, EvaluateClauseNullable, EvaluateClauseSync, Unless
<1>1. CASE a = Null
  BY <1>1
<1>2. CASE a # Null /\ clause.op \in {"eq", "neq"}
  BY <1>2
<1>3. CASE a # Null /\ clause.op \in {"gt", "lt", "gte", "lte"}
  BY <1>3
<1>4. CASE a # Null /\ clause.op \in {"contains", "not_contains", "matches"}
  BY <1>4
<1>5. CASE a # Null /\ clause.op \in {"in_list", "not_in_list"}
  BY <1>5
<1>6. CASE a # Null /\ clause.op \notin {"eq", "neq", "gt", "lt", "gte", "lte", "contains",
                                         "not_contains", "matches", "in_list", "not_in_list"}
  BY <1>6
<1>7. QED
  BY <1>1, <1>2, <1>3, <1>4, <1>5, <1>6

\* The two functions on expressions satisfy one equation.
LEMMA ExpressionsAgree ==
    ASSUME NEW expr, NEW flat, NEW hash
    PROVE  EvaluateSignalExpression(expr, flat, hash) = EvaluateSignalExpressionSync(expr, flat, hash)
<1>1. \A e, a : EvaluateClause(e, a) = EvaluateClauseSync(e, a)
  BY ClausesAgree
<1>2. QED
  BY <1>1 DEF EvaluateSignalExpression, EvaluateSignalExpressionSync

\* A context that is normalised already stays as it is.
LEMMA NormalizedOnce ==
    ASSUME NEW raw
    PROVE  LET context == NormalizeEvaluationContext(raw)
           IN  NormalizeEvaluationContext(context) = context
<1> DEFINE Form(k, m) == Spread(IF k.type = "string" THEN [targetingKey |-> k] ELSE Empty,
                                IF DOMAIN m # {} THEN [attributes |-> Object(m)] ELSE Empty)
<1>1. PICK k, m : NormalizeEvaluationContext(raw) = Form(k, m) /\ m = [n \in DOMAIN m |-> m[n]]
  <2> DEFINE key == IF Get(raw, "key").type = "string" THEN Get(raw, "key")
                    ELSE Get(raw, "targetingKey")
             rest == [n \in DOMAIN raw \ {"key", "targetingKey", "attributes"} |-> raw[n]]
             given == Get(raw, "attributes")
             attributes == Spread(rest, IF given.type = "object" THEN given.members ELSE Empty)
  <2>1. NormalizeEvaluationContext(raw) = Form(key, attributes)
    BY DEF NormalizeEvaluationContext
  <2>2. attributes = [n \in DOMAIN attributes |-> attributes[n]]
    BY DEF Spread
  <2> HIDE DEF key, attributes
  <2>3. QED
    BY <2>1, <2>2
<1> DEFINE c == Form(k, m)
<1>2. /\ DOMAIN c = (IF k.type = "string" THEN {"targetingKey"} ELSE {})
                      \cup (IF DOMAIN m # {} THEN {"attributes"} ELSE {})
      /\ k.type = "string" => c["targetingKey"] = k
      /\ DOMAIN m # {} => c["attributes"] = Object(m)
  BY DEF Spread, Empty
<1> HIDE DEF c
<1>3. Get(c, "key") = Null
  BY <1>2 DEF Get
<1>4. Get(c, "targetingKey") = IF k.type = "string" THEN k ELSE Null
  BY <1>2 DEF Get
<1>5. Get(c, "attributes") = IF DOMAIN m # {} THEN Object(m) ELSE Null
  BY <1>2 DEF Get
<1>6. DOMAIN c \ {"key", "targetingKey", "attributes"} = {}
  BY <1>2
<1> DEFINE rest == [n \in DOMAIN c \ {"key", "targetingKey", "attributes"} |-> c[n]]
           given == Get(c, "attributes")
           members == IF given.type = "object" THEN given.members ELSE Empty
           key == IF Get(c, "key").type = "string" THEN Get(c, "key") ELSE Get(c, "targetingKey")
<1>7. key.type = "string" <=> k.type = "string"
  BY <1>3, <1>4 DEF Null
<1>8. key.type = "string" => key = k
  BY <1>3, <1>4 DEF Null
<1>9. members = IF DOMAIN m # {} THEN m ELSE Empty
  BY <1>5 DEF Null, Object
<1>10. DOMAIN rest = {}
  BY <1>6
<1>11. DOMAIN Spread(rest, members) = DOMAIN m /\ \A n \in DOMAIN m : Spread(rest, members)[n] = m[n]
  <2> HIDE DEF rest, members
  <2>1. DOMAIN members = DOMAIN m /\ \A n \in DOMAIN m : members[n] = m[n]
    BY <1>9 DEF Empty
  <2>2. QED
    BY <1>10, <2>1 DEF Spread
<1>12. Spread(rest, members) = m
  BY <1>1, <1>11 DEF Spread
<1>13. NormalizeEvaluationContext(c) = Form(key, Spread(rest, members))
  BY DEF NormalizeEvaluationContext
<1>14. Form(key, m) = Form(k, m)
  BY <1>7, <1>8
<1>15. QED
  BY <1>1, <1>12, <1>13, <1>14 DEF c

\* Both entry points reach the same result, whichever normalises once more.
LEMMA RulesetsAgree ==
    ASSUME NEW flag, NEW raw, NEW hash
    PROVE  /\ EvaluateFlagRuleset(flag, raw, hash) = EvaluateFlagRulesetSync(flag, raw, hash)
           /\ EvaluateFlagRulesetSync(flag, NormalizeEvaluationContext(raw), hash)
                = EvaluateFlagRulesetSync(flag, raw, hash)
<1>1. \A expr, flat : EvaluateSignalExpression(expr, flat, hash)
                        = EvaluateSignalExpressionSync(expr, flat, hash)
  BY ExpressionsAgree
<1>2. EvaluateFlagRuleset(flag, raw, hash) = EvaluateFlagRulesetSync(flag, raw, hash)
  BY <1>1 DEF EvaluateFlagRuleset, EvaluateFlagRulesetSync
<1>3. NormalizeEvaluationContext(NormalizeEvaluationContext(raw)) = NormalizeEvaluationContext(raw)
  BY NormalizedOnce
<1>4. QED
  BY <1>2, <1>3 DEF EvaluateFlagRulesetSync

\* The entries of a trace and of the trace of the same rules in another order.
SameEntries(e, g, D, order) ==
    /\ D \subseteq Nat
    /\ DOMAIN e = D /\ DOMAIN g = D
    /\ \A i \in D : order[i] \in D /\ g[i] = e[order[i]]
    /\ \A j \in D : \E i \in D : order[i] = j

Given(e) == {i \in DOMAIN e : e[i].value # Null}

LEMMA AgreedValue ==
    ASSUME NEW e, NEW D \in SUBSET Nat, DOMAIN e = D, Given(e) # {}
    PROVE  /\ Min(Given(e)) \in Given(e)
           /\ ValuesAgree(e, Given(e)) <=> \A i, j \in Given(e) : e[i].value = e[j].value
<1>1. Given(e) \in SUBSET Nat
  BY DEF Given
<1>2. Min(Given(e)) \in Given(e)
  <2>1. PICK x \in Given(e) : \A y \in Given(e) : x <= y
    BY <1>1, LeastIn
  <2>2. QED
    BY <2>1 DEF Min
<1>3. QED
  BY <1>2 DEF ValuesAgree

LEMMA OrderOfEntries ==
    ASSUME NEW e, NEW g, NEW D, NEW order, SameEntries(e, g, D, order)
    PROVE  /\ Given(e) = {} <=> Given(g) = {}
           /\ ValuesAgree(e, Given(e)) <=> ValuesAgree(g, Given(g))
           /\ Given(e) # {} /\ ValuesAgree(e, Given(e)) =>
                 e[Min(Given(e))].value = g[Min(Given(g))].value
           /\ {e[i] : i \in DOMAIN e} = {g[i] : i \in DOMAIN g}
<1>1. \A i \in D : i \in Given(g) <=> order[i] \in Given(e)
  BY DEF SameEntries, Given
<1>2. Given(e) \subseteq D /\ Given(g) \subseteq D
  BY DEF SameEntries, Given
<1>3. Given(e) = {} <=> Given(g) = {}
  BY <1>1, <1>2 DEF SameEntries
<1>4. {e[i] : i \in DOMAIN e} = {g[i] : i \in DOMAIN g}
  BY DEF SameEntries
<1>5. CASE Given(e) = {}
  BY <1>3, <1>4, <1>5 DEF ValuesAgree
<1>6. CASE Given(e) # {}
  <2>1. /\ Min(Given(e)) \in Given(e) /\ Min(Given(g)) \in Given(g)
        /\ ValuesAgree(e, Given(e)) <=> \A i, j \in Given(e) : e[i].value = e[j].value
        /\ ValuesAgree(g, Given(g)) <=> \A i, j \in Given(g) : g[i].value = g[j].value
    BY <1>3, <1>6, AgreedValue DEF SameEntries
  <2>2. \A j \in Given(e) : \E i \in Given(g) : g[i].value = e[j].value
    <3>1. ASSUME NEW j \in Given(e)
          PROVE  \E i \in Given(g) : g[i].value = e[j].value
      <4>1. PICK i \in D : order[i] = j
        BY <1>2 DEF SameEntries
      <4>2. i \in Given(g) /\ g[i] = e[j]
        BY <1>1, <4>1 DEF SameEntries
      <4>3. QED
        BY <4>2
    <3>2. QED
      BY <3>1
  <2>3. \A i \in Given(g) : order[i] \in Given(e) /\ g[i].value = e[order[i]].value
    BY <1>1, <1>2 DEF SameEntries
  <2>4. ValuesAgree(e, Given(e)) <=> ValuesAgree(g, Given(g))
    BY <2>1, <2>2, <2>3
  <2>5. ASSUME ValuesAgree(e, Given(e))
        PROVE  e[Min(Given(e))].value = g[Min(Given(g))].value
    BY <2>1, <2>3, <2>5
  <2>6. QED
    BY <1>3, <1>4, <2>4, <2>5
<1>7. QED
  BY <1>5, <1>6

\* The rules in another order: the flag, and what the trace of its rules says.
Reordered(flag, order) == [flag EXCEPT !.rules = [i \in DOMAIN @ |-> @[order[i]]]]

Entries(rules, matched) ==
    [i \in DOMAIN rules |->
        [ruleId |-> rules[i].id, matched |-> matched[i],
         value |-> IF matched[i] THEN SourceValue(rules[i].source) ELSE Null]]

OutcomeOf(e) ==
    CASE Given(e) = {} -> "no_match"
      [] Given(e) # {} /\ ~ValuesAgree(e, Given(e)) -> "disagreement"
      [] OTHER -> "agreed"

LEMMA ResolveForm ==
    ASSUME NEW flag, NEW matched
    PROVE  ResolveSignal(flag, matched) =
             [matchedRules |-> Entries(flag.rules, matched),
              outcome |-> OutcomeOf(Entries(flag.rules, matched)),
              value |-> IF OutcomeOf(Entries(flag.rules, matched)) = "agreed"
                        THEN Entries(flag.rules, matched)[Min(Given(Entries(flag.rules, matched)))].value
                        ELSE flag.default]
  BY DEF ResolveSignal, Entries, OutcomeOf, Given

LEMMA ReasonForm ==
    ASSUME NEW e, NEW outcome, NEW value, NEW rules
    PROVE  LET ids == {entry.ruleId : entry \in {x \in {e[i] : i \in DOMAIN e} :
                                                     x.matched /\ x.value # Null}}
           IN  EvaluationReasonFromTrace([matchedRules |-> e, outcome |-> outcome, value |-> value],
                                         rules)
                 = CASE outcome = "no_match" -> "NO_MATCH"
                     [] outcome = "disagreement" -> "CONFLICT"
                     [] OTHER -> IF \E i \in DOMAIN rules : /\ rules[i].id \in ids
                                                            /\ rules[i].expression.kind = "bucket"
                                 THEN "SPLIT" ELSE "TARGETING_MATCH"
  BY DEF EvaluationReasonFromTrace, Range

LEMMA OrderOfRules ==
    ASSUME NEW rules, NEW other, NEW D, D \subseteq Nat, DOMAIN rules = D, NEW order,
           \A i \in D : order[i] \in D, \A j \in D : \E i \in D : order[i] = j,
           other = [i \in D |-> rules[order[i]]], NEW m, NEW n, \A i \in D : n[i] = m[order[i]]
    PROVE  /\ SameEntries(Entries(rules, m), Entries(other, n), D, order)
           /\ RequiresBucketingKey(rules) <=> RequiresBucketingKey(other)
           /\ \A ids : (\E i \in D : rules[i].id \in ids /\ rules[i].expression.kind = "bucket")
                   <=> (\E i \in D : other[i].id \in ids /\ other[i].expression.kind = "bucket")
<1>1. DOMAIN other = D /\ \A i \in D : other[i] = rules[order[i]]
  OBVIOUS
<1>2. \A i \in D : Entries(other, n)[i] = Entries(rules, m)[order[i]]
  BY <1>1 DEF Entries
<1>3. SameEntries(Entries(rules, m), Entries(other, n), D, order)
  BY <1>1, <1>2 DEF SameEntries, Entries
<1>4. RequiresBucketingKey(rules) <=> RequiresBucketingKey(other)
  <2>1. ASSUME RequiresBucketingKey(rules)
        PROVE  RequiresBucketingKey(other)
    <3>1. PICK j \in D : /\ rules[j].expression.kind = "bucket"
                         /\ rules[j].expression.attr \in {<<"key">>, <<"targetingKey">>}
      BY <2>1 DEF RequiresBucketingKey
    <3>2. PICK i \in D : order[i] = j
      OBVIOUS
    <3>3. other[i] = rules[j]
      BY <1>1, <3>2
    <3>4. QED
      BY <1>1, <3>1, <3>3 DEF RequiresBucketingKey
  <2>2. ASSUME RequiresBucketingKey(other)
        PROVE  RequiresBucketingKey(rules)
    BY <1>1, <2>2 DEF RequiresBucketingKey
  <2>3. QED
    BY <2>1, <2>2
<1>5. ASSUME NEW ids
      PROVE  (\E i \in D : rules[i].id \in ids /\ rules[i].expression.kind = "bucket")
               <=> (\E i \in D : other[i].id \in ids /\ other[i].expression.kind = "bucket")
  <2>1. ASSUME NEW j \in D
        PROVE  \E i \in D : other[i] = rules[j]
    BY <1>1
  <2>2. \A i \in D : \E j \in D : other[i] = rules[j]
    BY <1>1
  <2>3. ASSUME NEW j \in D, rules[j].id \in ids /\ rules[j].expression.kind = "bucket"
        PROVE  \E i \in D : other[i].id \in ids /\ other[i].expression.kind = "bucket"
    <3>1. PICK i \in D : other[i] = rules[j]
      BY <2>1
    <3>2. QED
      BY <2>3, <3>1
  <2>4. ASSUME NEW i \in D, other[i].id \in ids /\ other[i].expression.kind = "bucket"
        PROVE  \E j \in D : rules[j].id \in ids /\ rules[j].expression.kind = "bucket"
    <3>1. PICK j \in D : other[i] = rules[j]
      BY <2>2
    <3>2. QED
      BY <2>4, <3>1
  <2>5. QED
    BY <2>3, <2>4
<1>6. QED
  BY <1>3, <1>4, <1>5

\* The order of the rules changes neither value nor reason.
LEMMA OrderOfRuleset ==
    ASSUME NEW flag, flag = [x \in {"type", "default", "rules"} |-> flag[x]],
           NEW D, D \subseteq Nat, DOMAIN flag.rules = D, NEW order,
           \A i \in D : order[i] \in D, \A j \in D : \E i \in D : order[i] = j,
           NEW raw, NEW hash
    PROVE  LET one == EvaluateFlagRulesetSync(flag, raw, hash)
               two == EvaluateFlagRulesetSync(Reordered(flag, order), raw, hash)
           IN  two.value = one.value /\ two.reason = one.reason
<1> DEFINE other == [i \in D |-> flag.rules[order[i]]]
           flag2 == Reordered(flag, order)
<1>1. flag2.rules = other /\ flag2.default = flag.default
  BY DEF Reordered
<1> DEFINE context == NormalizeEvaluationContext(raw)
           flat == FlattenEvaluationContext(context)
           Holds(x) == EvaluateSignalExpressionSync(x, flat, hash)
           m == [i \in DOMAIN flag.rules |-> Holds(flag.rules[i].expression)]
           n == [i \in DOMAIN other |-> Holds(other[i].expression)]
           e == Entries(flag.rules, m)
           g == Entries(other, n)
           noKey == RequiresBucketingKey(flag.rules) /\ ~HasBucketingKey(context)
           v == IF OutcomeOf(e) = "agreed" THEN e[Min(Given(e))].value ELSE flag.default
           w == IF OutcomeOf(g) = "agreed" THEN g[Min(Given(g))].value ELSE flag.default
           t == [matchedRules |-> e, outcome |-> OutcomeOf(e), value |-> v]
           u == [matchedRules |-> g, outcome |-> OutcomeOf(g), value |-> w]
<1>2. /\ SameEntries(e, g, D, order)
      /\ RequiresBucketingKey(flag.rules) <=> RequiresBucketingKey(other)
      /\ \A ids : (\E i \in D : flag.rules[i].id \in ids /\ flag.rules[i].expression.kind = "bucket")
              <=> (\E i \in D : other[i].id \in ids /\ other[i].expression.kind = "bucket")
  <2>1. \A i \in D : n[i] = m[order[i]]
    <3> HIDE DEF Holds
    <3>1. QED
      OBVIOUS
  <2> HIDE DEF m, n
  <2>2. QED
    BY <2>1, OrderOfRules
<1>3. ResolveSignal(flag, m) = t /\ ResolveSignal(flag2, n) = u
  BY <1>1, ResolveForm
<1>4. EvaluateFlagRulesetSync(flag, raw, hash) =
        IF noKey THEN Evaluation(flag.default, "NO_KEY", <<>>)
        ELSE Evaluation(t.value, EvaluationReasonFromTrace(t, flag.rules), t.matchedRules)
  BY <1>3 DEF EvaluateFlagRulesetSync
<1>5. EvaluateFlagRulesetSync(flag2, raw, hash) =
        IF noKey THEN Evaluation(flag.default, "NO_KEY", <<>>)
        ELSE Evaluation(u.value, EvaluationReasonFromTrace(u, other), u.matchedRules)
  BY <1>1, <1>2, <1>3 DEF EvaluateFlagRulesetSync
<1>6. /\ Given(e) = {} <=> Given(g) = {}
      /\ ValuesAgree(e, Given(e)) <=> ValuesAgree(g, Given(g))
      /\ Given(e) # {} /\ ValuesAgree(e, Given(e)) =>
            e[Min(Given(e))].value = g[Min(Given(g))].value
      /\ {e[i] : i \in DOMAIN e} = {g[i] : i \in DOMAIN g}
  <2> HIDE DEF e, g
  <2>1. QED
    BY <1>2, OrderOfEntries
<1> HIDE DEF e, g
<1>7. OutcomeOf(e) = OutcomeOf(g) /\ v = w
  BY <1>6 DEF OutcomeOf
<1> HIDE DEF v, w
<1>8. EvaluationReasonFromTrace(t, flag.rules) = EvaluationReasonFromTrace(u, other)
  <2> DEFINE ids(f) == {entry.ruleId : entry \in {x \in {f[i] : i \in DOMAIN f} :
                                                     x.matched /\ x.value # Null}}
  <2>1. ids(e) = ids(g)
    BY <1>6
  <2>2. DOMAIN other = D
    OBVIOUS
  <2> DEFINE Reason(outcome, split) == CASE outcome = "no_match" -> "NO_MATCH"
                     [] outcome = "disagreement" -> "CONFLICT"
                     [] OTHER -> IF split THEN "SPLIT" ELSE "TARGETING_MATCH"
             Split(rules, S) == \E i \in DOMAIN rules : rules[i].id \in S /\ rules[i].expression.kind = "bucket"
  <2>3. EvaluationReasonFromTrace(t, flag.rules) = Reason(OutcomeOf(e), Split(flag.rules, ids(e)))
    BY ReasonForm
  <2>4. EvaluationReasonFromTrace(u, other) = Reason(OutcomeOf(g), Split(other, ids(g)))
    BY ReasonForm
  <2> HIDE DEF t, u, ids
  <2>5. Split(flag.rules, ids(e)) <=> Split(other, ids(e))
    BY <1>2, <2>2
  <2>6. QED
    BY <1>7, <2>1, <2>3, <2>4, <2>5
<1>9. QED
  BY <1>4, <1>5, <1>7, <1>8 DEF Evaluation

\* What a read and a resolution returned, and of which flag.
FlagInv ==
    /\ \E f \in FlagFamilies : input.flag \in f.flags
    /\ \/ read = Pending
       \/ \E fallback : read = RegistryEvaluate(input.registry, input.expected, input.flag,
                                                input.context, input.hash, fallback)
    /\ \/ resolved = Pending
       \/ resolved = EvaluateFlagRuleset(input.flag, input.context, input.hash)

LEMMA FlagInvInit == FlagsInit => FlagInv
  BY DEF FlagsInit, FlagInv

LEMMA FlagInvNext == FlagInv /\ [FlagsNext]_flagVars => FlagInv'
  BY DEF FlagInv, FlagsNext, Read, Resolve, flagVars

LEMMA ReadForm ==
    ASSUME FlagInv, Decided
    PROVE  read = EvaluateFlagRulesetSync(input.flag, input.context, input.hash)
<1>1. read # Pending
  BY DEF Decided, Pending, Evaluation
<1>2. PICK fallback : read = RegistryEvaluate(input.registry, input.expected, input.flag,
                                              input.context, input.hash, fallback)
  BY <1>1 DEF FlagInv
<1>3. read = EvaluateFlagRulesetSync(input.flag, NormalizeEvaluationContext(input.context), input.hash)
  BY <1>2 DEF RegistryEvaluate, Decided, Evaluation
<1>4. QED
  BY <1>3, RulesetsAgree

\* For every flag, context and hash, the evaluator on the promise path and the
\* synchronous one give one evaluation (expression.ts:10-100 and
\* expression-sync.ts:7-76 are two texts of one function).
THEOREM OneEvaluator == FlagsSpec => []EvaluatorsAgree
<1>1. FlagInv => EvaluatorsAgree
  BY ReadForm, RulesetsAgree DEF FlagInv, EvaluatorsAgree
<1>2. QED
  BY FlagInvInit, FlagInvNext, <1>1, PTL DEF FlagsSpec

\* In whatever order the rules of a flag come, the value and the reason of its
\* evaluation are the same (resolver.ts:94-147).
THEOREM OrderIsIrrelevant == FlagsSpec => []RuleOrderIrrelevant
<1>1. ASSUME FlagInv, Decided, NEW order \in Bijection(DOMAIN input.flag.rules, DOMAIN input.flag.rules)
      PROVE  LET second == EvaluateFlagRulesetSync(Reordered(input.flag, order), input.context, input.hash)
             IN  second.value = read.value /\ second.reason = read.reason
  <2>1. /\ input.flag = [x \in {"type", "default", "rules"} |-> input.flag[x]]
        /\ DOMAIN input.flag.rules \subseteq Nat
    BY <1>1, FlagFamiliesAssumption DEF FlagInv
  <2>2. /\ \A i \in DOMAIN input.flag.rules : order[i] \in DOMAIN input.flag.rules
        /\ \A j \in DOMAIN input.flag.rules : \E i \in DOMAIN input.flag.rules : order[i] = j
    BY <1>1 DEF Bijection, Surjection
  <2>3. QED
    BY <1>1, <2>1, <2>2, ReadForm, OrderOfRuleset
<1>2. FlagInv => RuleOrderIrrelevant
  BY <1>1 DEF RuleOrderIrrelevant, Reordered
<1>3. QED
  BY FlagInvInit, FlagInvNext, <1>2, PTL DEF FlagsSpec
=============================================================================
