--------------------------- MODULE SriDriverProofs ---------------------------
(***************************************************************************)
(* The zero request of the sensor driver, for every stream, every length   *)
(* of the capture and every payload.                                       *)
(***************************************************************************)
EXTENDS SriDriver, SequenceTheorems, TLAPS

(* A capture in progress counts its samples since the connection.           *)
CountInv ==
  /\ zero_remaining \in 0 .. ZeroSamples
  /\ since \in 0 .. ZeroSamples
  /\ CaptureIsOfOneConnection

(* A capture in progress has a request that waits for it and no fate yet;   *)
(* once it is over the verdict that the request will find is its own.       *)
VerdictInv ==
  /\ last_zero_ok \in BOOLEAN
  /\ request \in {"idle", "polling", "late"}
  /\ zero_remaining > 0 => request # "idle" /\ capture = None
  /\ request # "idle" => returned = None
  /\ request # "idle" /\ zero_remaining = 0 => (last_zero_ok <=> capture = "taken")
  /\ VerdictIsOwn

ZeroInv == CountInv /\ VerdictInv

-----------------------------------------------------------------------------
LEMMA NoneIsNoFate == None # "taken"
  BY DriverAssumption DEF Fates

(* What a sample does to the capture, whether or not it ends it.            *)
LEMMA SampleKeepsInv ==
  ASSUME ZeroInv, io = "receive", AccumulateZero, UNCHANGED <<io, request, returned>>
  PROVE  ZeroInv'
<1> USE DriverAssumption
<1>1. CASE zero_remaining = 0
  <2>1. UNCHANGED <<zero_remaining, last_zero_ok, capture>> /\ since' \in 0 .. ZeroSamples
    BY <1>1 DEF AccumulateZero, ZeroInv, CountInv
  <2> QED
    BY <1>1, <2>1 DEF ZeroInv, CountInv, VerdictInv, CaptureIsOfOneConnection, VerdictIsOwn
<1>2. CASE zero_remaining = 1
  <2>1. zero_remaining' = 0 /\ since' \in 0 .. ZeroSamples
    BY <1>2 DEF AccumulateZero, ZeroInv, CountInv
  <2>2. \/ last_zero_ok' = FALSE /\ capture' = "refused"
        \/ last_zero_ok' = TRUE /\ capture' = "taken"
    BY <1>2 DEF AccumulateZero, FinishZero
  <2>3. request # "idle" /\ returned = None /\ UNCHANGED <<request, returned>>
    BY <1>2 DEF ZeroInv, VerdictInv
  <2>4. CountInv'
    BY <2>1 DEF CountInv, CaptureIsOfOneConnection
  <2>5. last_zero_ok' \in BOOLEAN /\ (last_zero_ok' <=> capture' = "taken")
    BY <2>2
  <2>6. VerdictInv'
    BY <2>1, <2>3, <2>5 DEF ZeroInv, VerdictInv, VerdictIsOwn
  <2> QED
    BY <2>4, <2>6 DEF ZeroInv
<1>3. CASE zero_remaining > 1
  <2>1. zero_remaining' = zero_remaining - 1 /\ UNCHANGED <<last_zero_ok, capture>>
    BY <1>3 DEF AccumulateZero, ZeroInv, CountInv
  <2>2. zero_remaining + since = ZeroSamples
    BY <1>3 DEF ZeroInv, CountInv, CaptureIsOfOneConnection
  <2>3. since' = since + 1
    BY <1>3, <2>2 DEF AccumulateZero, ZeroInv, CountInv
  <2> QED
    BY <1>3, <2>1, <2>2, <2>3
       DEF ZeroInv, CountInv, VerdictInv, CaptureIsOfOneConnection, VerdictIsOwn
<1> QED
  BY <1>1, <1>2, <1>3 DEF ZeroInv, CountInv

LEMMA FeedKeepsInv ==
  ASSUME ZeroInv, Feed
  PROVE  ZeroInv'
<1>1. io = "receive" /\ UNCHANGED <<io, request, returned>>
  BY DEF Feed, requestVars
<1>2. AccumulateZero \/ UNCHANGED <<zero_remaining, last_zero_ok, since, capture>>
  BY DEF Feed, TakeSample
<1>3. CASE AccumulateZero
  BY <1>1, <1>3, SampleKeepsInv
<1>4. CASE UNCHANGED <<zero_remaining, last_zero_ok, since, capture>>
  BY <1>1, <1>4
     DEF ZeroInv, CountInv, VerdictInv, CaptureIsOfOneConnection, VerdictIsOwn
<1> QED
  BY <1>2, <1>3, <1>4

(* The session's reset abandons the capture and takes the verdict back.     *)
LEMMA ResetKeepsInv ==
  ASSUME ZeroInv, ResetSession
  PROVE  ZeroInv'
<1>1. /\ zero_remaining' = 0 /\ last_zero_ok' = FALSE
      /\ capture' = IF request # "idle" /\ capture = "taken" THEN "unheard" ELSE capture
      /\ UNCHANGED <<request, returned, since>>
  BY DEF ResetSession, SessionReset, requestVars
<1>2. CountInv'
  BY <1>1, DriverAssumption DEF ZeroInv, CountInv, CaptureIsOfOneConnection
<1>3. /\ last_zero_ok' \in BOOLEAN /\ ~last_zero_ok'
      /\ ~(zero_remaining' > 0)
  <2>1. last_zero_ok' \in BOOLEAN /\ ~last_zero_ok'
    BY <1>1, Zenon
  <2>2. ~(zero_remaining' > 0)
    BY <1>1
  <2> QED
    BY <2>1, <2>2
<1>4. request' \in {"idle", "polling", "late"} /\ (request' # "idle" => returned' = None)
  BY <1>1 DEF ZeroInv, VerdictInv
<1>5. request' # "idle" => capture' # "taken"
  BY <1>1
<1>6. VerdictIsOwn'
  BY <1>1, <1>4 DEF ZeroInv, VerdictInv, VerdictIsOwn
<1> QED
  BY <1>2, <1>3, <1>4, <1>5, <1>6 DEF ZeroInv, VerdictInv

(* The steps around the connection leave the session alone.                 *)
LEMMA LinkKeepsInv ==
  ASSUME ZeroInv, Serve \/ SendFrame \/ Break \/ NoteDown \/ Connect \/ SendStart \/ ReceiveFails
  PROVE  ZeroInv'
<1>1. UNCHANGED <<zero_remaining, last_zero_ok, request, returned, capture>>
  BY DEF Serve, SendFrame, Break, NoteDown, Connect, SendStart, ReceiveFails, sessionVars,
         requestVars, historyVars
<1>2. \/ UNCHANGED <<io, since>>
      \/ io' # "receive" /\ since' \in {0, since}
  BY DEF Serve, SendFrame, Break, NoteDown, Connect, SendStart, ReceiveFails, historyVars
<1> QED
  BY <1>1, <1>2, DriverAssumption
     DEF ZeroInv, CountInv, VerdictInv, CaptureIsOfOneConnection, VerdictIsOwn

LEMMA StartKeepsInv ==
  ASSUME ZeroInv, StartZero
  PROVE  ZeroInv'
<1>1. /\ request' = "polling" /\ returned' = None /\ zero_remaining' = ZeroSamples
      /\ since' = 0 /\ capture' = None /\ UNCHANGED <<io, last_zero_ok>>
  BY DEF StartZero
<1> QED
  BY <1>1, DriverAssumption
     DEF ZeroInv, CountInv, VerdictInv, CaptureIsOfOneConnection, VerdictIsOwn

(* The request returns the verdict that it finds, or a failure.             *)
LEMMA ReturnKeepsInv ==
  ASSUME ZeroInv, PollZero \/ LateZero
  PROVE  ZeroInv'
<1>1. /\ request # "idle" /\ request' = "idle" /\ zero_remaining' = 0
      /\ returned' = IF zero_remaining = 0 /\ last_zero_ok THEN "success" ELSE "failure"
      /\ UNCHANGED <<io, last_zero_ok, since, capture>>
  BY DEF PollZero, LateZero, Return, historyVars
<1>2. zero_remaining = 0 => (last_zero_ok <=> capture = "taken")
  BY <1>1 DEF ZeroInv, VerdictInv
<1>3. zero_remaining # 0 => capture # "taken"
  <2> SUFFICES ASSUME zero_remaining # 0
               PROVE  capture # "taken"
    OBVIOUS
  <2>1. zero_remaining > 0
    BY DriverAssumption DEF ZeroInv, CountInv
  <2>2. capture # "taken"
    BY <1>1, <2>1, NoneIsNoFate DEF ZeroInv, VerdictInv
  <2> QED
    BY <2>2
<1>4. (zero_remaining = 0 /\ last_zero_ok) <=> capture = "taken"
  BY <1>2, <1>3, Zenon
<1>5. CountInv'
  BY <1>1, DriverAssumption DEF ZeroInv, CountInv, CaptureIsOfOneConnection
<1>6. VerdictIsOwn'
  BY <1>1, <1>4 DEF VerdictIsOwn
<1> QED
  BY <1>1, <1>5, <1>6 DEF ZeroInv, VerdictInv

LEMMA QuietKeepsInv ==
  ASSUME ZeroInv, ZeroDeadline \/ SetFilterCutoff \/ UNCHANGED vars
  PROVE  ZeroInv'
<1>1. UNCHANGED <<io, zero_remaining, last_zero_ok, returned, since, capture>>
  BY DEF ZeroDeadline, SetFilterCutoff, vars, sessionVars, requestVars, historyVars
<1>2. request' = request \/ (request # "idle" /\ request' = "late")
  BY DEF ZeroDeadline, SetFilterCutoff, vars, requestVars
<1>3. CountInv'
  BY <1>1 DEF ZeroInv, CountInv, CaptureIsOfOneConnection
<1>4. VerdictInv'
  BY <1>1, <1>2 DEF ZeroInv, VerdictInv, VerdictIsOwn
<1> QED
  BY <1>3, <1>4 DEF ZeroInv, CountInv, VerdictInv, CaptureIsOfOneConnection, VerdictIsOwn

-----------------------------------------------------------------------------
(* The invariant holds in every reachable state.                            *)
THEOREM ZeroInvariant == Spec => []ZeroInv
<1>1. Init => ZeroInv
  <2> SUFFICES ASSUME Init
               PROVE  ZeroInv
    OBVIOUS
  <2>1. CountInv
    BY DriverAssumption DEF Init, CountInv, CaptureIsOfOneConnection
  <2>2. last_zero_ok \in BOOLEAN
    BY Zenon DEF Init
  <2>3. ~(zero_remaining > 0)
    BY DEF Init
  <2>4. request = "idle" /\ returned = None
    BY DEF Init
  <2> QED
    BY <2>1, <2>2, <2>3, <2>4 DEF ZeroInv, VerdictInv, VerdictIsOwn
<1>2. ZeroInv /\ [Next]_vars => ZeroInv'
  <2> SUFFICES ASSUME ZeroInv, [Next]_vars
               PROVE  ZeroInv'
    OBVIOUS
  <2>1. CASE Serve \/ SendFrame \/ Break \/ NoteDown \/ Connect \/ SendStart \/ ReceiveFails
    BY <2>1, LinkKeepsInv
  <2>2. CASE ResetSession
    BY <2>2, ResetKeepsInv
  <2>3. CASE Feed
    BY <2>3, FeedKeepsInv
  <2>4. CASE StartZero
    BY <2>4, StartKeepsInv
  <2>5. CASE PollZero \/ LateZero
    BY <2>5, ReturnKeepsInv
  <2>6. CASE ZeroDeadline \/ SetFilterCutoff \/ UNCHANGED vars
    BY <2>6, QuietKeepsInv
  <2> QED
    BY <2>1, <2>2, <2>3, <2>4, <2>5, <2>6 DEF Next, Sensor, Receiver, Spinner
<1> QED
  BY <1>1, <1>2, PTL DEF Spec

(* Every request returns the verdict of its own capture                     *)
(* (sri_driver_runtime.cpp, requestZero()).                                 *)
THEOREM VerdictAlwaysOwn == Spec => []VerdictIsOwn
<1>1. ZeroInv => VerdictIsOwn
  BY DEF ZeroInv, VerdictInv
<1> QED
  BY <1>1, ZeroInvariant, PTL

(* Every capture averages samples of one connection                         *)
(* (sri_stream_session.cpp, reset() and startZero()).                       *)
THEOREM CaptureAlwaysOfOneConnection == Spec => []CaptureIsOfOneConnection
<1>1. ZeroInv => CaptureIsOfOneConnection
  BY DEF ZeroInv, CountInv
<1> QED
  BY <1>1, ZeroInvariant, PTL

-----------------------------------------------------------------------------
(* The filter.                                                              *)

LEMMA FilterStep ==
  ASSUME FilterNotSmeared, [Next]_vars
  PROVE  FilterNotSmeared'
<1> USE DEF FilterNotSmeared
<1>1. CASE Feed
  <2>1. io = "receive" /\ UNCHANGED <<io, connection>>
    BY <1>1 DEF Feed
  <2>2. CASE TakeSample
    <3>1. bias' = bias \/ (zero_remaining = 1 /\ last_zero_ok' = TRUE)
      BY <2>2 DEF TakeSample, AccumulateZero, FinishZero
    <3>2. filter' = IF filter = None \/ (zero_remaining = 1 /\ last_zero_ok')
                    THEN <<bias', connection>> ELSE filter
      BY <2>2 DEF TakeSample, FilterSample
    <3> QED
      BY <2>1, <3>1, <3>2
  <2>3. CASE UNCHANGED <<bias, filter>>
    BY <2>1, <2>3
  <2> QED
    BY <1>1, <2>2, <2>3 DEF Feed
<1>2. CASE ResetSession \/ SetFilterCutoff
  <2>1. filter' = None
    BY <1>2 DEF ResetSession, SessionReset, SetFilterCutoff
  <2> QED
    BY <2>1
<1>3. CASE Connect
  BY <1>3 DEF Connect
<1>4. CASE Sensor \/ NoteDown \/ SendStart \/ ReceiveFails
  BY <1>4 DEF Sensor, Serve, SendFrame, Break, NoteDown, SendStart, ReceiveFails, sessionVars,
              historyVars
<1>5. CASE StartZero \/ PollZero \/ ZeroDeadline \/ LateZero \/ UNCHANGED vars
  BY <1>5 DEF StartZero, PollZero, ZeroDeadline, LateZero, Return, vars, sessionVars, historyVars
<1> QED
  BY <1>1, <1>2, <1>3, <1>4, <1>5 DEF Next, Receiver, Spinner

(* The filter holds samples of the present bias and the present connection  *)
(* only (sri_stream_session.cpp, reset() and finishZeroCapture()).          *)
THEOREM FilterNeverSmeared == Spec => []FilterNotSmeared
<1>1. Init => FilterNotSmeared
  BY DEF Init, FilterNotSmeared
<1> QED
  BY <1>1, FilterStep, PTL DEF Spec

-----------------------------------------------------------------------------
(* The bytes.                                                               *)

Bytes == {Frame(p, h)[i] : p \in Payloads, h \in Hits \cup {0}, i \in 1 .. FrameLen}
           \cup {Ack[1]}

LEMMA HeaderLength == FrameLen = PayloadLen + 4 /\ PayloadLen \in Nat \ {0} /\ FrameLen \in Nat
BY FrameAssumption DEF FrameLen, Header

LEMMA HeaderBytes ==
  ASSUME NEW p \in Payloads
  PROVE  /\ (Header \o p)[1] = "AA" /\ (Header \o p)[2] = "55"
         /\ (Header \o p)[3] = "00" /\ (Header \o p)[4] = "1B"
<1> DEFINE S == STRING \cup {"AA", "55", "00", "1B"}
<1>1. Header \in Seq(S) /\ Len(Header) = 4
  BY DEF Header
<1>2. p \in Seq(S) /\ Len(p) \in Nat
  BY FrameAssumption, SeqMonotonic, LenProperties
<1>3. \A i \in 1 .. Len(Header) + Len(p) :
        (Header \o p)[i] = IF i <= Len(Header) THEN Header[i] ELSE p[i - Len(Header)]
  BY <1>1, <1>2, ConcatProperties
<1> QED
  BY <1>1, <1>2, <1>3 DEF Header

(* What a byte is tells where it stood.                                     *)
ByteFact(b) ==
  /\ b.place \in 0 .. FrameLen
  /\ b.intact \in BOOLEAN
  /\ b.place = 0 => ~b.intact /\ b.v = "xx"
  /\ b.place = 1 => b.v \in {"AA", "xx"} /\ (b.intact => b.v = "AA")
  /\ b.place = 2 => b.v \in {"55", "xx"} /\ (b.intact => b.v = "55")
  /\ b.place = 3 => b.v \in {"00", "xx"} /\ (b.intact => b.v = "00")
  /\ b.place = 4 => b.v \in {"1B", "xx"} /\ (b.intact => b.v = "1B")

LEMMA ByteFacts ==
  ASSUME NEW b \in Bytes
  PROVE  ByteFact(b)
<1>1. CASE b = Ack[1]
  <2>1. b = [v |-> "xx", place |-> 0, intact |-> FALSE]
    BY <1>1 DEF Ack
  <2>2. b.v = "xx" /\ b.place = 0
    BY <2>1
  <2>3. b.intact \in BOOLEAN /\ ~b.intact
    <3>1. b.intact = FALSE
      BY <2>1
    <3> QED
      BY <3>1, Zenon
  <2> QED
    BY <2>2, <2>3, HeaderLength DEF ByteFact
<1>2. ASSUME NEW p \in Payloads, NEW h \in Hits \cup {0}, NEW i \in 1 .. FrameLen,
             b = Frame(p, h)[i]
      PROVE  ByteFact(b)
  <2>1. /\ b.place = i
        /\ b.intact \in BOOLEAN /\ (b.intact => h = 0)
        /\ b.v = IF i = h THEN "xx" ELSE (Header \o p)[i]
    <3>1. b = [v |-> IF i = h THEN "xx" ELSE (Header \o p)[i], place |-> i, intact |-> h = 0]
      BY <1>2 DEF Frame
    <3>2. b.place = i /\ b.v = IF i = h THEN "xx" ELSE (Header \o p)[i]
      BY <3>1
    <3>3. b.intact = (h = 0)
      BY <3>1
    <3>4. b.intact \in BOOLEAN /\ (b.intact => h = 0)
      BY <3>3, Zenon
    <3> QED
      BY <3>2, <3>4
  <2>2. b.intact => i # h
    BY <2>1, HeaderLength
  <2>3. b.place = 1 => b.v \in {"AA", "xx"} /\ (b.intact => b.v = "AA")
    BY <2>1, <2>2, HeaderBytes
  <2>4. b.place = 2 => b.v \in {"55", "xx"} /\ (b.intact => b.v = "55")
    BY <2>1, <2>2, HeaderBytes
  <2>5. b.place = 3 => b.v \in {"00", "xx"} /\ (b.intact => b.v = "00")
    BY <2>1, <2>2, HeaderBytes
  <2>6. b.place = 4 => b.v \in {"1B", "xx"} /\ (b.intact => b.v = "1B")
    BY <2>1, <2>2, HeaderBytes
  <2>7. b.place \in 0 .. FrameLen /\ b.place # 0
    BY <2>1, HeaderLength
  <2> QED
    BY <2>1, <2>3, <2>4, <2>5, <2>6, <2>7 DEF ByteFact
<1> QED
  BY <1>1, <1>2 DEF Bytes

-----------------------------------------------------------------------------
(* The assembler.                                                           *)

AssemblerType ==
  [state : AssemblerStates, fill : 0 .. PayloadLen - 1, high : BOOLEAN, whole : 0 .. FrameLen]

LEMMA WholeType ==
  ASSUME NEW a \in AssemblerType, NEW b, ByteFact(b)
  PROVE  Whole(a, b) \in 0 .. FrameLen
BY HeaderLength DEF Whole, ByteFact

LEMMA EnterType ==
  ASSUME NEW a \in AssemblerType, NEW b, ByteFact(b), NEW s \in AssemblerStates
  PROVE  /\ Enter(a, b, s) \in AssemblerType
         /\ Enter(a, b, s).state = s /\ Enter(a, b, s).fill = 0
         /\ Enter(a, b, s).whole = Whole(a, b)
BY WholeType, HeaderLength DEF Enter, AssemblerType

(* One byte, state by state.                                                *)
LEMMA FedCases ==
  ASSUME NEW a \in AssemblerType, NEW b, ByteFact(b)
  PROVE  /\ Fed(a, b) \in AssemblerType
         /\ Fed(a, b).whole = Whole(a, b)
         /\ a.state = "SYNC1" => Fed(a, b).state = IF b.v = "AA" THEN "SYNC2" ELSE "SYNC1"
         /\ a.state = "SYNC2" => Fed(a, b).state = AfterSync1(b.v)
         /\ a.state = "LEN_HIGH" =>
              Fed(a, b).state = "LEN_LOW" /\ (b.v = "00" => Fed(a, b).high)
         /\ a.state = "LEN_LOW" /\ a.high /\ b.v = "1B" =>
              Fed(a, b).state = "PAYLOAD" /\ Fed(a, b).fill = 0
         /\ a.state = "LEN_LOW" =>
              Fed(a, b).state = "SYNC1" \/ (Fed(a, b).state = "PAYLOAD" /\ Fed(a, b).fill = 0)
         /\ a.state = "PAYLOAD" /\ Completes(a) => Fed(a, b).state = "SYNC1"
         /\ a.state = "PAYLOAD" /\ ~Completes(a) =>
              Fed(a, b).state = "PAYLOAD" /\ Fed(a, b).fill = a.fill + 1
<1>1. a.state \in AssemblerStates /\ a.fill \in 0 .. PayloadLen - 1
  BY DEF AssemblerType
<1>2. CASE a.state = "SYNC1"
  <2> DEFINE s == IF b.v = "AA" THEN "SYNC2" ELSE "SYNC1"
  <2>1. Fed(a, b) = Enter(a, b, s) /\ s \in AssemblerStates
    BY <1>2 DEF Fed, AssemblerStates
  <2>2. Fed(a, b) \in AssemblerType /\ Fed(a, b).state = s /\ Fed(a, b).whole = Whole(a, b)
    BY <2>1, EnterType
  <2> QED
    BY <1>2, <2>2
<1>3. CASE a.state = "SYNC2"
  <2>1. Fed(a, b) = Enter(a, b, AfterSync1(b.v)) /\ AfterSync1(b.v) \in AssemblerStates
    BY <1>3 DEF Fed, AssemblerStates, AfterSync1
  <2>2. /\ Fed(a, b) \in AssemblerType /\ Fed(a, b).state = AfterSync1(b.v)
        /\ Fed(a, b).whole = Whole(a, b)
    BY <2>1, EnterType
  <2> QED
    BY <1>3, <2>2
<1>4. CASE a.state = "LEN_HIGH"
  <2>1. Fed(a, b) = [state |-> "LEN_LOW", fill |-> 0, high |-> b.v = "00", whole |-> Whole(a, b)]
    BY <1>4 DEF Fed, Enter
  <2>2. Fed(a, b) \in AssemblerType
    BY <2>1, WholeType, HeaderLength DEF AssemblerType, AssemblerStates
  <2>3. b.v = "00" => Fed(a, b).high
    <3>1. Fed(a, b).high = (b.v = "00")
      BY <2>1
    <3> QED
      BY <3>1, Zenon
  <2> QED
    BY <1>4, <2>1, <2>2, <2>3
<1>5. CASE a.state = "LEN_LOW"
  <2> DEFINE s == IF a.high /\ b.v = "1B" THEN "PAYLOAD" ELSE "SYNC1"
  <2>1. Fed(a, b) = Enter(a, b, s) /\ s \in AssemblerStates
    BY <1>5 DEF Fed, AssemblerStates
  <2>2. /\ Fed(a, b) \in AssemblerType /\ Fed(a, b).state = s /\ Fed(a, b).fill = 0
        /\ Fed(a, b).whole = Whole(a, b)
    BY <2>1, EnterType
  <2> QED
    BY <1>5, <2>2
<1>6. CASE a.state = "PAYLOAD" /\ Completes(a)
  <2>1. Fed(a, b) = Enter(a, b, "SYNC1")
    BY <1>6 DEF Fed
  <2> QED
    BY <1>6, <2>1, EnterType DEF AssemblerStates
<1>7. CASE a.state = "PAYLOAD" /\ ~Completes(a)
  <2>1. Fed(a, b) = [state |-> "PAYLOAD", fill |-> a.fill + 1, high |-> FALSE,
                     whole |-> Whole(a, b)]
    BY <1>7 DEF Fed, Enter
  <2>2. a.fill + 1 \in 0 .. PayloadLen - 1
    BY <1>1, <1>7, HeaderLength DEF Completes
  <2>3. Fed(a, b) \in AssemblerType
    BY <2>1, <2>2, WholeType DEF AssemblerType, AssemblerStates
  <2> QED
    BY <1>7, <2>1, <2>3
<1> QED
  BY <1>1, <1>2, <1>3, <1>4, <1>5, <1>6, <1>7 DEF AssemblerStates

(* Between two frames, as far as the assembler can tell.                    *)
Boundary(a) == a.state \in {"SYNC1", "SYNC2"}

(* The assembler has followed an intact frame up to the byte before place k.*)
InFrame(a, k) ==
  /\ a.whole = k - 1
  /\ k = 2 => a.state = "SYNC2"
  /\ k = 3 => a.state = "LEN_HIGH"
  /\ k = 4 => a.state = "LEN_LOW" /\ a.high
  /\ k >= 5 => a.state = "PAYLOAD" /\ a.fill = k - 5

(* The assembler is where the frame of the next byte is, or hunts; in an    *)
(* intact frame it does not hunt.                                           *)
Aligned(a, b) ==
  /\ b.intact /\ b.place > 1 => InFrame(a, b.place)
  /\ b.place \in {0, 1, 2} => Boundary(a)
  /\ b.place = 3 => a.state \in {"SYNC1", "LEN_HIGH"}
  /\ b.place = 4 => a.state \in {"SYNC1", "LEN_LOW"}
  /\ b.place >= 5 => Boundary(a) \/ (a.state = "PAYLOAD" /\ a.fill = b.place - 5)

LEMMA AlignedNext ==
  ASSUME NEW a \in AssemblerType, NEW b, ByteFact(b), NEW c, ByteFact(c),
         Aligned(a, b), ~FalseHeader(a, b),
         b.place # 0, c.place = b.place + 1, c.intact = b.intact
  PROVE  Aligned(Fed(a, b), c)
<1> DEFINE f == Fed(a, b)
<1>1. b.place \in 1 .. FrameLen /\ c.place \in 2 .. FrameLen
  BY HeaderLength DEF ByteFact
<1>2. /\ a.state = "SYNC1" => f.state = IF b.v = "AA" THEN "SYNC2" ELSE "SYNC1"
      /\ a.state = "SYNC2" => f.state = AfterSync1(b.v)
      /\ a.state = "LEN_HIGH" => f.state = "LEN_LOW" /\ (b.v = "00" => f.high)
      /\ a.state = "LEN_LOW" /\ a.high /\ b.v = "1B" => f.state = "PAYLOAD" /\ f.fill = 0
      /\ a.state = "LEN_LOW" => f.state = "SYNC1" \/ (f.state = "PAYLOAD" /\ f.fill = 0)
      /\ a.state = "PAYLOAD" /\ Completes(a) => f.state = "SYNC1"
      /\ a.state = "PAYLOAD" /\ ~Completes(a) => f.state = "PAYLOAD" /\ f.fill = a.fill + 1
      /\ f.whole = Whole(a, b)
  BY FedCases
<1>3. f.state = "LEN_HIGH" => b.place = 2
  BY DEF FalseHeader
<1> HIDE DEF f
<1>4. b.intact => f.whole = b.place
  BY <1>1, <1>2 DEF Whole, Aligned, InFrame
<1>5. CASE b.place = 1
  <2>1. b.v \in {"AA", "xx"} /\ (b.intact => b.v = "AA")
    BY <1>5 DEF ByteFact
  <2>2. f.state \in {"SYNC1", "SYNC2"} /\ (b.intact => f.state = "SYNC2")
    BY <1>2, <1>5, <2>1 DEF Aligned, Boundary, AfterSync1
  <2> QED
    BY <1>1, <1>4, <1>5, <2>2 DEF f, Aligned, Boundary, InFrame
<1>6. CASE b.place = 2
  <2>1. b.v \in {"55", "xx"} /\ (b.intact => b.v = "55")
    BY <1>6 DEF ByteFact
  <2>2. b.intact => a.state = "SYNC2"
    BY <1>6 DEF Aligned, InFrame
  <2>3. f.state \in {"SYNC1", "LEN_HIGH"} /\ (b.intact => f.state = "LEN_HIGH")
    BY <1>2, <1>6, <2>1, <2>2 DEF Aligned, Boundary, AfterSync1
  <2> QED
    BY <1>1, <1>4, <1>6, <2>3 DEF f, Aligned, Boundary, InFrame
<1>7. CASE b.place = 3
  <2>1. b.v \in {"00", "xx"} /\ (b.intact => b.v = "00")
    BY <1>7 DEF ByteFact
  <2>2. b.intact => a.state = "LEN_HIGH"
    BY <1>7 DEF Aligned, InFrame
  <2>3. f.state \in {"SYNC1", "LEN_LOW"}
    BY <1>2, <1>7, <2>1 DEF Aligned
  <2>4. b.intact => f.state = "LEN_LOW" /\ f.high
    BY <1>2, <2>1, <2>2
  <2> QED
    BY <1>1, <1>4, <1>7, <2>3, <2>4 DEF f, Aligned, Boundary, InFrame
<1>8. CASE b.place = 4
  <2>1. b.v \in {"1B", "xx"} /\ (b.intact => b.v = "1B")
    BY <1>8 DEF ByteFact
  <2>2. b.intact => a.state = "LEN_LOW" /\ a.high
    BY <1>8 DEF Aligned, InFrame
  <2>3. f.state = "SYNC1" \/ (f.state = "PAYLOAD" /\ f.fill = 0)
    BY <1>2, <1>8, <2>1 DEF Aligned
  <2>4. b.intact => f.state = "PAYLOAD" /\ f.fill = 0
    BY <1>2, <2>1, <2>2
  <2> QED
    BY <1>1, <1>4, <1>8, <2>3, <2>4 DEF f, Aligned, Boundary, InFrame
<1>9. CASE b.place >= 5
  <2>1. b.intact => a.state = "PAYLOAD" /\ a.fill = b.place - 5
    BY <1>1, <1>9 DEF Aligned, InFrame
  <2>2. a.state = "PAYLOAD" /\ a.fill = b.place - 5 => ~Completes(a)
    BY <1>1, <1>9, HeaderLength DEF Completes
  <2>3. \/ f.state \in {"SYNC1", "SYNC2", "LEN_HIGH"}
        \/ f.state = "PAYLOAD" /\ f.fill = c.place - 5
    BY <1>1, <1>2, <1>9, <2>2 DEF Aligned, Boundary, AfterSync1
  <2>4. f.state # "LEN_HIGH"
    BY <1>3, <1>9
  <2>5. b.intact => f.state = "PAYLOAD" /\ f.fill = c.place - 5
    BY <1>1, <1>2, <1>9, <2>1, <2>2
  <2> QED
    BY <1>1, <1>4, <1>9, <2>3, <2>4, <2>5 DEF f, Aligned, Boundary, InFrame
<1> QED
  BY <1>1, <1>5, <1>6, <1>7, <1>8, <1>9 DEF f

LEMMA BoundaryNext ==
  ASSUME NEW a \in AssemblerType, NEW b, ByteFact(b), Aligned(a, b), ~FalseHeader(a, b),
         b.place \in {0, FrameLen}
  PROVE  Boundary(Fed(a, b))
<1>1. CASE b.place = 0
  BY <1>1, FedCases DEF ByteFact, Aligned, Boundary, AfterSync1
<1>2. CASE b.place = FrameLen
  <2>1. b.place >= 5 /\ (a.state = "PAYLOAD" /\ a.fill = b.place - 5 => Completes(a))
    BY <1>2, HeaderLength DEF Completes
  <2>2. a.state \in {"SYNC1", "SYNC2"} \/ (a.state = "PAYLOAD" /\ Completes(a))
    BY <2>1 DEF Aligned, Boundary
  <2>3. Fed(a, b).state # "LEN_HIGH"
    BY <2>1 DEF FalseHeader
  <2>4. Fed(a, b).state \in {"SYNC1", "SYNC2", "LEN_HIGH"}
    BY <2>2, FedCases DEF AfterSync1
  <2> QED
    BY <2>3, <2>4 DEF Boundary
<1> QED
  BY <1>1, <1>2

(* A frame ends the bytes of the connection that have been sent so far.     *)
LEMMA FrameEnds ==
  ASSUME NEW a \in AssemblerType, NEW b, ByteFact(b), IsFrame(a, b)
  PROVE  b.place = FrameLen /\ Boundary(Fed(a, b))
<1>1. b.place = FrameLen
  BY HeaderLength DEF IsFrame, Whole
<1>2. Fed(a, b).state = "SYNC1"
  BY FedCases DEF IsFrame, Completes
<1> QED
  BY <1>1, <1>2 DEF Boundary

(* The last byte of an intact frame, with the assembler in step, is decoded.*)
LEMMA AlignedDecodes ==
  ASSUME NEW a \in AssemblerType, NEW b, Aligned(a, b), b.intact, b.place = FrameLen
  PROVE  IsFrame(a, b)
BY HeaderLength DEF Aligned, InFrame, IsFrame, Completes, Whole

-----------------------------------------------------------------------------
(* The connection.                                                          *)

LinkType ==
  /\ sensor \in {"absent", "accepted", "streaming"}
  /\ io \in {"down", "connect", "send", "reset", "receive"}
  /\ assembler \in AssemblerType

(* What is on its way are consecutive bytes of one frame, up to its end     *)
(* unless the connection broke, or an answer.                               *)
PipeInv ==
  /\ pipe \in Seq(Bytes) /\ Len(pipe) <= FrameLen
  /\ \A i \in 1 .. Len(pipe) - 1 :
       pipe[i].place # 0 /\ pipe[i + 1].place = pipe[i].place + 1
         /\ pipe[i + 1].intact = pipe[i].intact
  /\ pipe # <<>> /\ sensor # "absent" => pipe[Len(pipe)].place \in {0, FrameLen}

(* The sensor streams only after the start command, and the session is      *)
(* reset before the first byte of a frame arrives.                          *)
OrderInv ==
  /\ order => sensor = "accepted" /\ io \in {"reset", "receive"}
  /\ sensor = "accepted" => pipe = <<>>
  /\ io = "send" => pipe = <<>> /\ sensor # "streaming"
  /\ io = "reset" => \A i \in 1 .. Len(pipe) : pipe[i].place = 0
  /\ io = "reset" /\ sensor = "streaming" => pipe # <<>>
  /\ io \in {"down", "connect"} => sensor = "absent"

(* The assembler is in step with the stream.                                *)
SyncInv ==
  io = "receive" /\ ~misled =>
    /\ pipe # <<>> => Aligned(assembler, pipe[1])
    /\ pipe = <<>> /\ sensor # "absent" => Boundary(assembler)

StreamInv == LinkType /\ PipeInv /\ OrderInv /\ SyncInv

LEMMA AckBytes ==
  /\ Ack \in Seq(Bytes) /\ Len(Ack) = 1 /\ Ack # <<>>
  /\ Ack[1].place = 0 /\ ~Ack[1].intact
BY DEF Ack, Bytes

LEMMA FrameBytes ==
  ASSUME NEW f \in Frames
  PROVE  /\ f \in Seq(Bytes) /\ Len(f) = FrameLen /\ f # <<>>
         /\ \A i \in 1 .. FrameLen : f[i].place = i /\ f[i].intact = f[1].intact
<1>1. PICK p \in Payloads, h \in Hits \cup {0} : f = Frame(p, h)
  BY DEF Frames
<1>2. \A i \in 1 .. FrameLen : f[i].place = i /\ f[i].intact = (h = 0)
  BY <1>1 DEF Frame
<1>3. \A i \in 1 .. FrameLen : f[i] \in Bytes
  BY <1>1 DEF Bytes
<1>4. DOMAIN f = 1 .. FrameLen /\ f = [i \in 1 .. FrameLen |-> f[i]]
  BY <1>1 DEF Frame
<1>5. f \in Seq(Bytes) /\ Len(f) = FrameLen
  BY <1>3, <1>4, HeaderLength, IsASeq
<1>6. 1 \in 1 .. FrameLen
  BY HeaderLength
<1>7. f # <<>>
  BY <1>5, HeaderLength
<1> QED
  BY <1>2, <1>5, <1>6, <1>7

LEMMA PipeBytes ==
  ASSUME PipeInv, pipe # <<>>
  PROVE  /\ Len(pipe) \in 1 .. FrameLen
         /\ \A i \in 1 .. Len(pipe) : pipe[i] \in Bytes /\ ByteFact(pipe[i])
<1>1. Len(pipe) \in 1 .. FrameLen
  BY EmptySeq, HeaderLength DEF PipeInv
<1>2. \A i \in 1 .. Len(pipe) : pipe[i] \in Bytes
  BY LenProperties DEF PipeInv
<1> QED
  BY <1>1, <1>2, ByteFacts

(* The answer to the start command.                                         *)
LEMMA ServeStep ==
  ASSUME StreamInv, Serve
  PROVE  StreamInv'
<1>1. /\ sensor = "accepted" /\ sensor' = "streaming" /\ order' = FALSE /\ pipe = <<>>
      /\ io \in {"reset", "receive"} /\ UNCHANGED <<io, assembler, misled>>
  BY DEF Serve, StreamInv, OrderInv, sessionVars, historyVars
<1>2. pipe' = Ack
  BY <1>1, AckBytes, ConcatEmptySeq DEF Serve
<1>3. LinkType'
  BY <1>1 DEF StreamInv, LinkType
<1>4. PipeInv'
  BY <1>1, <1>2, AckBytes, HeaderLength DEF PipeInv
<1>5. OrderInv'
  BY <1>1, <1>2, AckBytes DEF OrderInv
<1>6. SyncInv'
  <2>1. io = "receive" /\ ~misled => Boundary(assembler)
    BY <1>1 DEF StreamInv, SyncInv
  <2>2. Boundary(assembler) => Aligned(assembler, Ack[1])
    BY AckBytes DEF Aligned, Boundary
  <2> QED
    BY <1>1, <1>2, <2>1, <2>2, AckBytes DEF SyncInv
<1> QED
  BY <1>3, <1>4, <1>5, <1>6 DEF StreamInv

(* A frame starts when the assembler is between two of them.                *)
LEMMA SendFrameStep ==
  ASSUME StreamInv, SendFrame
  PROVE  StreamInv'
<1>1. /\ sensor = "streaming" /\ pipe = <<>> /\ pipe' \in Frames
      /\ UNCHANGED <<sensor, order, io, assembler, misled>>
  BY DEF SendFrame, sessionVars, historyVars
<1>2. /\ pipe' \in Seq(Bytes) /\ Len(pipe') = FrameLen /\ pipe' # <<>>
      /\ \A i \in 1 .. FrameLen : pipe'[i].place = i /\ pipe'[i].intact = pipe'[1].intact
  BY <1>1, FrameBytes
<1>3. io = "receive"
  BY <1>1 DEF StreamInv, LinkType, OrderInv
<1>4. LinkType'
  BY <1>1 DEF StreamInv, LinkType
<1>5. PipeInv'
  BY <1>2, HeaderLength DEF PipeInv
<1>6. OrderInv'
  BY <1>1, <1>3 DEF StreamInv, OrderInv
<1>7. SyncInv'
  <2>1. pipe'[1].place = 1
    BY <1>2, HeaderLength
  <2>2. Boundary(assembler) => Aligned(assembler, pipe'[1])
    BY <2>1 DEF Aligned, Boundary
  <2>3. ~misled => Boundary(assembler)
    BY <1>1, <1>3 DEF StreamInv, SyncInv
  <2> QED
    BY <1>1, <1>2, <2>2, <2>3 DEF SyncInv
<1> QED
  BY <1>4, <1>5, <1>6, <1>7 DEF StreamInv

(* A break leaves the first bytes of what was on its way.                   *)
LEMMA BreakStep ==
  ASSUME StreamInv, Break
  PROVE  StreamInv'
<1>1. /\ sensor' = "absent" /\ order' = FALSE /\ UNCHANGED <<io, assembler, misled>>
  BY DEF Break, sessionVars, historyVars
<1>2. PICK n \in 0 .. Len(pipe) : pipe' = SubSeq(pipe, 1, n)
  BY DEF Break
<1>3. Len(pipe) \in Nat /\ \A i \in 1 .. Len(pipe) : pipe[i] \in Bytes
  BY LenProperties DEF StreamInv, PipeInv
<1>4. /\ pipe' \in Seq(Bytes) /\ Len(pipe') = n
      /\ \A i \in 1 .. n : pipe'[i] = pipe[i]
  <2>1. \A i \in 1 .. n : pipe[i] \in Bytes
    BY <1>2, <1>3
  <2>2. /\ SubSeq(pipe, 1, n) \in Seq(Bytes)
        /\ Len(SubSeq(pipe, 1, n)) = IF 1 <= n THEN n - 1 + 1 ELSE 0
        /\ \A i \in 1 .. n - 1 + 1 : SubSeq(pipe, 1, n)[i] = pipe[1 + i - 1]
    BY <1>2, <1>3, <2>1, SubSeqProperties
  <2> QED
    BY <1>2, <1>3, <2>2
<1>5. pipe' # <<>> => n \in 1 .. Len(pipe) /\ pipe # <<>> /\ pipe'[1] = pipe[1]
  <2>1. pipe' # <<>> => n \in 1 .. Len(pipe)
    BY <1>2, <1>3, <1>4, EmptySeq
  <2>2. n \in 1 .. Len(pipe) => pipe # <<>>
    BY <1>3, EmptySeq
  <2> QED
    BY <1>4, <2>1, <2>2
<1>6. LinkType'
  BY <1>1 DEF StreamInv, LinkType
<1>7. PipeInv'
  BY <1>1, <1>2, <1>3, <1>4, HeaderLength DEF StreamInv, PipeInv
<1>8. OrderInv'
  <2>1. io = "send" => pipe = <<>>
    BY DEF StreamInv, OrderInv
  <2>2. io' = "reset" => \A i \in 1 .. Len(pipe') : pipe'[i].place = 0
    BY <1>1, <1>2, <1>3, <1>4 DEF StreamInv, OrderInv
  <2> QED
    BY <1>1, <1>5, <2>1, <2>2 DEF OrderInv
<1>9. SyncInv'
  BY <1>1, <1>5 DEF StreamInv, SyncInv
<1> QED
  BY <1>6, <1>7, <1>8, <1>9 DEF StreamInv

(* The receiving thread around the stream.                                  *)
LEMMA ReceiverStep ==
  ASSUME StreamInv, NoteDown \/ Connect \/ SendStart \/ ReceiveFails
  PROVE  StreamInv'
<1>1. UNCHANGED <<assembler, misled>> /\ io' # "receive"
  BY DEF NoteDown, Connect, SendStart, ReceiveFails, sessionVars, historyVars
<1>2. SyncInv'
  BY <1>1 DEF SyncInv
<1>3. CASE NoteDown \/ ReceiveFails
  <2>1. sensor = "absent" /\ io' \in {"down", "connect"} /\ UNCHANGED <<sensor, order, pipe>>
    BY <1>3 DEF NoteDown, ReceiveFails, sensorVars, StreamInv, OrderInv
  <2> QED
    BY <1>1, <1>2, <2>1 DEF StreamInv, LinkType, PipeInv, OrderInv
<1>4. CASE Connect
  <2>1. /\ sensor = "absent" /\ ~order
        /\ io' = "send" /\ sensor' = "accepted" /\ pipe' = <<>> /\ order' = order
    BY <1>4 DEF Connect, StreamInv, OrderInv
  <2>2. pipe' \in Seq(Bytes) /\ Len(pipe') = 0
    BY <2>1, EmptySeq
  <2>3. PipeInv'
    BY <2>1, <2>2, HeaderLength DEF PipeInv
  <2>4. OrderInv'
    BY <2>1 DEF OrderInv
  <2> QED
    BY <1>1, <1>2, <2>1, <2>3, <2>4 DEF StreamInv, LinkType
<1>5. CASE SendStart
  <2>1. /\ sensor \in {"absent", "accepted"} /\ pipe = <<>> /\ io' = "reset"
        /\ UNCHANGED <<sensor, pipe>>
    BY <1>5 DEF SendStart, StreamInv, OrderInv, LinkType
  <2>2. order' => sensor = "accepted"
    <3>1. order' = (sensor # "absent")
      BY <1>5 DEF SendStart
    <3>2. order' => sensor # "absent"
      BY <3>1, Zenon
    <3> QED
      BY <2>1, <3>2
  <2>3. OrderInv'
    <3>1. Len(pipe) = 0
      BY <2>1, EmptySeq
    <3> QED
      BY <2>1, <2>2, <3>1 DEF OrderInv
  <2> QED
    BY <1>1, <1>2, <2>1, <2>3 DEF StreamInv, LinkType, PipeInv
<1> QED
  BY <1>3, <1>4, <1>5

(* The session starts hunting before the first byte of a frame.             *)
LEMMA ResetStep ==
  ASSUME StreamInv, ResetSession
  PROVE  StreamInv'
<1>1. /\ io = "reset" /\ io' = "receive" /\ assembler' = Hunting /\ misled' = FALSE
      /\ UNCHANGED <<sensor, order, pipe>>
  BY DEF ResetSession, SessionReset, sensorVars
<1>2. Hunting \in AssemblerType /\ Boundary(Hunting)
  BY HeaderLength DEF Hunting, AssemblerType, AssemblerStates, Boundary
<1>3. pipe # <<>> => Aligned(Hunting, pipe[1])
  <2> SUFFICES ASSUME pipe # <<>>
               PROVE  Aligned(Hunting, pipe[1])
    OBVIOUS
  <2>1. ByteFact(pipe[1]) /\ 1 \in 1 .. Len(pipe)
    BY PipeBytes DEF StreamInv
  <2>2. pipe[1].place = 0
    BY <1>1, <2>1 DEF StreamInv, OrderInv
  <2> QED
    BY <1>2, <2>1, <2>2 DEF ByteFact, Aligned
<1>4. SyncInv'
  BY <1>1, <1>2, <1>3 DEF SyncInv
<1> QED
  BY <1>1, <1>2, <1>4 DEF StreamInv, LinkType, PipeInv, OrderInv

(* One byte.                                                                *)
LEMMA FeedStep ==
  ASSUME StreamInv, Feed
  PROVE  StreamInv'
<1> DEFINE b == pipe[1]
           c == pipe[2]
<1>1. /\ io = "receive" /\ pipe # <<>> /\ pipe' = Tail(pipe)
      /\ assembler' = Fed(assembler, b)
      /\ UNCHANGED <<sensor, order, io>>
  BY DEF Feed
<1>2. ~misled' => (~misled \/ IsFrame(assembler, b)) /\ ~FalseHeader(assembler, b)
  <2>1. misled' = ((misled /\ ~IsFrame(assembler, b)) \/ FalseHeader(assembler, b))
    BY DEF Feed
  <2> HIDE DEF b
  <2> QED
    BY <2>1, Zenon
<1>3. /\ Len(pipe) \in 1 .. FrameLen /\ pipe \in Seq(Bytes) /\ assembler \in AssemblerType
      /\ \A i \in 1 .. Len(pipe) : pipe[i] \in Bytes /\ ByteFact(pipe[i])
  BY <1>1, PipeBytes DEF StreamInv, PipeInv, LinkType
<1>4. /\ pipe' \in Seq(Bytes) /\ Len(pipe') = Len(pipe) - 1
      /\ \A i \in 1 .. Len(pipe) - 1 : pipe'[i] = pipe[i + 1]
  <2>1. /\ Tail(pipe) \in Seq(Bytes) /\ Len(Tail(pipe)) = Len(pipe) - 1
        /\ \A i \in 1 .. Len(Tail(pipe)) : Tail(pipe)[i] = pipe[i + 1]
    BY <1>1, <1>3, HeadTailProperties
  <2> QED
    BY <1>1, <2>1
<1>5. pipe' # <<>> <=> Len(pipe) > 1
  BY <1>3, <1>4, EmptySeq
<1>6. LinkType'
  BY <1>1, <1>3, FedCases DEF StreamInv, LinkType
<1>7. PipeInv'
  <2>1. \A i \in 1 .. Len(pipe') - 1 :
          pipe'[i].place # 0 /\ pipe'[i + 1].place = pipe'[i].place + 1
            /\ pipe'[i + 1].intact = pipe'[i].intact
    BY <1>3, <1>4 DEF StreamInv, PipeInv
  <2>2. pipe' # <<>> => pipe'[Len(pipe')] = pipe[Len(pipe)]
    BY <1>3, <1>4, <1>5
  <2> QED
    BY <1>1, <1>3, <1>4, <2>1, <2>2, HeaderLength DEF StreamInv, PipeInv
<1>8. OrderInv'
  BY <1>1 DEF StreamInv, OrderInv
<1>9. SyncInv'
  <2> SUFFICES ASSUME ~misled'
               PROVE  /\ pipe' # <<>> => Aligned(assembler', pipe'[1])
                      /\ pipe' = <<>> /\ sensor # "absent" => Boundary(assembler')
    BY <1>1 DEF SyncInv
  <2>1. ByteFact(b) /\ ~FalseHeader(assembler, b)
    BY <1>2, <1>3
  <2>2. Len(pipe) = 1 /\ sensor # "absent" => b.place \in {0, FrameLen}
    BY <1>1 DEF StreamInv, PipeInv
  <2>3. Len(pipe) > 1 =>
          /\ b.place # 0 /\ c.place = b.place + 1 /\ c.intact = b.intact
          /\ ByteFact(c) /\ pipe'[1] = c
    BY <1>3, <1>4 DEF StreamInv, PipeInv
  <2>4. CASE ~misled
    <3>1. Aligned(assembler, b)
      BY <1>1, <2>4 DEF StreamInv, SyncInv
    <3>2. Len(pipe) > 1 => Aligned(assembler', pipe'[1])
      BY <1>1, <1>3, <2>1, <2>3, <3>1, AlignedNext
    <3>3. Len(pipe) = 1 /\ sensor # "absent" => Boundary(assembler')
      BY <1>1, <1>3, <2>1, <2>2, <3>1, BoundaryNext
    <3>4. Len(pipe) = 1 \/ Len(pipe) > 1
      BY <1>3, HeaderLength
    <3> QED
      BY <1>5, <3>2, <3>3, <3>4, Zenon
  <2>5. CASE IsFrame(assembler, b)
    <3>1. b.place = FrameLen /\ Boundary(assembler')
      BY <1>1, <1>3, <2>1, <2>5, FrameEnds
    <3>2. ~(Len(pipe) > 1)
      BY <2>3, <3>1, HeaderLength DEF ByteFact
    <3> QED
      BY <1>5, <3>1, <3>2
  <2> QED
    BY <1>2, <2>4, <2>5
<1> QED
  BY <1>6, <1>7, <1>8, <1>9 DEF StreamInv

(* The spinner leaves the stream alone.                                     *)
LEMMA SpinnerStep ==
  ASSUME StreamInv, Spinner \/ UNCHANGED vars
  PROVE  StreamInv'
<1>1. UNCHANGED <<sensor, order, pipe, io, assembler, misled>>
  BY DEF Spinner, StartZero, PollZero, ZeroDeadline, LateZero, Return, SetFilterCutoff, vars,
         sensorVars, sessionVars, historyVars
<1> QED
  BY <1>1 DEF StreamInv, LinkType, PipeInv, OrderInv, SyncInv

(* The stream and the assembler keep in step.                               *)
THEOREM StreamInvariant == Spec => []StreamInv
<1>1. Init => StreamInv
  <2> SUFFICES ASSUME Init
               PROVE  StreamInv
    OBVIOUS
  <2>1. /\ sensor = "absent" /\ ~order /\ pipe = <<>> /\ io = "down" /\ assembler = Hunting
    BY DEF Init
  <2>2. Hunting \in AssemblerType
    BY HeaderLength DEF Hunting, AssemblerType, AssemblerStates
  <2>3. pipe \in Seq(Bytes) /\ Len(pipe) = 0
    BY <2>1, EmptySeq
  <2>4. PipeInv
    BY <2>1, <2>3, HeaderLength DEF PipeInv
  <2>5. OrderInv /\ SyncInv
    BY <2>1 DEF OrderInv, SyncInv
  <2> QED
    BY <2>1, <2>2, <2>4, <2>5 DEF StreamInv, LinkType
<1>2. StreamInv /\ [Next]_vars => StreamInv'
  BY ServeStep, SendFrameStep, BreakStep, ReceiverStep, ResetStep, FeedStep, SpinnerStep
     DEF Next, Sensor, Receiver
<1> QED
  BY <1>1, <1>2, PTL DEF Spec

(* An intact frame is decoded whatever came before it, unless bytes of other*)
(* data have been taken for a header (sri_frame.cpp, feed()).               *)
THEOREM IntactFrameAlwaysDecoded == Spec => []IntactFrameDecoded
<1>1. StreamInv => IntactFrameDecoded
  <2> SUFFICES ASSUME StreamInv, io = "receive", pipe # <<>>, ~misled,
                      Head(pipe).intact, Head(pipe).place = FrameLen
               PROVE  IsFrame(assembler, Head(pipe))
    BY DEF IntactFrameDecoded
  <2>1. assembler \in AssemblerType /\ Aligned(assembler, Head(pipe))
    BY DEF StreamInv, LinkType, SyncInv
  <2> QED
    BY <2>1, AlignedDecodes
<1> QED
  BY <1>1, StreamInvariant, PTL

-----------------------------------------------------------------------------
(* The types of the rest.                                                   *)

RestType ==
  /\ order \in BOOLEAN
  /\ connected \in BOOLEAN
  /\ bias \in {0, 1} /\ connection \in {0, 1}
  /\ filter = None \/ filter \in {0, 1} \X {0, 1}
  /\ returned \in {None, "success", "failure"}
  /\ capture \in Fates \cup {None}

LEMMA RestStep ==
  ASSUME RestType, [Next]_vars
  PROVE  RestType'
<1> USE DEF RestType
<1>1. CASE Feed
  <2>1. UNCHANGED <<order, connected, connection, returned>>
    BY <1>1 DEF Feed, requestVars
  <2>2. bias' \in {0, 1} /\ capture' \in Fates \cup {None}
    BY <1>1 DEF Feed, TakeSample, AccumulateZero, FinishZero, Fates
  <2>3. filter' \in {filter, <<bias', connection>>}
    BY <1>1 DEF Feed, TakeSample, FilterSample
  <2> QED
    BY <2>1, <2>2, <2>3
<1>2. CASE ResetSession
  <2>1. /\ connected' = TRUE /\ filter' = None /\ UNCHANGED <<order, bias, connection, returned>>
        /\ capture' \in {"unheard", capture}
    BY <1>2 DEF ResetSession, SessionReset, sensorVars, requestVars
  <2>2. connected' \in BOOLEAN
    BY <2>1, Zenon
  <2> QED
    BY <2>1, <2>2 DEF Fates
<1>3. CASE Connect
  BY <1>3 DEF Connect, sessionVars, requestVars
<1>4. CASE SendStart
  <2>1. order' = (sensor # "absent")
    BY <1>4 DEF SendStart
  <2>2. order' \in BOOLEAN
    BY <2>1, Zenon
  <2> QED
    BY <1>4, <2>2 DEF SendStart, sessionVars, requestVars, historyVars
<1>5. CASE NoteDown \/ ReceiveFails
  <2>1. connected' \in BOOLEAN
    <3>1. connected' = FALSE \/ connected' = connected
      BY <1>5 DEF NoteDown, ReceiveFails
    <3> QED
      BY <3>1, Zenon
  <2> QED
    BY <1>5, <2>1 DEF NoteDown, ReceiveFails, sensorVars, sessionVars, requestVars, historyVars
<1>6. CASE Sensor
  <2>1. order' \in BOOLEAN
    <3>1. order' = FALSE \/ order' = order
      BY <1>6 DEF Sensor, Serve, SendFrame, Break
    <3> QED
      BY <3>1, Zenon
  <2> QED
    BY <1>6, <2>1 DEF Sensor, Serve, SendFrame, Break, sessionVars, requestVars, historyVars
<1>7. CASE Spinner \/ UNCHANGED vars
  <2>1. UNCHANGED <<order, connected, bias, connection>>
    BY <1>7 DEF Spinner, StartZero, PollZero, ZeroDeadline, LateZero, Return, SetFilterCutoff,
                vars, sensorVars, sessionVars, historyVars
  <2>2. filter' \in {filter, None} /\ capture' \in {capture, None}
    BY <1>7 DEF Spinner, StartZero, PollZero, ZeroDeadline, LateZero, Return, SetFilterCutoff,
                vars, sessionVars, historyVars
  <2>3. returned' \in {returned, None, "success", "failure"}
    BY <1>7 DEF Spinner, StartZero, PollZero, ZeroDeadline, LateZero, Return, SetFilterCutoff,
                vars, requestVars
  <2> QED
    BY <2>1, <2>2, <2>3
<1> QED
  BY <1>1, <1>2, <1>3, <1>4, <1>5, <1>6, <1>7 DEF Next, Receiver

(* Every variable has its type; no more of the stream waits than a frame.   *)
THEOREM SriTypesHold == Spec => []SriTypeOK
<1>1. Init => RestType
  <2> SUFFICES ASSUME Init
               PROVE  RestType
    OBVIOUS
  <2>1. order \in BOOLEAN /\ connected \in BOOLEAN
    BY Zenon DEF Init
  <2> QED
    BY <2>1 DEF Init, RestType
<1>2. StreamInv /\ ZeroInv /\ RestType => SriTypeOK
  BY HeaderLength, LenProperties
     DEF StreamInv, LinkType, PipeInv, AssemblerType, ZeroInv, CountInv, VerdictInv, RestType,
         SriTypeOK
<1> QED
  BY <1>1, <1>2, RestStep, StreamInvariant, ZeroInvariant, PTL DEF Spec

=============================================================================
