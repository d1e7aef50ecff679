--------------------------- MODULE EkiBridgeProofs ---------------------------
(***************************************************************************)
(* The EKI bridge against the program on the robot controller, for any     *)
(* number of commands and frames, every set of actions and either value of *)
(* auto_reconnect: what a verdict says of the controller, and what is left *)
(* of a lost connection.                                                   *)
(***************************************************************************)
EXTENDS EkiBridge, SequenceTheorems, TLAPS

(* A request of execute(); 0 is the number of the heartbeats.               *)
Requests == [seq : Nat \ {0}, action : Actions]
Frames == [ack : Nat, ok : BOOLEAN, rsi : BOOLEAN]
Acknowledgements == [seq : Nat, ok : BOOLEAN]

WireTypeOK ==
  /\ link \in {"down", "up", "broken"}
  /\ inbox \in Seq(Requests)
  /\ down \in Seq(Frames)
  /\ correcting \in BOOLEAN /\ fault \in BOOLEAN
  /\ acks \subseteq Acknowledgements

FlagTypeOK ==
  /\ io \in {"top", "attempt", "backoff", "send", "receive"}
  /\ {auto_reconnect, connected, connect_requested, fresh, waited} \subseteq BOOLEAN

CallTypeOK ==
  /\ call \in {NoCall, Connecting} \cup Requests
  /\ outgoing \in {NoCall} \cup Requests
  /\ pending \in Nat /\ next_seq \in Nat \ {0}
  /\ last \in Frames
  /\ heirs \subseteq Nat
  /\ answers \subseteq [seq : Nat, outcome : Outcomes]

(* The io thread sends what it has marked as in flight, and no step of an   *)
(* attempt to connect or of a session finds the link otherwise.             *)
IoInv ==
  /\ io = "send" => outgoing \in Requests /\ pending = outgoing.seq
  /\ io # "send" => outgoing = NoCall
  /\ io \in {"attempt", "backoff"} => link = "down"
  /\ io \in {"send", "receive"} => link # "down"

BridgeTypeInv ==
  /\ WireTypeOK
  /\ FlagTypeOK
  /\ CallTypeOK
  /\ IoInv

-----------------------------------------------------------------------------
(* What the steps do.                                                       *)

LEMMA RequestFields ==
  /\ \A r \in Requests : r.seq \in Nat /\ r.seq # 0 /\ r.action \in Actions
  /\ NoCall.seq = 0 /\ Connecting.seq = 0
BY DEF Requests, NoCall, Connecting

LEMMA StandingRequest ==
  ASSUME CallTypeOK
  PROVE  /\ Standing <=> call \in Requests
         /\ Standing => call.seq \in Nat /\ call.seq # 0
BY RequestFields DEF CallTypeOK, Standing

LEMMA FrameType ==
  ASSUME NEW n \in Nat, NEW ok \in BOOLEAN, NEW active \in BOOLEAN
  PROVE  /\ [ack |-> n, ok |-> ok, rsi |-> active] \in Frames
         /\ [seq |-> n, ok |-> ok] \in Acknowledgements
BY DEF Frames, Acknowledgements

(* The commands on their way: only Send adds one.                           *)
InboxStep ==
  \/ UNCHANGED inbox
  \/ inbox # <<>> /\ inbox' = Tail(inbox)
  \/ \E kept \in 0 .. Len(inbox) : inbox' = SubSeq(inbox, 1, kept)
  \/ Send /\ inbox' = Append(inbox, outgoing)

(* The frames on their way.                                                 *)
DownStep ==
  \/ UNCHANGED down
  \/ down' = <<>>
  \/ down # <<>> /\ down' = Tail(down)
  \/ \E kept \in 0 .. Len(down) : down' = SubSeq(down, 1, kept)
  \/ Answer \/ Heartbeat

LEMMA WireSteps ==
  ASSUME [Next]_vars
  PROVE  InboxStep /\ DownStep
<1>1. CASE IoStep
  BY <1>1 DEF IoStep, RefuseOffline, Arm, ConnectSucceeds, ConnectFails, BackoffEnds,
              BeginCommand, NothingToSend, Send, SendFails, ReceiveError, LoseLink,
              ReceiveNothing, ReceiveFrame, Steps, QuietKrc, krcVars, InboxStep, DownStep
<1>2. CASE ServiceStep
  BY <1>2 DEF ServiceStep, Execute, Abandon, ConnectNow, ConnectReturns, GoStale, QuietKrc,
              krcVars, InboxStep, DownStep
<1>3. CASE KrcStep
  BY <1>3 DEF KrcStep, KrcNext, Answer, Heartbeat, CorrectionEnds, FaultOccurs, LinkBreaks,
              InboxStep, DownStep
<1>4. CASE UNCHANGED vars
  BY <1>4 DEF vars, krcVars, InboxStep, DownStep
<1> QED
  BY <1>1, <1>2, <1>3, <1>4 DEF Next

(* What the program answers to the first command.                           *)
Verdict == ~(Head(inbox).action = "START_RSI" /\ fault)

LEMMA AnswerEffect ==
  ASSUME WireTypeOK, Answer
  PROVE  /\ inbox # <<>> /\ Head(inbox) \in Requests
         /\ Verdict \in BOOLEAN /\ correcting' \in BOOLEAN
         /\ acks' = acks \cup {[seq |-> Head(inbox).seq, ok |-> Verdict]}
         /\ \/ UNCHANGED down /\ link # "up"
            \/ /\ link = "up"
               /\ down' = Append(down, [ack |-> Head(inbox).seq, ok |-> Verdict,
                                        rsi |-> correcting'])
         /\ UNCHANGED link
<1>1. inbox # <<>> /\ Head(inbox) \in Requests
  BY DEF Answer, WireTypeOK
<1>2. Verdict \in BOOLEAN /\ correcting' \in BOOLEAN
  BY DEF Answer, Verdict
<1>3. acks' = acks \cup {[seq |-> Head(inbox).seq, ok |-> Verdict]} /\ UNCHANGED link
  BY DEF Answer, Verdict
<1>4. \/ UNCHANGED down /\ link # "up"
      \/ /\ link = "up"
         /\ down' = Append(down, [ack |-> Head(inbox).seq, ok |-> Verdict, rsi |-> correcting'])
  BY DEF Answer, SendState, Verdict
<1> QED
  BY <1>1, <1>2, <1>3, <1>4

-----------------------------------------------------------------------------
(* Types.                                                                   *)

LEMMA InboxTypeStep ==
  ASSUME BridgeTypeInv, [Next]_vars
  PROVE  inbox' \in Seq(Requests)
<1>1. inbox \in Seq(Requests) /\ (io = "send" => outgoing \in Requests)
  BY DEF BridgeTypeInv, WireTypeOK, IoInv
<1>2. ASSUME NEW kept \in 0 .. Len(inbox), inbox' = SubSeq(inbox, 1, kept)
      PROVE  inbox' \in Seq(Requests)
  BY <1>1, <1>2
<1> QED
  BY <1>1, <1>2, WireSteps DEF InboxStep, Send, Steps

LEMMA DownTypeStep ==
  ASSUME WireTypeOK, [Next]_vars
  PROVE  down' \in Seq(Frames)
<1>1. down \in Seq(Frames)
  BY DEF WireTypeOK
<1>2. ASSUME NEW kept \in 0 .. Len(down), down' = SubSeq(down, 1, kept)
      PROVE  down' \in Seq(Frames)
  BY <1>1, <1>2
<1>3. CASE Answer
  <2>1. [ack |-> Head(inbox).seq, ok |-> Verdict, rsi |-> correcting'] \in Frames
    BY <1>3, AnswerEffect, FrameType, RequestFields
  <2> QED
    BY <1>1, <1>3, <2>1, AnswerEffect
<1>4. CASE Heartbeat
  <2>1. [ack |-> 0, ok |-> TRUE, rsi |-> FALSE] \in Frames
    BY FrameType
  <2> QED
    BY <1>1, <1>4, <2>1 DEF Heartbeat, SendState
<1>5. CASE down' = <<>>
  BY <1>5
<1>6. CASE UNCHANGED down \/ (down # <<>> /\ down' = Tail(down))
  BY <1>1, <1>6
<1> QED
  BY <1>2, <1>3, <1>4, <1>5, <1>6, WireSteps DEF DownStep

LEMMA WireTypeStep ==
  ASSUME BridgeTypeInv, [Next]_vars
  PROVE  WireTypeOK'
<1>1. link' \in {"down", "up", "broken"} /\ correcting' \in BOOLEAN /\ fault' \in BOOLEAN
      /\ acks' \subseteq Acknowledgements
  <2> USE DEF BridgeTypeInv, WireTypeOK
  <2>1. CASE IoStep
    BY <2>1 DEF IoStep, RefuseOffline, Arm, ConnectSucceeds, ConnectFails, BackoffEnds,
                BeginCommand, NothingToSend, Send, SendFails, ReceiveError, LoseLink,
                ReceiveNothing, ReceiveFrame, QuietKrc, krcVars
  <2>2. CASE ServiceStep
    BY <2>2 DEF ServiceStep, Execute, Abandon, ConnectNow, ConnectReturns, GoStale, QuietKrc,
                krcVars
  <2>3. CASE Answer
    <3>1. [seq |-> Head(inbox).seq, ok |-> Verdict] \in Acknowledgements
      BY <2>3, AnswerEffect, FrameType, RequestFields
    <3>2. fault' \in BOOLEAN
      BY <2>3 DEF Answer
    <3> QED
      BY <2>3, <3>1, <3>2, AnswerEffect
  <2>4. CASE Heartbeat \/ CorrectionEnds \/ FaultOccurs \/ LinkBreaks
    BY <2>4 DEF Heartbeat, CorrectionEnds, FaultOccurs, LinkBreaks
  <2>5. CASE UNCHANGED vars
    BY <2>5 DEF vars, krcVars
  <2> QED
    BY <2>1, <2>2, <2>3, <2>4, <2>5 DEF Next, KrcStep, KrcNext
<1> QED
  BY <1>1, InboxTypeStep, DownTypeStep DEF BridgeTypeInv, WireTypeOK

LEMMA FlagTypeStep ==
  ASSUME BridgeTypeInv, [Next]_vars
  PROVE  FlagTypeOK'
<1> USE DEF BridgeTypeInv, FlagTypeOK
<1>1. CASE RefuseOffline \/ Arm \/ ConnectSucceeds \/ ConnectFails \/ BackoffEnds
  BY <1>1 DEF RefuseOffline, Arm, ConnectSucceeds, ConnectFails, BackoffEnds, Steps, QuietRest,
              QuietCaller, ResetSession, Standing
<1>2. CASE BeginCommand \/ NothingToSend \/ Send \/ SendFails \/ ReceiveError
  BY <1>2 DEF BeginCommand, NothingToSend, Send, SendFails, ReceiveError, LoseLink, Steps,
              QuietRest, QuietCaller, ResetSession
<1>3. CASE ReceiveNothing \/ ReceiveFrame
  BY <1>3 DEF ReceiveNothing, ReceiveFrame, Steps, QuietRest, QuietCaller, OnState
<1>4. CASE ServiceStep
  BY <1>4 DEF ServiceStep, Execute, Abandon, ConnectNow, ConnectReturns, GoStale, QuietIo
<1>5. CASE KrcStep \/ UNCHANGED vars
  BY <1>5 DEF KrcStep, vars, bridgeVars
<1> QED
  BY <1>1, <1>2, <1>3, <1>4, <1>5 DEF Next, IoStep

(* A request that gets its outcome is the one that waits, or nobody does.   *)
LEMMA ResolveEffect ==
  ASSUME CallTypeOK, NEW outcome \in Outcomes, Resolve(outcome)
  PROVE  /\ \/ UNCHANGED <<call, answers>> /\ ~Standing
            \/ /\ Standing /\ call' = NoCall
               /\ answers' = answers \cup {[seq |-> call.seq, outcome |-> outcome]}
         /\ call' \in {NoCall, Connecting} \cup Requests
         /\ answers' \subseteq [seq : Nat, outcome : Outcomes]
         /\ ~Standing'
<1>1. CASE Standing
  <2>1. call' = NoCall /\ answers' = answers \cup {[seq |-> call.seq, outcome |-> outcome]}
    BY <1>1 DEF Resolve
  <2>2. [seq |-> call.seq, outcome |-> outcome] \in [seq : Nat, outcome : Outcomes]
    BY <1>1, StandingRequest
  <2>3. ~Standing'
    BY <2>1, RequestFields DEF Standing
  <2> QED
    BY <1>1, <2>1, <2>2, <2>3 DEF CallTypeOK
<1>2. CASE ~Standing
  BY <1>2 DEF Resolve, Standing, CallTypeOK
<1> QED
  BY <1>1, <1>2

LEMMA TickEffect ==
  ASSUME CallTypeOK, TickSession
  PROVE  \/ UNCHANGED <<pending, call, answers>>
         \/ pending # 0 /\ pending' = 0 /\ Resolve("TIMEOUT")
BY DEF TickSession

(* What a step of the io thread makes of the waiting request.               *)
OutcomeStep ==
  \/ UNCHANGED <<call, answers>>
  \/ \E outcome \in Outcomes : Resolve(outcome)

LEMMA IoOutcomes ==
  ASSUME IoStep
  PROVE  OutcomeStep
<1>1. {"ACCEPTED", "REFUSED", "TIMEOUT", "NOT_CONNECTED"} = Outcomes
  BY DEF Outcomes
<1>2. CASE ReceiveNothing \/ ReceiveFrame
  BY <1>1, <1>2 DEF ReceiveNothing, ReceiveFrame, OnState, TickSession, OutcomeStep
<1>3. CASE SendFails \/ ReceiveError \/ RefuseOffline \/ ConnectFails
  BY <1>1, <1>3 DEF SendFails, ReceiveError, RefuseOffline, ConnectFails, OutcomeStep
<1>4. CASE Arm \/ ConnectSucceeds \/ BackoffEnds \/ BeginCommand \/ NothingToSend \/ Send
  BY <1>4 DEF Arm, ConnectSucceeds, BackoffEnds, BeginCommand, NothingToSend, Send, OutcomeStep
<1> QED
  BY <1>2, <1>3, <1>4 DEF IoStep

LEMMA CallTypeStep ==
  ASSUME BridgeTypeInv, [Next]_vars
  PROVE  CallTypeOK'
<1> USE DEF BridgeTypeInv
<1>1. call' \in {NoCall, Connecting} \cup Requests
      /\ answers' \subseteq [seq : Nat, outcome : Outcomes]
  <2>1. CASE IoStep
    BY <2>1, IoOutcomes, ResolveEffect DEF OutcomeStep, CallTypeOK
  <2>2. ASSUME NEW action \in Actions, Execute(action)
        PROVE  call' \in Requests /\ UNCHANGED answers
    BY <2>2 DEF Execute, CallTypeOK, Requests
  <2>3. CASE Abandon
    <3>1. Resolve("TIMEOUT") /\ "TIMEOUT" \in Outcomes
      BY <2>3 DEF Abandon, Outcomes
    <3> QED
      BY <3>1, ResolveEffect
  <2>4. CASE ConnectNow \/ ConnectReturns \/ GoStale \/ KrcStep \/ UNCHANGED vars
    BY <2>4 DEF ConnectNow, ConnectReturns, GoStale, KrcStep, vars, bridgeVars, CallTypeOK
  <2> QED
    BY <2>1, <2>2, <2>3, <2>4 DEF Next, ServiceStep, CallTypeOK
<1>2. pending' \in Nat /\ outgoing' \in {NoCall} \cup Requests /\ last' \in Frames
  <2> USE DEF CallTypeOK
  <2>1. NoState \in Frames
    BY DEF NoState, Frames
  <2>2. CASE BeginCommand
    BY <2>2, StandingRequest DEF BeginCommand
  <2>3. CASE ReceiveFrame
    <3>1. Head(down) \in Frames
      BY <2>3 DEF ReceiveFrame, WireTypeOK
    <3>2. last' = Head(down) /\ pending' \in {0, pending} /\ UNCHANGED outgoing
      BY <2>3 DEF ReceiveFrame, OnState, TickSession, QuietRest
    <3> QED
      BY <3>1, <3>2
  <2>4. CASE ReceiveNothing
    BY <2>4 DEF ReceiveNothing, TickSession, QuietRest
  <2>5. CASE SendFails \/ ReceiveError \/ ConnectSucceeds \/ Send
    BY <2>1, <2>5 DEF SendFails, ReceiveError, LoseLink, ConnectSucceeds, Send, ResetSession,
                      QuietRest
  <2>6. CASE RefuseOffline \/ Arm \/ ConnectFails \/ BackoffEnds \/ NothingToSend
    BY <2>6 DEF RefuseOffline, Arm, ConnectFails, BackoffEnds, NothingToSend, QuietRest
  <2>7. CASE ServiceStep
    BY <2>7 DEF ServiceStep, Execute, Abandon, ConnectNow, ConnectReturns, GoStale, QuietIo
  <2>8. CASE KrcStep \/ UNCHANGED vars
    BY <2>8 DEF KrcStep, vars, bridgeVars
  <2> QED
    BY <2>2, <2>3, <2>4, <2>5, <2>6, <2>7, <2>8 DEF Next, IoStep
<1>3. next_seq' \in Nat \ {0} /\ heirs' \subseteq Nat
  <2> USE DEF CallTypeOK
  <2>1. CASE IoStep
    BY <2>1 DEF IoStep, RefuseOffline, Arm, ConnectSucceeds, ConnectFails, BackoffEnds,
                BeginCommand, NothingToSend, Send, SendFails, ReceiveError, LoseLink,
                ReceiveNothing, ReceiveFrame, QuietRest, QuietCaller
  <2>2. CASE ServiceStep
    <3>1. \/ UNCHANGED <<next_seq, heirs>>
          \/ next_seq' = next_seq + 1 /\ heirs' \in {heirs, heirs \cup {next_seq}}
      BY <2>2 DEF ServiceStep, Execute, Abandon, ConnectNow, ConnectReturns, GoStale
    <3>2. next_seq \in Nat \ {0} /\ heirs \subseteq Nat
      OBVIOUS
    <3>3. next_seq' \in Nat \ {0}
      BY <3>1, <3>2
    <3> QED
      BY <3>1, <3>2, <3>3
  <2>3. CASE KrcStep \/ UNCHANGED vars
    BY <2>3 DEF KrcStep, vars, bridgeVars
  <2> QED
    BY <2>1, <2>2, <2>3 DEF Next
<1> QED
  BY <1>1, <1>2, <1>3 DEF CallTypeOK

(* Only the io thread moves itself, what it sends and what is in flight.    *)
LEMMA OthersLeaveIo ==
  ASSUME ServiceStep \/ KrcStep \/ UNCHANGED vars
  PROVE  /\ UNCHANGED <<io, outgoing, pending, connected, last>>
         /\ link' = "down" <=> link = "down"
<1>1. UNCHANGED <<io, outgoing, pending, connected, last>>
  BY DEF ServiceStep, Execute, Abandon, ConnectNow, ConnectReturns, GoStale, QuietIo, KrcStep,
         vars, bridgeVars
<1>2. link' = "down" <=> link = "down"
  BY DEF ServiceStep, Execute, Abandon, ConnectNow, ConnectReturns, GoStale, QuietKrc, KrcStep,
         KrcNext, Answer, Heartbeat, CorrectionEnds, FaultOccurs, LinkBreaks, vars, krcVars
<1> QED
  BY <1>1, <1>2

LEMMA IoInvStep ==
  ASSUME BridgeTypeInv, [Next]_vars
  PROVE  IoInv'
<1> USE DEF BridgeTypeInv, IoInv
<1>1. CASE RefuseOffline \/ Arm \/ ConnectSucceeds \/ ConnectFails \/ BackoffEnds
  BY <1>1 DEF RefuseOffline, Arm, ConnectSucceeds, ConnectFails, BackoffEnds, Steps, QuietKrc,
              krcVars, QuietRest
<1>2. CASE BeginCommand
  BY <1>2, StandingRequest DEF BeginCommand, Steps, QuietKrc, krcVars
<1>3. CASE NothingToSend \/ Send
  BY <1>3 DEF NothingToSend, Send, Steps, QuietKrc, krcVars, QuietRest
<1>4. CASE SendFails \/ ReceiveError
  BY <1>4 DEF SendFails, ReceiveError, LoseLink, Steps
<1>5. CASE ReceiveNothing \/ ReceiveFrame
  BY <1>5 DEF ReceiveNothing, ReceiveFrame, Steps, QuietKrc, krcVars, QuietRest
<1>6. CASE ServiceStep \/ KrcStep \/ UNCHANGED vars
  BY <1>6, OthersLeaveIo
<1> QED
  BY <1>1, <1>2, <1>3, <1>4, <1>5, <1>6 DEF Next, IoStep

LEMMA BridgeTypesInvariant == Spec => []BridgeTypeInv
<1>1. Init => BridgeTypeInv
  <2> SUFFICES ASSUME Init
               PROVE  BridgeTypeInv
    OBVIOUS
  <2> USE EkiAssumption DEF Init
  <2>1. WireTypeOK
    BY EmptySeq DEF KrcInit, WireTypeOK
  <2>2. FlagTypeOK
    BY DEF FlagTypeOK
  <2>3. CallTypeOK
    BY DEF CallTypeOK, NoState, Frames
  <2>4. IoInv
    BY DEF IoInv
  <2> QED
    BY <2>1, <2>2, <2>3, <2>4 DEF BridgeTypeInv
<1>2. BridgeTypeInv /\ [Next]_vars => BridgeTypeInv'
  BY WireTypeStep, FlagTypeStep, CallTypeStep, IoInvStep DEF BridgeTypeInv
<1> QED
  BY <1>1, <1>2, PTL DEF Spec

(* Everything on the wire, in the session and in the threads keeps its type *)
(* (eki_bridge_runtime.cpp, eki_session_core.cpp).                          *)
THEOREM EkiTypesHold == Spec => []EkiTypeOK
<1>1. ASSUME BridgeTypeInv
      PROVE  EkiTypeOK
  <2> USE <1>1 DEF BridgeTypeInv, WireTypeOK, FlagTypeOK, CallTypeOK
  <2>1. Requests \subseteq [seq : Nat, action : Actions]
    BY DEF Requests
  <2>2. inbox \in Seq([seq : Nat, action : Actions])
    BY <2>1, SeqMonotonic
  <2>3. call \in [seq : Nat, action : Actions \cup {"none", "connect"}]
        /\ outgoing \in [seq : Nat, action : Actions \cup {"none"}]
    BY DEF Requests, NoCall, Connecting
  <2>4. {correcting, fault, auto_reconnect, connected, connect_requested, fresh, waited}
          \subseteq BOOLEAN
    OBVIOUS
  <2> QED
    BY <2>2, <2>3, <2>4 DEF EkiTypeOK, Frames
<1> QED
  BY <1>1, BridgeTypesInvariant, PTL

-----------------------------------------------------------------------------
(* Offline.                                                                 *)

LEMMA OfflineStep ==
  ASSUME BridgeTypeInv, OfflineIsQuiet, [Next]_vars
  PROVE  OfflineIsQuiet'
<1> USE DEF OfflineIsQuiet
<1>1. CASE RefuseOffline \/ Arm \/ ConnectSucceeds \/ ConnectFails \/ BackoffEnds
  BY <1>1 DEF RefuseOffline, Arm, ConnectSucceeds, ConnectFails, BackoffEnds, QuietKrc, krcVars
<1>2. CASE BeginCommand \/ NothingToSend \/ ReceiveNothing \/ ReceiveFrame
  BY <1>2 DEF BeginCommand, NothingToSend, ReceiveNothing, ReceiveFrame, QuietKrc, krcVars
<1>3. CASE Send
  BY <1>3 DEF Send, Steps, BridgeTypeInv, IoInv
<1>4. CASE SendFails \/ ReceiveError
  <2>1. pending' = 0 /\ connected' = FALSE /\ fresh' = FALSE
    BY <1>4 DEF SendFails, ReceiveError, LoseLink, ResetSession
  <2> QED
    BY <2>1
<1>5. CASE ServiceStep \/ KrcStep \/ UNCHANGED vars
  <2>1. fresh' \in {FALSE, fresh}
    BY <1>5 DEF ServiceStep, Execute, Abandon, ConnectNow, ConnectReturns, GoStale, KrcStep,
                vars, bridgeVars
  <2> QED
    BY <1>5, <2>1, OthersLeaveIo
<1> QED
  BY <1>1, <1>2, <1>3, <1>4, <1>5 DEF Next, IoStep

LEMMA OfflineInvariant == Spec => []OfflineIsQuiet
<1>1. Init => OfflineIsQuiet
  <2> SUFFICES ASSUME Init
               PROVE  OfflineIsQuiet
    OBVIOUS
  <2>1. pending = 0 /\ connected = FALSE /\ fresh = FALSE
    BY DEF Init
  <2> QED
    BY <2>1 DEF OfflineIsQuiet
<1>2. BridgeTypeInv /\ OfflineIsQuiet /\ [Next]_vars => OfflineIsQuiet'
  BY OfflineStep
<1> QED
  BY <1>1, <1>2, BridgeTypesInvariant, PTL DEF Spec

(* Whatever the order in which the link is lost, commands are posted and    *)
(* frames come in, nothing of the lost session survives in the view and no  *)
(* command stays in flight (eki_bridge_runtime.cpp, run()).                 *)
THEOREM OfflineAlwaysQuiet == Spec => []OfflineIsQuiet
BY OfflineInvariant

-----------------------------------------------------------------------------
(* The view of the controller.  The frames on their way are in the order in *)
(* which the program sent them, and it sends none while it corrects: the    *)
(* last one, or the view once they are all taken, tells of the correction.  *)

ViewInv ==
  link = "up" /\ correcting =>
    IF down = <<>> THEN fresh => last.rsi ELSE down[Len(down)].rsi

LEMMA ViewOfAnswer ==
  ASSUME WireTypeOK, Answer
  PROVE  ViewInv'
<1>1. SUFFICES ASSUME link' = "up", correcting'
               PROVE  down' # <<>> /\ down'[Len(down')].rsi
  BY DEF ViewInv
<1>2. PICK f : f = [ack |-> Head(inbox).seq, ok |-> Verdict, rsi |-> correcting']
  OBVIOUS
<1>3. f \in Frames /\ f.rsi
  BY <1>1, <1>2, AnswerEffect, FrameType, RequestFields
<1>4. down' = Append(down, f)
  BY <1>1, <1>2, AnswerEffect
<1> QED
  BY <1>3, <1>4 DEF WireTypeOK

LEMMA ViewOfFrame ==
  ASSUME WireTypeOK, ViewInv, ReceiveFrame
  PROVE  ViewInv'
<1>1. /\ down # <<>> /\ down' = Tail(down) /\ last' = Head(down)
      /\ UNCHANGED <<link, correcting>>
  BY DEF ReceiveFrame, OnState
<1>2. CASE Len(down) = 1
  BY <1>1, <1>2 DEF ViewInv, WireTypeOK
<1>3. CASE Len(down) > 1
  <2>1. down' # <<>> /\ down'[Len(down')] = down[Len(down)]
    <3>1. Tail(down) # <<>> /\ Len(Tail(down)) = Len(down) - 1
      BY <1>1, <1>3, HeadTailProperties DEF WireTypeOK
    <3>2. Tail(down)[Len(down) - 1] = down[Len(down)]
      BY <1>1, <1>3, <3>1, HeadTailProperties DEF WireTypeOK
    <3> QED
      BY <1>1, <3>1, <3>2
  <2> QED
    BY <1>1, <2>1 DEF ViewInv
<1>4. Len(down) \in Nat \ {0}
  BY <1>1, EmptySeq DEF WireTypeOK
<1> QED
  BY <1>2, <1>3, <1>4

LEMMA ViewStep ==
  ASSUME BridgeTypeInv, ViewInv, [Next]_vars
  PROVE  ViewInv'
<1> USE DEF BridgeTypeInv
<1>1. CASE ConnectSucceeds
  <2>1. down' = <<>> /\ fresh' = FALSE
    BY <1>1 DEF ConnectSucceeds, ResetSession
  <2> QED
    BY <2>1 DEF ViewInv
<1>2. CASE SendFails \/ ReceiveError
  BY <1>2 DEF SendFails, ReceiveError, LoseLink, ViewInv
<1>3. CASE ReceiveFrame
  BY <1>3, ViewOfFrame
<1>4. CASE RefuseOffline \/ Arm \/ ConnectFails \/ BackoffEnds \/ BeginCommand \/ NothingToSend
             \/ Send \/ ReceiveNothing
  <2>1. UNCHANGED <<link, correcting, down, last, fresh>>
    BY <1>4 DEF RefuseOffline, Arm, ConnectFails, BackoffEnds, BeginCommand, NothingToSend,
                Send, ReceiveNothing, QuietKrc, krcVars
  <2> QED
    BY <2>1 DEF ViewInv
<1>5. CASE ServiceStep \/ UNCHANGED vars
  <2>1. fresh' = FALSE \/ UNCHANGED fresh
    BY <1>5 DEF ServiceStep, Execute, Abandon, ConnectNow, ConnectReturns, GoStale, vars,
                bridgeVars
  <2>2. UNCHANGED <<link, correcting, down, last>>
    BY <1>5 DEF ServiceStep, Execute, Abandon, ConnectNow, ConnectReturns, GoStale, QuietIo,
                QuietKrc, vars, bridgeVars, krcVars
  <2>3. ViewInv' <=> (link = "up" /\ correcting =>
                        IF down = <<>> THEN fresh' => last.rsi ELSE down[Len(down)].rsi)
    BY <2>2 DEF ViewInv
  <2> QED
    BY <2>1, <2>3 DEF ViewInv
<1>6. CASE KrcStep /\ Answer
  BY <1>6, ViewOfAnswer
<1>7. CASE KrcStep /\ ~Answer
  <2>1. link' # "up" \/ correcting' = FALSE
    BY <1>7 DEF KrcStep, KrcNext, Heartbeat, CorrectionEnds, FaultOccurs, LinkBreaks, WireTypeOK
  <2> QED
    BY <2>1 DEF ViewInv
<1> QED
  BY <1>1, <1>2, <1>3, <1>4, <1>5, <1>6, <1>7 DEF Next, IoStep

(* A fresh view that denies an RSI session is only ever late, by frames     *)
(* that are still on their way (eki_bridge_runtime.cpp, the session's       *)
(* last_state; on its word the manager masks rsi faults).                   *)
THEOREM FreshViewAlwaysCurrent == Spec => []FreshViewIsCurrent
<1>1. Init => ViewInv
  BY DEF Init, KrcInit, ViewInv
<1>2. BridgeTypeInv /\ ViewInv /\ [Next]_vars => ViewInv'
  BY ViewStep
<1>3. BridgeTypeInv /\ ViewInv => FreshViewIsCurrent
  <2> SUFFICES ASSUME BridgeTypeInv, ViewInv, link = "up", fresh, ~last.rsi, correcting
               PROVE  \E i \in DOMAIN down : down[i].rsi
    BY DEF FreshViewIsCurrent
  <2>1. down # <<>> /\ down[Len(down)].rsi
    BY DEF ViewInv
  <2>2. Len(down) \in DOMAIN down
    BY <2>1 DEF BridgeTypeInv, WireTypeOK
  <2> QED
    BY <2>1, <2>2
<1> QED
  BY <1>1, <1>2, <1>3, BridgeTypesInvariant, PTL DEF Spec

-----------------------------------------------------------------------------
(* Verdicts.  A number belongs to one command for ever; what is on its way  *)
(* or answered is, as long as its caller waits, the command in flight.      *)

OnItsWay == {inbox[i].seq : i \in DOMAIN inbox}

Received == {k.seq : k \in acks}

Sent == OnItsWay \cup Received

(* Numbers are given out in order, and a caller waits for no number that    *)
(* has been answered.                                                       *)
NumberInv ==
  /\ call.seq < next_seq
  /\ outgoing.seq < next_seq
  /\ \A n \in Sent : n < next_seq
  /\ \A a \in answers : a.seq < next_seq /\ a.seq # call.seq /\ a.seq # 0

SentInv ==
  /\ Standing /\ call.seq \in Sent => pending = call.seq
  /\ io = "send" => outgoing.seq \notin Sent

RefusedInv ==
  \A a \in answers : a.outcome = "NOT_CONNECTED" => a.seq \notin Sent /\ a.seq # outgoing.seq

(* A caller that waits behind the command of another one is an heir.        *)
HeirInv == Standing /\ pending # 0 /\ pending # call.seq => call.seq \in heirs

(* What a frame acknowledges has been decided that way.                     *)
FramesInv ==
  \A i \in DOMAIN down :
    down[i].ack # 0 => [seq |-> down[i].ack, ok |-> down[i].ok] \in acks

DeliveryInv == NumberInv /\ SentInv /\ RefusedInv

VerdictInv == HeirInv /\ FramesInv /\ VerdictIsControllers

(* Sending is the only step by which a number becomes a sent one.           *)
LEMMA InboxKeepsNumbers ==
  ASSUME BridgeTypeInv, [Next]_vars, NEW n \in OnItsWay'
  PROVE  n \in OnItsWay \/ (Send /\ n = outgoing.seq)
<1>1. inbox \in Seq(Requests)
  BY DEF BridgeTypeInv, WireTypeOK
<1>2. PICK i \in DOMAIN inbox' : inbox'[i].seq = n
  BY DEF OnItsWay
<1>3. CASE UNCHANGED inbox
  BY <1>2, <1>3 DEF OnItsWay
<1>4. CASE inbox # <<>> /\ inbox' = Tail(inbox)
  <2>1. i + 1 \in DOMAIN inbox /\ inbox[i + 1] = inbox'[i]
    BY <1>1, <1>2, <1>4
  <2> QED
    BY <1>2, <2>1 DEF OnItsWay
<1>5. CASE \E kept \in 0 .. Len(inbox) : inbox' = SubSeq(inbox, 1, kept)
  <2>1. i \in DOMAIN inbox /\ inbox[i] = inbox'[i]
    BY <1>1, <1>2, <1>5
  <2> QED
    BY <1>2, <2>1 DEF OnItsWay
<1>6. CASE Send /\ inbox' = Append(inbox, outgoing)
  <2>1. \/ i \in DOMAIN inbox /\ inbox[i] = inbox'[i]
        \/ inbox'[i] = outgoing
    BY <1>1, <1>2, <1>6
  <2> QED
    BY <1>2, <1>6, <2>1 DEF OnItsWay
<1> QED
  BY <1>3, <1>4, <1>5, <1>6, WireSteps DEF InboxStep

LEMMA AcksStep ==
  ASSUME BridgeTypeInv, [Next]_vars
  PROVE  \/ UNCHANGED acks
         \/ Answer
<1>1. CASE IoStep
  BY <1>1 DEF IoStep, RefuseOffline, Arm, ConnectSucceeds, ConnectFails, BackoffEnds,
              BeginCommand, NothingToSend, Send, SendFails, ReceiveError, LoseLink,
              ReceiveNothing, ReceiveFrame, QuietKrc, krcVars
<1>2. CASE ServiceStep
  BY <1>2 DEF ServiceStep, Execute, Abandon, ConnectNow, ConnectReturns, GoStale, QuietKrc,
              krcVars
<1>3. CASE KrcStep
  BY <1>3 DEF KrcStep, KrcNext, Heartbeat, CorrectionEnds, FaultOccurs, LinkBreaks
<1>4. CASE UNCHANGED vars
  BY <1>4 DEF vars, krcVars
<1> QED
  BY <1>1, <1>2, <1>3, <1>4 DEF Next

LEMMA SentStep ==
  ASSUME BridgeTypeInv, [Next]_vars, NEW n \in Sent'
  PROVE  n \in Sent \/ (Send /\ n = outgoing.seq)
<1>1. CASE n \in OnItsWay'
  BY <1>1, InboxKeepsNumbers DEF Sent
<1>2. CASE n \in Received'
  <2>1. CASE UNCHANGED acks
    BY <1>2, <2>1 DEF Received, Sent
  <2>2. CASE Answer
    <3>1. /\ acks' = acks \cup {[seq |-> Head(inbox).seq, ok |-> Verdict]}
          /\ inbox # <<>> /\ inbox \in Seq(Requests)
      BY <2>2, AnswerEffect DEF BridgeTypeInv, WireTypeOK
    <3>2. 1 \in DOMAIN inbox /\ inbox[1] = Head(inbox)
      BY <3>1
    <3>3. Head(inbox).seq \in OnItsWay
      BY <3>2 DEF OnItsWay
    <3> QED
      BY <1>2, <3>1, <3>3 DEF Received, Sent
  <2> QED
    BY <2>1, <2>2, AcksStep
<1> QED
  BY <1>1, <1>2 DEF Sent

LEMMA IoQuiet ==
  ASSUME IoStep
  PROVE  UNCHANGED <<next_seq, heirs>> /\ (outgoing' = outgoing \/ outgoing' = call
                                            \/ outgoing' = NoCall)
BY DEF IoStep, RefuseOffline, Arm, ConnectSucceeds, ConnectFails, BackoffEnds, BeginCommand,
       NothingToSend, Send, SendFails, ReceiveError, LoseLink, ReceiveNothing, ReceiveFrame,
       QuietRest, QuietCaller

LEMMA NumberStep ==
  ASSUME BridgeTypeInv, NumberInv, [Next]_vars
  PROVE  NumberInv'
<1> USE DEF NumberInv
<1>1. BridgeTypeInv' /\ CallTypeOK /\ CallTypeOK'
  BY WireTypeStep, FlagTypeStep, CallTypeStep, IoInvStep DEF BridgeTypeInv
<1>2. next_seq \in Nat /\ next_seq' \in Nat /\ next_seq # 0
      /\ outgoing.seq \in Nat /\ call.seq \in Nat
  BY <1>1, RequestFields DEF CallTypeOK
<1>3. ASSUME next_seq' >= next_seq
      PROVE  \A n \in Sent' : n < next_seq'
  <2> SUFFICES ASSUME NEW n \in Sent'
               PROVE  n < next_seq'
    OBVIOUS
  <2>1. n \in Nat /\ n < next_seq
    <3>1. \A r \in Sent : r \in Nat
      BY RequestFields DEF Sent, OnItsWay, Received, BridgeTypeInv, WireTypeOK, Acknowledgements
    <3> QED
      BY <1>2, <3>1, SentStep
  <2> QED
    BY <1>2, <1>3, <2>1
<1>4. ASSUME NEW outcome \in Outcomes, Resolve(outcome)
      PROVE  /\ call'.seq < next_seq
             /\ \A a \in answers' : a.seq < next_seq /\ a.seq # call'.seq /\ a.seq # 0
  BY <1>1, <1>2, <1>4, ResolveEffect, StandingRequest, RequestFields
<1>5. CASE IoStep
  <2>1. UNCHANGED next_seq /\ outgoing'.seq < next_seq
    BY <1>2, <1>5, IoQuiet, RequestFields
  <2>2. /\ call'.seq < next_seq
        /\ \A a \in answers' : a.seq < next_seq /\ a.seq # call'.seq /\ a.seq # 0
    BY <1>4, <1>5, IoOutcomes DEF OutcomeStep
  <2> QED
    BY <1>2, <1>3, <2>1, <2>2
<1>6. CASE \E action \in Actions : Execute(action)
  <2>1. next_seq' = next_seq + 1 /\ call'.seq = next_seq /\ UNCHANGED <<outgoing, answers>>
    BY <1>6 DEF Execute, QuietIo
  <2>2. \A a \in answers : a.seq \in Nat
    BY <1>1 DEF CallTypeOK
  <2> QED
    BY <1>2, <1>3, <2>1, <2>2
<1>7. CASE Abandon
  <2>1. Resolve("TIMEOUT") /\ "TIMEOUT" \in Outcomes /\ UNCHANGED <<next_seq, outgoing>>
    BY <1>7 DEF Abandon, QuietIo, Outcomes
  <2> QED
    BY <1>2, <1>3, <1>4, <2>1
<1>8. CASE ConnectNow \/ ConnectReturns \/ GoStale \/ KrcStep \/ UNCHANGED vars
  <2>1. /\ UNCHANGED <<next_seq, outgoing, answers>>
        /\ call' = call \/ call' = Connecting \/ call' = NoCall
    BY <1>8 DEF ConnectNow, ConnectReturns, GoStale, QuietIo, KrcStep, vars, bridgeVars
  <2>2. call'.seq \in {call.seq, 0}
    BY <2>1, RequestFields
  <2> QED
    BY <1>2, <1>3, <2>1, <2>2
<1> QED
  BY <1>5, <1>6, <1>7, <1>8 DEF Next, ServiceStep

(* How the waiting caller and the command in flight move together.          *)
CallerStep ==
  \/ ~Standing'
  \/ UNCHANGED <<call, pending, heirs>>
  \/ BeginCommand
  \/ \E action \in Actions : Execute(action)

LEMMA CallerStepOfNext ==
  ASSUME BridgeTypeInv, OfflineIsQuiet, [Next]_vars
  PROVE  CallerStep
<1> USE DEF BridgeTypeInv, CallerStep
<1>1. ASSUME NEW outcome \in Outcomes, Resolve(outcome)
      PROVE  ~Standing'
  BY <1>1, ResolveEffect
<1>2. {"ACCEPTED", "REFUSED", "TIMEOUT", "NOT_CONNECTED"} = Outcomes
  BY DEF Outcomes
<1>3. CASE RefuseOffline \/ ConnectFails \/ SendFails \/ Abandon
  <2>1. Resolve("NOT_CONNECTED") \/ Resolve("TIMEOUT")
    BY <1>3 DEF RefuseOffline, ConnectFails, SendFails, Abandon
  <2> QED
    BY <1>1, <1>2, <2>1
<1>4. CASE ReceiveNothing \/ ReceiveFrame \/ ReceiveError
  <2>1. \/ UNCHANGED <<call, pending>>
        \/ \E outcome \in Outcomes : Resolve(outcome)
    BY <1>2, <1>4 DEF ReceiveNothing, ReceiveFrame, OnState, TickSession, ReceiveError, LoseLink,
                      ResetSession
  <2>2. UNCHANGED heirs
    BY <1>4, IoQuiet DEF IoStep
  <2> QED
    BY <1>1, <2>1, <2>2
<1>5. CASE ConnectSucceeds
  <2>1. link = "down" /\ pending' = 0 /\ UNCHANGED <<call, heirs>>
    BY <1>5 DEF ConnectSucceeds, Steps, ResetSession, IoInv, QuietRest, QuietCaller
  <2> QED
    BY <2>1 DEF OfflineIsQuiet
<1>6. CASE Arm \/ BackoffEnds \/ NothingToSend \/ Send
  BY <1>6 DEF Arm, BackoffEnds, NothingToSend, Send, QuietRest, QuietCaller
<1>7. CASE ConnectNow \/ ConnectReturns
  <2>1. call' \in {Connecting, NoCall}
    BY <1>7 DEF ConnectNow, ConnectReturns
  <2> QED
    BY <2>1, RequestFields DEF Standing
<1>8. CASE GoStale \/ KrcStep \/ UNCHANGED vars
  BY <1>8 DEF GoStale, QuietIo, KrcStep, vars, bridgeVars
<1> QED
  BY <1>3, <1>4, <1>5, <1>6, <1>7, <1>8 DEF Next, IoStep, ServiceStep

LEMMA SentInvStep ==
  ASSUME BridgeTypeInv, OfflineIsQuiet, NumberInv, SentInv, [Next]_vars
  PROVE  SentInv'
<1> USE DEF BridgeTypeInv
<1>1. \A n \in Sent' : n \in Sent \/ (Send /\ n = outgoing.seq)
  BY SentStep
<1>2. Send => io = "send" /\ io' = "receive" /\ pending = outgoing.seq
              /\ UNCHANGED <<call, pending>>
  BY DEF Send, Steps, IoInv
<1>3. next_seq \notin Sent /\ (io = "send" => outgoing.seq # next_seq)
  <2>1. next_seq \in Nat /\ outgoing.seq \in Nat
    BY RequestFields DEF CallTypeOK
  <2> QED
    BY <2>1 DEF NumberInv
<1>4. ASSUME Standing', call'.seq \in Sent'
      PROVE  pending' = call'.seq
  <2>1. CASE UNCHANGED <<call, pending, heirs>>
    BY <1>1, <1>2, <1>4, <2>1 DEF SentInv, Standing
  <2>2. CASE BeginCommand
    BY <2>2 DEF BeginCommand
  <2>3. CASE \E action \in Actions : Execute(action)
    <3>1. call'.seq = next_seq /\ ~Send
      <4>1. call'.seq = next_seq /\ call' # call
        BY <2>3, RequestFields DEF Execute, CallTypeOK
      <4> QED
        BY <1>2, <4>1
    <3> QED
      BY <1>1, <1>3, <1>4, <3>1
  <2> QED
    BY <1>4, <2>1, <2>2, <2>3, CallerStepOfNext DEF CallerStep
<1>5. ASSUME io' = "send"
      PROVE  outgoing'.seq \notin Sent'
  <2>1. ~Send
    BY <1>2, <1>5
  <2>2. CASE BeginCommand
    <3>1. Standing /\ pending = 0 /\ outgoing' = call
      BY <2>2 DEF BeginCommand
    <3>2. call.seq \notin Sent
      BY <3>1, StandingRequest DEF SentInv
    <3> QED
      BY <1>1, <2>1, <3>1, <3>2
  <2>3. CASE IoStep /\ ~BeginCommand
    BY <1>5, <2>3 DEF IoStep, RefuseOffline, Arm, ConnectSucceeds, ConnectFails, BackoffEnds,
                      NothingToSend, Send, SendFails, ReceiveError, LoseLink, ReceiveNothing,
                      ReceiveFrame, Steps
  <2>4. CASE ServiceStep \/ KrcStep \/ UNCHANGED vars
    BY <1>1, <1>5, <2>1, <2>4, OthersLeaveIo DEF SentInv
  <2> QED
    BY <2>2, <2>3, <2>4 DEF Next
<1> QED
  BY <1>4, <1>5 DEF SentInv

(* A request that is refused for want of a connection.                      *)
Refuses == (RefuseOffline \/ ConnectFails \/ SendFails) /\ Standing

LEMMA AnswersStep ==
  ASSUME BridgeTypeInv, [Next]_vars, NEW a \in answers', a \notin answers
  PROVE  /\ Standing /\ a.seq = call.seq
         /\ \/ a.outcome = "TIMEOUT"
            \/ a.outcome = "NOT_CONNECTED" /\ Refuses
            \/ /\ a.outcome \in {"ACCEPTED", "REFUSED"}
               /\ ReceiveFrame /\ Acks(Head(down))
               /\ a.outcome = IF Head(down).ok THEN "ACCEPTED" ELSE "REFUSED"
<1> USE DEF BridgeTypeInv
<1>1. ASSUME NEW outcome \in Outcomes, Resolve(outcome)
      PROVE  Standing /\ a.seq = call.seq /\ a.outcome = outcome
  BY <1>1, ResolveEffect
<1>2. {"ACCEPTED", "REFUSED", "TIMEOUT", "NOT_CONNECTED"} = Outcomes
  BY DEF Outcomes
<1>3. CASE RefuseOffline \/ ConnectFails \/ SendFails
  <2>1. Resolve("NOT_CONNECTED")
    BY <1>3 DEF RefuseOffline, ConnectFails, SendFails
  <2> QED
    BY <1>1, <1>2, <1>3, <2>1 DEF Refuses
<1>4. CASE Abandon \/ ReceiveNothing \/ ReceiveError
  <2>1. Resolve("TIMEOUT")
    BY <1>4 DEF Abandon, ReceiveNothing, TickSession, ReceiveError
  <2> QED
    BY <1>1, <1>2, <2>1
<1>5. CASE ReceiveFrame
  <2>1. \/ Resolve("TIMEOUT")
        \/ /\ Acks(Head(down))
           /\ Resolve(IF Head(down).ok THEN "ACCEPTED" ELSE "REFUSED")
    BY <1>5 DEF ReceiveFrame, OnState, TickSession
  <2> QED
    BY <1>1, <1>2, <1>5, <2>1
<1>6. UNCHANGED answers \/ RefuseOffline \/ ConnectFails \/ SendFails \/ Abandon
      \/ ReceiveNothing \/ ReceiveError \/ ReceiveFrame
  BY DEF Next, IoStep, Arm, ConnectSucceeds, BackoffEnds, BeginCommand, NothingToSend, Send,
         ServiceStep, Execute, ConnectNow, ConnectReturns, GoStale, KrcStep, vars, bridgeVars
<1> QED
  BY <1>3, <1>4, <1>5, <1>6

LEMMA RefusedStep ==
  ASSUME BridgeTypeInv, OfflineIsQuiet, NumberInv, SentInv, RefusedInv, [Next]_vars
  PROVE  RefusedInv'
<1> USE DEF BridgeTypeInv
<1>1. SUFFICES ASSUME NEW a \in answers', a.outcome = "NOT_CONNECTED"
               PROVE  a.seq \notin Sent' /\ a.seq # outgoing'.seq
  BY DEF RefusedInv
<1>2. CASE a \in answers
  <2>1. a.seq \notin Sent /\ a.seq # outgoing.seq /\ a.seq # call.seq /\ a.seq # 0
    BY <1>1, <1>2 DEF RefusedInv, NumberInv
  <2>2. outgoing'.seq \in {outgoing.seq, call.seq, 0}
    <3>1. CASE IoStep
      BY <3>1, IoQuiet, RequestFields
    <3>2. CASE ServiceStep \/ KrcStep \/ UNCHANGED vars
      BY <3>2, OthersLeaveIo
    <3> QED
      BY <3>1, <3>2 DEF Next
  <2> QED
    BY <2>1, <2>2, SentStep
<1>3. CASE a \notin answers
  <2>1. Refuses /\ a.seq = call.seq
    BY <1>1, <1>3, AnswersStep
  <2>2. call.seq # 0 /\ call.seq \notin Sent
    BY <2>1, StandingRequest
       DEF Refuses, RefuseOffline, ConnectFails, SendFails, LoseLink, Steps, IoInv,
           OfflineIsQuiet, SentInv
  <2>3. ~Send /\ outgoing' = NoCall
    BY <2>1 DEF Refuses, RefuseOffline, ConnectFails, SendFails, LoseLink, Send, Steps, IoInv,
                QuietRest
  <2> QED
    BY <2>1, <2>2, <2>3, SentStep, RequestFields
<1> QED
  BY <1>2, <1>3

LEMMA DeliveryInvariant == Spec => []DeliveryInv
<1>1. Init => DeliveryInv
  <2> SUFFICES ASSUME Init
               PROVE  DeliveryInv
    OBVIOUS
  <2>1. Sent = {} /\ answers = {} /\ call = NoCall /\ outgoing = NoCall /\ next_seq = 1
        /\ io = "top"
    BY DEF Init, KrcInit, Sent, OnItsWay, Received
  <2> QED
    BY <2>1, RequestFields DEF DeliveryInv, NumberInv, SentInv, RefusedInv, Standing
<1>2. BridgeTypeInv /\ OfflineIsQuiet /\ DeliveryInv /\ [Next]_vars => DeliveryInv'
  BY NumberStep, SentInvStep, RefusedStep DEF DeliveryInv
<1> QED
  BY <1>1, <1>2, BridgeTypesInvariant, OfflineInvariant, PTL DEF Spec

(* A command that was answered with "not connected" has not been executed   *)
(* and never will be: it is neither in the channel nor in the program, and  *)
(* the io thread does not hold it (eki_bridge_runtime.cpp, run() and        *)
(* execute()).                                                              *)
THEOREM RefusedNeverSent == Spec => []RefusedNeverRuns
<1>1. DeliveryInv => RefusedNeverRuns
  BY DEF DeliveryInv, RefusedInv, Sent, OnItsWay, Received, RefusedNeverRuns
<1> QED
  BY <1>1, DeliveryInvariant, PTL

LEMMA HeirStep ==
  ASSUME BridgeTypeInv, OfflineIsQuiet, HeirInv, [Next]_vars
  PROVE  HeirInv'
<1>1. CASE ~Standing'
  BY <1>1 DEF HeirInv
<1>2. CASE UNCHANGED <<call, pending, heirs>>
  BY <1>2 DEF HeirInv, Standing
<1>3. CASE BeginCommand
  BY <1>3 DEF BeginCommand, HeirInv
<1>4. CASE \E action \in Actions : Execute(action)
  <2>1. call'.seq = next_seq /\ pending' = pending
        /\ (pending # 0 => heirs' = heirs \cup {next_seq})
    BY <1>4 DEF Execute, QuietIo
  <2> QED
    BY <2>1 DEF HeirInv
<1> QED
  BY <1>1, <1>2, <1>3, <1>4, CallerStepOfNext DEF CallerStep

LEMMA HistoryGrows ==
  ASSUME BridgeTypeInv, [Next]_vars
  PROVE  acks \subseteq acks' /\ heirs \subseteq heirs'
<1>1. acks \subseteq acks'
  BY AcksStep, AnswerEffect DEF BridgeTypeInv
<1>2. heirs \subseteq heirs'
  <2>1. CASE IoStep
    BY <2>1, IoQuiet
  <2>2. CASE ServiceStep \/ KrcStep \/ UNCHANGED vars
    BY <2>2 DEF ServiceStep, Execute, Abandon, ConnectNow, ConnectReturns, GoStale, KrcStep,
                vars, bridgeVars
  <2> QED
    BY <2>1, <2>2 DEF Next
<1> QED
  BY <1>1, <1>2

LEMMA FramesStep ==
  ASSUME BridgeTypeInv, FramesInv, [Next]_vars
  PROVE  FramesInv'
<1> DEFINE Good(f, known) == f.ack # 0 => [seq |-> f.ack, ok |-> f.ok] \in known
<1>1. down \in Seq(Frames) /\ \A i \in DOMAIN down : Good(down[i], acks')
  BY HistoryGrows DEF FramesInv, BridgeTypeInv, WireTypeOK
<1>2. SUFFICES ASSUME NEW i \in DOMAIN down'
               PROVE  Good(down'[i], acks')
  BY DEF FramesInv
<1>3. ASSUME NEW f \in Frames, Good(f, acks'), down' = Append(down, f)
      PROVE  Good(down'[i], acks')
  <2>1. (i \in DOMAIN down /\ down'[i] = down[i]) \/ down'[i] = f
    BY <1>1, <1>3
  <2> QED
    BY <1>1, <1>3, <2>1
<1>4. CASE Answer
  <2>1. PICK f : f = [ack |-> Head(inbox).seq, ok |-> Verdict, rsi |-> correcting']
    OBVIOUS
  <2>2. f \in Frames /\ Good(f, acks')
    BY <1>4, <2>1, AnswerEffect, FrameType, RequestFields DEF BridgeTypeInv
  <2>3. UNCHANGED down \/ down' = Append(down, f)
    BY <1>4, <2>1, AnswerEffect DEF BridgeTypeInv
  <2> QED
    BY <1>1, <1>3, <2>2, <2>3
<1>5. CASE Heartbeat
  <2>1. PICK f : f = [ack |-> 0, ok |-> TRUE, rsi |-> FALSE]
    OBVIOUS
  <2>2. f \in Frames /\ Good(f, acks')
    BY <2>1, FrameType
  <2>3. UNCHANGED down \/ down' = Append(down, f)
    BY <1>5, <2>1 DEF Heartbeat, SendState
  <2> QED
    BY <1>1, <1>3, <2>2, <2>3
<1>6. CASE UNCHANGED down \/ down' = <<>>
  BY <1>1, <1>6
<1>7. CASE down # <<>> /\ down' = Tail(down)
  <2>1. i + 1 \in DOMAIN down /\ down'[i] = down[i + 1]
    BY <1>1, <1>7
  <2> QED
    BY <1>1, <2>1
<1>8. CASE \E kept \in 0 .. Len(down) : down' = SubSeq(down, 1, kept)
  <2>1. i \in DOMAIN down /\ down'[i] = down[i]
    BY <1>1, <1>8
  <2> QED
    BY <1>1, <2>1
<1> QED
  BY <1>4, <1>5, <1>6, <1>7, <1>8, WireSteps DEF DownStep

LEMMA VerdictStep ==
  ASSUME BridgeTypeInv, HeirInv, FramesInv, VerdictIsControllers, [Next]_vars
  PROVE  VerdictIsControllers'
<1>1. SUFFICES ASSUME NEW a \in answers'
               PROVE  a.seq \in heirs' \/ IsAnswered(a)'
  BY DEF VerdictIsControllers
<1>2. CASE a \in answers
  BY <1>2, HistoryGrows DEF VerdictIsControllers, IsAnswered
<1>3. CASE a \notin answers /\ a.outcome \in {"TIMEOUT", "NOT_CONNECTED"}
  BY <1>3 DEF IsAnswered
<1>4. CASE a \notin answers /\ a.outcome \notin {"TIMEOUT", "NOT_CONNECTED"}
  <2>1. /\ Standing /\ a.seq = call.seq /\ ReceiveFrame /\ Acks(Head(down))
        /\ a.outcome = IF Head(down).ok THEN "ACCEPTED" ELSE "REFUSED"
    BY <1>4, AnswersStep
  <2>2. PICK f \in Frames : f = Head(down) /\ f = down[1] /\ 1 \in DOMAIN down
    BY <2>1 DEF ReceiveFrame, BridgeTypeInv, WireTypeOK
  <2>3. f.ack = pending /\ pending # 0 /\ f.ok \in BOOLEAN
    BY <2>1, <2>2 DEF Acks, Frames
  <2>4. [seq |-> f.ack, ok |-> f.ok] \in acks'
    BY <2>2, <2>3, HistoryGrows DEF FramesInv
  <2>5. CASE pending = call.seq
    <3>1. CASE f.ok
      <4>1. a.outcome = "ACCEPTED" /\ [seq |-> a.seq, ok |-> TRUE] \in acks'
        BY <2>1, <2>2, <2>3, <2>4, <2>5, <3>1
      <4> QED
        BY <4>1 DEF IsAnswered
    <3>2. CASE ~f.ok
      <4>1. a.outcome = "REFUSED" /\ [seq |-> a.seq, ok |-> FALSE] \in acks'
        BY <2>1, <2>2, <2>3, <2>4, <2>5, <3>2
      <4> QED
        BY <4>1 DEF IsAnswered
    <3> QED
      BY <3>1, <3>2
  <2>6. CASE pending # call.seq
    BY <2>1, <2>3, <2>6, HistoryGrows DEF HeirInv
  <2> QED
    BY <2>5, <2>6
<1> QED
  BY <1>2, <1>3, <1>4

(* An accepted or refused command got that very answer from the program,    *)
(* unless it was posted while an abandoned one was still in flight: however *)
(* frames are delayed and whatever a lost connection leaves in the channel  *)
(* (eki_session_core.cpp, correlated by Ack.Seq).                           *)
THEOREM VerdictAlwaysControllers == Spec => []VerdictIsControllers
<1>1. Init => VerdictInv
  <2> SUFFICES ASSUME Init
               PROVE  VerdictInv
    OBVIOUS
  <2>1. down = <<>> /\ answers = {} /\ call = NoCall
    BY DEF Init, KrcInit
  <2> QED
    BY <2>1, RequestFields DEF VerdictInv, HeirInv, FramesInv, VerdictIsControllers, Standing
<1>2. BridgeTypeInv /\ OfflineIsQuiet /\ VerdictInv /\ [Next]_vars => VerdictInv'
  BY HeirStep, FramesStep, VerdictStep DEF VerdictInv
<1>3. VerdictInv => VerdictIsControllers
  BY DEF VerdictInv
<1> QED
  BY <1>1, <1>2, <1>3, BridgeTypesInvariant, OfflineInvariant, PTL DEF Spec

=============================================================================
