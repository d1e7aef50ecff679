------------------------------ MODULE EkiBridge ------------------------------
(***************************************************************************)
(* kuka_eki_bridge: EkiBridgeRuntime with its EkiSessionCore, connected to *)
(* the program on the robot controller.  Two threads: the service thread   *)
(* of the node, which waits in execute() or in connectNow(), and the io    *)
(* thread, which owns the transport.  A section under mutex_ is one        *)
(* action; the transport calls between the sections are steps of the io    *)
(* thread.                                                                 *)
(*                                                                         *)
(* A timeout of the session fires at any moment.  The deadline of          *)
(* execute() is one second longer, so it comes first only for a request    *)
(* that spent that second waiting for a connection (waited).  One frame is *)
(* taken per receive: a batch is a run of receives.                        *)
(***************************************************************************)
EXTENDS KrcProgram

CONSTANTS
  MaxCommands,  (* bound: calls of execute()                                *)
  Actions,      (* the actions that the services request                    *)
  AutoModes     (* the values of auto_reconnect                             *)

ASSUME EkiAssumption ==
  /\ MaxCommands \in Nat
  /\ MaxFrames \in Nat
  /\ Actions \subseteq KrlActions
  /\ AutoModes \subseteq BOOLEAN

VARIABLES
  auto_reconnect,
  io,                 (* where the io thread is                             *)
  outgoing,           (* cmd_buf: the command that it sends                 *)
  connected, connect_requested,
  pending,            (* session_: the sequence number in flight, or 0      *)
  last, fresh,        (* session_: last_state, and it has not aged          *)
  call,               (* the service thread: the request it waits for       *)
  waited,             (* the request has waited for a connection            *)
  next_seq,
  answers,            (* history: what execute() returned, by number        *)
  heirs               (* history: requests posted with another in flight    *)

bridgeVars == <<auto_reconnect, io, outgoing, connected, connect_requested, pending, last, fresh,
                call, waited, next_seq, answers, heirs>>
vars == <<krcVars, bridgeVars>>

NoState == [ack |-> 0, ok |-> FALSE, rsi |-> FALSE]
NoCall == [seq |-> 0, action |-> "none"]
Connecting == [seq |-> 0, action |-> "connect"]

(* req_active_ and no result yet.                                           *)
Standing == call.seq # 0

Init ==
  /\ KrcInit
  /\ auto_reconnect \in AutoModes
  /\ io = "top"
  /\ outgoing = NoCall
  /\ connected = FALSE
  /\ connect_requested = FALSE
  /\ pending = 0
  /\ last = NoState
  /\ fresh = FALSE
  /\ call = NoCall
  /\ waited = FALSE
  /\ next_seq = 1
  /\ answers = {}
  /\ heirs = {}

-----------------------------------------------------------------------------
(* EkiSessionCore.                                                          *)

(* Mutant: the reset marks "none" as it marks the age of no frame, by -1.   *)
ResetToMinusOne ==
  /\ pending' = 0 - 1
  /\ last' = NoState
  /\ fresh' = FALSE

ResetSession ==
  /\ pending' = 0
  /\ last' = NoState
  /\ fresh' = FALSE

(* resolveLocked(): the waiting request, if there is one, gets its outcome. *)
Resolve(outcome) ==
  IF Standing
  THEN /\ answers' = answers \cup {[seq |-> call.seq, outcome |-> outcome]}
       /\ call' = NoCall
  ELSE UNCHANGED <<answers, call>>

(* tick(): the command in flight may have run out of time.                  *)
TickSession ==
  \/ UNCHANGED <<pending, answers, call>>
  \/ /\ pending # 0
     /\ pending' = 0
     /\ Resolve("TIMEOUT")

(* Mutant: any answer of the controller is taken for the one in flight.     *)
AnyAck(f) == pending # 0 /\ f.ack # 0

Acks(f) == pending # 0 /\ f.ack = pending

OnState(f) ==
  /\ last' = f
  /\ fresh' = TRUE
  /\ \/ /\ Acks(f)
        /\ pending' = 0
        /\ Resolve(IF f.ok THEN "ACCEPTED" ELSE "REFUSED")
     \/ ~Acks(f) /\ TickSession

-----------------------------------------------------------------------------
(* The io thread.                                                           *)

Steps(from, to) == io = from /\ io' = to

QuietKrc == UNCHANGED krcVars
QuietCaller == UNCHANGED <<auto_reconnect, next_seq, heirs>>
QuietRest == QuietCaller /\ UNCHANGED outgoing

(* Without a connection and without a wish for one, requests are refused.   *)
RefuseOffline ==
  /\ link = "down"
  /\ ~auto_reconnect /\ ~connect_requested
  /\ Steps("top", "top")
  /\ connected' = FALSE
  /\ Resolve("NOT_CONNECTED")
  /\ UNCHANGED <<connect_requested, pending, last, fresh, waited>> /\ QuietKrc /\ QuietRest

(* Mutant: only a manual request makes the bridge connect.                  *)
ArmManually ==
  /\ link = "down"
  /\ connect_requested
  /\ Steps("top", "attempt")
  /\ connected' = FALSE
  /\ UNCHANGED <<connect_requested, pending, last, fresh, call, waited, answers>>
  /\ QuietKrc /\ QuietRest

Arm ==
  /\ link = "down"
  /\ auto_reconnect \/ connect_requested
  /\ Steps("top", "attempt")
  /\ connected' = FALSE
  /\ UNCHANGED <<connect_requested, pending, last, fresh, call, waited, answers>>
  /\ QuietKrc /\ QuietRest

ConnectSucceeds ==
  /\ Steps("attempt", "top")
  /\ link' = "up"
  /\ down' = <<>>
  /\ ResetSession
  /\ connected' = TRUE
  /\ connect_requested' = FALSE
  /\ waited' = Standing
  /\ UNCHANGED <<inbox, correcting, fault, acks, call, answers>> /\ QuietRest

ConnectFails ==
  /\ Steps("attempt", "backoff")
  /\ Resolve("NOT_CONNECTED")
  /\ UNCHANGED <<connected, connect_requested, pending, last, fresh, waited>>
  /\ QuietKrc /\ QuietRest

BackoffEnds ==
  /\ Steps("backoff", "top")
  /\ UNCHANGED <<connected, connect_requested, pending, last, fresh, call, waited, answers>>
  /\ QuietKrc /\ QuietRest

(* A request is taken up once no command is in flight.                      *)
BeginCommand ==
  /\ link # "down"
  /\ Standing /\ pending = 0
  /\ Steps("top", "send")
  /\ pending' = call.seq
  /\ outgoing' = call
  /\ UNCHANGED <<connected, connect_requested, last, fresh, call, waited, answers>>
  /\ QuietKrc /\ QuietCaller

NothingToSend ==
  /\ link # "down"
  /\ ~Standing \/ pending # 0
  /\ Steps("top", "receive")
  /\ UNCHANGED <<connected, connect_requested, pending, last, fresh, call, waited, answers>>
  /\ QuietKrc /\ QuietRest

(* A send into a lost connection succeeds as long as nobody notices.        *)
Send ==
  /\ Steps("send", "receive")
  /\ inbox' = IF link = "up" THEN Append(inbox, outgoing) ELSE inbox
  /\ UNCHANGED <<link, down, correcting, fault, acks>>
  /\ outgoing' = NoCall
  /\ UNCHANGED <<connected, connect_requested, pending, last, fresh, call, waited, answers>>
  /\ QuietCaller

(* Mutant: a lost connection leaves the session as it is.                   *)
LoseLinkOnly(from) ==
  /\ link = "broken"
  /\ Steps(from, "top")
  /\ link' = "down"
  /\ down' = <<>>
  /\ connected' = FALSE
  /\ outgoing' = NoCall
  /\ UNCHANGED <<pending, last, fresh>>
  /\ UNCHANGED <<inbox, correcting, fault, acks, connect_requested, waited>> /\ QuietCaller

(* The transport closes itself and the session starts afresh.               *)
LoseLink(from) ==
  /\ link = "broken"
  /\ Steps(from, "top")
  /\ link' = "down"
  /\ down' = <<>>
  /\ connected' = FALSE
  /\ ResetSession
  /\ outgoing' = NoCall
  /\ UNCHANGED <<inbox, correcting, fault, acks, connect_requested, waited>> /\ QuietCaller

SendFails == LoseLink("send") /\ Resolve("NOT_CONNECTED")

(* Mutant: a lost connection fails nobody; the request stands and is sent   *)
(* anew or refused.                                                         *)
ErrorForgetsRequest == LoseLink("receive") /\ UNCHANGED <<answers, call>>

(* A request that waits behind the command in flight is failed with it.     *)
ReceiveError ==
  /\ LoseLink("receive")
  /\ IF pending # 0 THEN Resolve("TIMEOUT") ELSE UNCHANGED <<answers, call>>

ReceiveNothing ==
  /\ link # "down"
  /\ Steps("receive", "top")
  /\ TickSession
  /\ UNCHANGED <<connected, connect_requested, last, fresh, waited>> /\ QuietKrc /\ QuietRest

ReceiveFrame ==
  /\ link # "down"
  /\ down # <<>>
  /\ Steps("receive", "top")
  /\ down' = Tail(down)
  /\ OnState(Head(down))
  /\ UNCHANGED <<link, inbox, correcting, fault, acks, connected, connect_requested, waited>>
  /\ QuietRest

IoStep ==
  \/ RefuseOffline
  \/ Arm
  \/ ConnectSucceeds
  \/ ConnectFails
  \/ BackoffEnds
  \/ BeginCommand
  \/ NothingToSend
  \/ Send
  \/ SendFails
  \/ ReceiveError
  \/ ReceiveNothing
  \/ ReceiveFrame

-----------------------------------------------------------------------------
(* The service thread, and time.                                            *)

QuietIo == UNCHANGED <<auto_reconnect, io, outgoing, connected, pending, last>>

(* execute() posts its request.  next_seq_ wraps at 2^32 past 0, the number *)
(* of the heartbeats, which MaxCommands keeps out of reach.                 *)
Execute(action) ==
  /\ call = NoCall
  /\ next_seq <= MaxCommands
  /\ call' = [seq |-> next_seq, action |-> action]
  /\ next_seq' = next_seq + 1
  /\ waited' = FALSE
  /\ heirs' = IF pending # 0 THEN heirs \cup {next_seq} ELSE heirs
  /\ UNCHANGED <<connect_requested, fresh, answers>> /\ QuietKrc /\ QuietIo

(* The deadline of execute() passes; the session keeps the command.         *)
Abandon ==
  /\ Standing /\ waited /\ pending = call.seq
  /\ Resolve("TIMEOUT")
  /\ UNCHANGED <<connect_requested, fresh, waited, next_seq, heirs>> /\ QuietKrc /\ QuietIo

ConnectNow ==
  /\ call = NoCall
  /\ call' = Connecting
  /\ connect_requested' = TRUE
  /\ UNCHANGED <<fresh, waited, next_seq, answers, heirs>> /\ QuietKrc /\ QuietIo

(* connectNow() returns connected, or withdraws its request on timeout.     *)
ConnectReturns ==
  /\ call = Connecting
  /\ call' = NoCall
  /\ connect_requested' = (connected /\ connect_requested)
  /\ UNCHANGED <<fresh, waited, next_seq, answers, heirs>> /\ QuietKrc /\ QuietIo

(* The last state frame ages beyond state_timeout_s.                        *)
GoStale ==
  /\ fresh' = FALSE
  /\ UNCHANGED <<connect_requested, call, waited, next_seq, answers, heirs>>
  /\ QuietKrc /\ QuietIo

ServiceStep ==
  \/ \E action \in Actions : Execute(action)
  \/ Abandon
  \/ ConnectNow
  \/ ConnectReturns
  \/ GoStale

KrcStep == KrcNext /\ UNCHANGED bridgeVars

Next == IoStep \/ ServiceStep \/ KrcStep

Spec == Init /\ [][Next]_vars

(* The io thread never stops, and the controller accepts a connection if it *)
(* is asked again and again.                                                *)
FairSpec == Spec /\ WF_vars(IoStep) /\ SF_vars(ConnectSucceeds)

-----------------------------------------------------------------------------
(* Properties.                                                              *)

Outcomes == {"ACCEPTED", "REFUSED", "TIMEOUT", "NOT_CONNECTED"}

EkiTypeOK ==
  /\ link \in {"down", "up", "broken"}
  /\ io \in {"top", "attempt", "backoff", "send", "receive"}
  /\ inbox \in Seq([seq : Nat, action : Actions])
  /\ down \in Seq([ack : Nat, ok : BOOLEAN, rsi : BOOLEAN])
  /\ {correcting, fault, auto_reconnect, connected, connect_requested, fresh, waited}
       \subseteq BOOLEAN
  /\ call \in [seq : Nat, action : Actions \cup {"none", "connect"}]
  /\ outgoing \in [seq : Nat, action : Actions \cup {"none"}]
  /\ pending \in Nat /\ next_seq \in Nat
  /\ heirs \subseteq Nat
  /\ answers \subseteq [seq : Nat, outcome : Outcomes]

IsAnswered(a) ==
  /\ a.outcome = "ACCEPTED" => [seq |-> a.seq, ok |-> TRUE] \in acks
  /\ a.outcome = "REFUSED" => [seq |-> a.seq, ok |-> FALSE] \in acks

(* The verdict of a command is the controller's answer to that very command *)
(* (comment of EkiSessionCore: correlated by Ack.Seq), whatever is lost,    *)
(* late or left in the channel by a lost connection.  An heir, a request    *)
(* posted while an abandoned command is still in flight, is excepted: the   *)
(* late answer or timeout of that command resolves it.                      *)
VerdictIsControllers == \A a \in answers : a.seq \in heirs \/ IsAnswered(a)

(* "Not connected" is final: such a command has not been executed, and it   *)
(* is not on its way, to be executed behind the back of its caller.         *)
RefusedNeverRuns ==
  \A a \in answers : a.outcome = "NOT_CONNECTED" =>
    /\ \A k \in acks : k.seq # a.seq
    /\ \A i \in DOMAIN inbox : inbox[i].seq # a.seq

(* No command can be pending while disconnected (comment in run()), and     *)
(* nothing is left of the view of the lost connection.                      *)
OfflineIsQuiet == link = "down" => pending = 0 /\ ~connected /\ ~fresh

(* A fresh view that denies an RSI session is right, but for frames still   *)
(* on their way: the manager masks rsi faults on its word.                  *)
FreshViewIsCurrent ==
  link = "up" /\ fresh /\ ~last.rsi /\ correcting =>
    \E i \in DOMAIN down : down[i].rsi

(* With auto_reconnect the bridge always gets back to the controller.       *)
LinkRecovers == auto_reconnect /\ ~connected ~> connected

=============================================================================
