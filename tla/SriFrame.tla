------------------------------ MODULE SriFrame ------------------------------
(***************************************************************************)
(* SriFrameAssembler: the bytes of the sensor's stream, one at a time, in; *)
(* samples out.  A byte is its value and, for the properties, its place in *)
(* the frame it was sent in (0 outside of one) and whether that frame is   *)
(* intact.  The payload is scaled down; its last byte stands for the sum.  *)
(***************************************************************************)
EXTENDS Naturals, Sequences

CONSTANTS
  PayloadLen,   (* kPayloadLen, 27 in the code                              *)
  Payloads,     (* the payloads that occur, as sequences of values          *)
  Hits          (* the places at which a frame may be damaged               *)

Header == <<"AA", "55", "00", "1B">>
FrameLen == Len(Header) + PayloadLen

ASSUME FrameAssumption ==
  /\ PayloadLen \in Nat \ {0}
  /\ \A p \in Payloads : p \in Seq(STRING) /\ Len(p) = PayloadLen
  /\ Hits \subseteq 1 .. FrameLen

(* The frame of a payload, damaged at a place or, with 0, nowhere.          *)
Frame(payload, hit) ==
  [i \in 1 .. FrameLen |->
     [v |-> IF i = hit THEN "xx" ELSE (Header \o payload)[i], place |-> i, intact |-> hit = 0]]

Frames == {Frame(p, h) : p \in Payloads, h \in Hits \cup {0}}

(* The ASCII answer to the start command holds no sync byte.                *)
Ack == <<[v |-> "xx", place |-> 0, intact |-> FALSE]>>

AssemblerStates == {"SYNC1", "SYNC2", "LEN_HIGH", "LEN_LOW", "PAYLOAD"}

(* high: the first length byte was right.  whole: how many bytes up to the  *)
(* last one are those of one intact frame from its first byte on.           *)
Hunting == [state |-> "SYNC1", fill |-> 0, high |-> FALSE, whole |-> 0]

Whole(a, b) ==
  IF b.intact /\ b.place \in {1, a.whole + 1} THEN b.place ELSE 0

Enter(a, b, state) ==
  [state |-> state, fill |-> 0, high |-> FALSE, whole |-> Whole(a, b)]

(* Mutant: a second AA is skipped together with the first.                  *)
AfterSync1Forgets(v) == IF v = "55" THEN "LEN_HIGH" ELSE "SYNC1"

(* After an AA: one that was noise may be followed by the one that is not.  *)
AfterSync1(v) == IF v = "55" THEN "LEN_HIGH" ELSE IF v = "AA" THEN "SYNC2" ELSE "SYNC1"

Completes(a) == a.state = "PAYLOAD" /\ a.fill + 1 = PayloadLen

(* One byte through the state machine.                                      *)
Fed(a, b) ==
  CASE a.state = "SYNC1"    -> Enter(a, b, IF b.v = "AA" THEN "SYNC2" ELSE "SYNC1")
    [] a.state = "SYNC2"    -> Enter(a, b, AfterSync1(b.v))
    [] a.state = "LEN_HIGH" -> [Enter(a, b, "LEN_LOW") EXCEPT !.high = b.v = "00"]
    [] a.state = "LEN_LOW"  -> Enter(a, b, IF a.high /\ b.v = "1B" THEN "PAYLOAD" ELSE "SYNC1")
    [] a.state = "PAYLOAD"  -> IF Completes(a) THEN Enter(a, b, "SYNC1")
                               ELSE [Enter(a, b, "PAYLOAD") EXCEPT !.fill = a.fill + 1]

(* The byte completes a payload that is an intact frame's own.              *)
IsFrame(a, b) == Completes(a) /\ Whole(a, b) = FrameLen

(* The sum has eight bits: that of other bytes may fit by chance.           *)
SumFits(a, b) == IF IsFrame(a, b) THEN {TRUE} ELSE IF Completes(a) THEN BOOLEAN ELSE {FALSE}

(* The header just taken is not that of a frame.                            *)
FalseHeader(a, b) == Fed(a, b).state = "LEN_HIGH" /\ b.place # 2

=============================================================================
