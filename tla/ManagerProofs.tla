---------------------------- MODULE ManagerProofs ----------------------------
(***************************************************************************)
(* The manager, for every stream of feeds, every order of commands, every  *)
(* failure of a side effect and every calibration.                         *)
(*                                                                         *)
(* What the commands of an impatient operator can break is promised to a   *)
(* Patient one only; what a reset or a calibration under a run can break,  *)
(* only while no run is entangled: each theorem and property says so.      *)
(*                                                                         *)
(* The invariants are layered, each on those before it: StructInv (types,  *)
(* steps of a command, order of a pass), OrphanInv, FlagInv and TareInv    *)
(* (the state machine), RestInv (a run is supervised), ClearInv (no        *)
(* command under a run), DriveInv (what runs and has been told),           *)
(* PayloadInv, LoadInv and RunInv.                                         *)
(***************************************************************************)
EXTENDS Manager, SequenceTheorems, TLAPS

-----------------------------------------------------------------------------
(* The side effects of a pass are in the order in which the worker runs     *)
(* them, so that what is left is known by its set.                          *)

Rank(step) ==
  CASE step = "tool"   -> 1
    [] step = "goal"   -> 2
    [] step = "unload" -> 3
    [] step = "reload" -> 4
    [] step = "idle"   -> 5
    [] step = "query"  -> 6
    [] step = "switch" -> 7
    [] step = "finish" -> 8

Ordered(todo) ==
  /\ todo \in Seq(WorkerSteps)
  /\ \A i, j \in 1 .. Len(todo) : i < j => Rank(todo[i]) < Rank(todo[j])

LEMMA RankType ==
  ASSUME NEW s \in WorkerSteps
  PROVE  Rank(s) \in 1 .. 8
BY DEF WorkerSteps, Rank

LEMMA RankInjective ==
  ASSUME NEW s \in WorkerSteps, NEW t \in WorkerSteps, Rank(s) = Rank(t)
  PROVE  s = t
BY DEF WorkerSteps, Rank

LEMMA StepsType ==
  ASSUME NEW todo, Ordered(todo)
  PROVE  /\ Len(todo) \in Nat
         /\ StepsOf(todo) \subseteq WorkerSteps
         /\ \A i \in 1 .. Len(todo) : todo[i] \in WorkerSteps
         /\ todo = <<>> <=> StepsOf(todo) = {}
         /\ todo # <<>> => Len(todo) >= 1
<1>1. Len(todo) \in Nat /\ \A i \in 1 .. Len(todo) : todo[i] \in WorkerSteps
  BY LenProperties DEF Ordered
<1>2. todo = <<>> <=> Len(todo) = 0
  BY EmptySeq DEF Ordered
<1> QED
  BY <1>1, <1>2 DEF StepsOf

(* The first of the steps is the one of the lowest rank; the others remain. *)
LEMMA TailSteps ==
  ASSUME NEW todo, Ordered(todo), todo # <<>>
  PROVE  /\ Ordered(Tail(todo))
         /\ Head(todo) \in StepsOf(todo)
         /\ StepsOf(Tail(todo)) = StepsOf(todo) \ {Head(todo)}
         /\ \A s \in StepsOf(todo) : Rank(Head(todo)) <= Rank(s)
<1>1. /\ Len(todo) \in Nat /\ Len(todo) >= 1
      /\ \A i \in 1 .. Len(todo) : todo[i] \in WorkerSteps
  BY StepsType
<1>2. /\ Tail(todo) \in Seq(WorkerSteps) /\ Len(Tail(todo)) = Len(todo) - 1
      /\ \A i \in 1 .. Len(todo) - 1 : Tail(todo)[i] = todo[i + 1]
  BY HeadTailProperties DEF Ordered
<1>3. Head(todo) = todo[1] /\ 1 \in 1 .. Len(todo)
  BY <1>1
<1>4. \A i \in 2 .. Len(todo) : Rank(todo[1]) < Rank(todo[i])
  BY <1>1 DEF Ordered
<1>5. Ordered(Tail(todo))
  <2> SUFFICES ASSUME NEW i \in 1 .. Len(todo) - 1, NEW j \in 1 .. Len(todo) - 1, i < j
               PROVE  Rank(Tail(todo)[i]) < Rank(Tail(todo)[j])
    BY <1>2 DEF Ordered
  <2>1. i + 1 \in 1 .. Len(todo) /\ j + 1 \in 1 .. Len(todo) /\ i + 1 < j + 1
    BY <1>1
  <2> QED
    BY <1>2, <2>1 DEF Ordered
<1>6. StepsOf(Tail(todo)) = {todo[i] : i \in 2 .. Len(todo)}
  <2>1. \A i \in 1 .. Len(todo) - 1 : i + 1 \in 2 .. Len(todo) /\ Tail(todo)[i] = todo[i + 1]
    BY <1>1, <1>2
  <2>2. \A i \in 2 .. Len(todo) : i - 1 \in 1 .. Len(todo) - 1 /\ Tail(todo)[i - 1] = todo[i]
    BY <1>1, <1>2
  <2> QED
    BY <1>2, <2>1, <2>2 DEF StepsOf
<1>7. \A i \in 2 .. Len(todo) : todo[i] # todo[1]
  BY <1>1, <1>3, <1>4, RankType
<1>8. StepsOf(todo) = {todo[1]} \cup {todo[i] : i \in 2 .. Len(todo)}
  BY <1>1 DEF StepsOf
<1>9. \A s \in StepsOf(todo) : Rank(todo[1]) <= Rank(s)
  BY <1>1, <1>3, <1>4, RankType DEF StepsOf
<1> QED
  BY <1>3, <1>5, <1>6, <1>7, <1>8, <1>9

LEMMA OrderedConcat ==
  ASSUME NEW s, NEW t, Ordered(s), Ordered(t),
         \A a \in StepsOf(s), b \in StepsOf(t) : Rank(a) < Rank(b)
  PROVE  Ordered(s \o t) /\ StepsOf(s \o t) = StepsOf(s) \cup StepsOf(t)
<1>1. /\ Len(s) \in Nat /\ Len(t) \in Nat
      /\ s \in Seq(WorkerSteps) /\ t \in Seq(WorkerSteps)
  BY StepsType DEF Ordered
<1>2. /\ s \o t \in Seq(WorkerSteps) /\ Len(s \o t) = Len(s) + Len(t)
      /\ \A i \in 1 .. Len(s) + Len(t) :
           (s \o t)[i] = IF i <= Len(s) THEN s[i] ELSE t[i - Len(s)]
  BY <1>1, ConcatProperties
<1>3. ASSUME NEW i \in 1 .. Len(s) + Len(t), NEW j \in 1 .. Len(s) + Len(t), i < j
      PROVE  Rank((s \o t)[i]) < Rank((s \o t)[j])
  <2>1. CASE j <= Len(s)
    <3>1. i \in 1 .. Len(s) /\ j \in 1 .. Len(s)
      BY <1>1, <1>3, <2>1
    <3>2. (s \o t)[i] = s[i] /\ (s \o t)[j] = s[j]
      BY <1>2, <3>1
    <3> QED
      BY <1>3, <3>1, <3>2 DEF Ordered
  <2>2. CASE i <= Len(s) /\ j > Len(s)
    <3>1. i \in 1 .. Len(s) /\ j - Len(s) \in 1 .. Len(t)
      BY <1>1, <2>2
    <3>2. (s \o t)[i] = s[i] /\ (s \o t)[j] = t[j - Len(s)]
      BY <1>1, <1>2, <2>2
    <3>3. s[i] \in StepsOf(s) /\ t[j - Len(s)] \in StepsOf(t)
      BY <3>1 DEF StepsOf
    <3> QED
      BY <3>2, <3>3
  <2>3. CASE i > Len(s)
    <3>1. i - Len(s) \in 1 .. Len(t) /\ j - Len(s) \in 1 .. Len(t) /\ i - Len(s) < j - Len(s)
      BY <1>1, <1>3, <2>3
    <3>2. (s \o t)[i] = t[i - Len(s)] /\ (s \o t)[j] = t[j - Len(s)]
      BY <1>1, <1>2, <1>3, <2>3
    <3> QED
      BY <3>1, <3>2 DEF Ordered
  <2> QED
    BY <1>1, <2>1, <2>2, <2>3
<1>4. StepsOf(s \o t) \subseteq StepsOf(s) \cup StepsOf(t)
  <2> SUFFICES ASSUME NEW i \in 1 .. Len(s) + Len(t)
               PROVE  (s \o t)[i] \in StepsOf(s) \cup StepsOf(t)
    BY <1>2 DEF StepsOf
  <2>1. CASE i <= Len(s)
    <3>1. i \in 1 .. Len(s)
      BY <1>1, <2>1
    <3> QED
      BY <1>2, <2>1, <3>1 DEF StepsOf
  <2>2. CASE i > Len(s)
    <3>1. i - Len(s) \in 1 .. Len(t) /\ (s \o t)[i] = t[i - Len(s)]
      BY <1>1, <1>2, <2>2
    <3> QED
      BY <3>1 DEF StepsOf
  <2> QED
    BY <1>1, <2>1, <2>2
<1>5. StepsOf(s) \cup StepsOf(t) \subseteq StepsOf(s \o t)
  <2>1. \A i \in 1 .. Len(s) : i \in 1 .. Len(s) + Len(t) /\ (s \o t)[i] = s[i]
    BY <1>1, <1>2
  <2>2. \A i \in 1 .. Len(t) :
          i + Len(s) \in 1 .. Len(s) + Len(t) /\ (s \o t)[i + Len(s)] = t[i]
    BY <1>1, <1>2
  <2> QED
    BY <1>2, <2>1, <2>2 DEF StepsOf
<1> QED
  BY <1>2, <1>3, <1>4, <1>5 DEF Ordered

-----------------------------------------------------------------------------
(* Which actions touch what.                                                *)

LEMMA CallbackFrame ==
  ASSUME Callback
  PROVE  /\ UNCHANGED <<coreVars, threadVars, historyVars>>
         /\ UNCHANGED <<tool_synced, mode, active, teardown_done, running, topic, applied>>
         /\ \/ UNCHANGED <<seqVars, tracked, loaded, controllers_loaded>>
            \/ Sequencer!OnWrench /\ UNCHANGED <<tracked, loaded, controllers_loaded>>
            \/ /\ \E success \in BOOLEAN : Sequencer!OnMotionResult(success)
               /\ tracked' = FALSE /\ UNCHANGED <<loaded, controllers_loaded>>
            \/ /\ UNCHANGED <<seqVars, tracked>>
               /\ ~controllers_loaded /\ controllers_loaded' = TRUE /\ loaded' = Controllers
<1>1. CASE FeedEki \/ FeedRsi \/ FeedSri \/ FallSilent \/ FeedWrench
  <2>1. UNCHANGED <<coreVars, ownVars, threadVars, worldVars, historyVars>>
    BY <1>1 DEF FeedEki, FeedRsi, FeedSri, FallSilent, FeedWrench, NotFeeds
  <2>2. UNCHANGED seqVars \/ Sequencer!OnWrench
    BY <1>1 DEF FeedEki, FeedRsi, FeedSri, FallSilent, FeedWrench
  <2> QED
    BY <2>1, <2>2 DEF ownVars, worldVars
<1>2. CASE \E success \in BOOLEAN : OnMotionResult(success)
  BY <1>2 DEF OnMotionResult, ownVars
<1>3. CASE SetControllersLoaded
  BY <1>3 DEF SetControllersLoaded
<1> QED
  BY <1>1, <1>2, <1>3 DEF Callback

LEMMA WorkerFrame ==
  ASSUME WorkerStep
  PROVE  /\ UNCHANGED <<seqVars, feedVars, controllers_loaded, teardown_done, cmd, server, result,
                        historyVars>>
         /\ awaiting' \in {awaiting, "nothing"} /\ (awaiting = "tick" => awaiting' = "tick")
         /\ UNCHANGED coreVars \/ TeardownFinish
         /\ UNCHANGED <<mode, active>> \/ TeardownFinish
         /\ UNCHANGED running \/ TeardownSwitch
         /\ UNCHANGED topic \/ TeardownIdle
         /\ UNCHANGED <<loaded, applied>> \/ UnloadCompliance \/ ReloadCompliance
<1> USE DEF WorkerStepDone, Publishes
<1>1. CASE SyncTool
  BY <1>1 DEF SyncTool, worldVars
<1>2. CASE SendGoal
  BY <1>2 DEF SendGoal, ownVars
<1>3. CASE UnloadCompliance
  BY <1>3 DEF UnloadCompliance, ownVars
<1>4. CASE ReloadCompliance
  BY <1>4 DEF ReloadCompliance, ownVars
<1>5. CASE TeardownIdle
  BY <1>5 DEF TeardownIdle, ownVars
<1>6. CASE TeardownQuery
  BY <1>6 DEF TeardownQuery, ownVars, worldVars
<1>7. CASE TeardownSwitch
  BY <1>7 DEF TeardownSwitch, ownVars
<1>8. CASE TeardownFinish
  BY <1>8 DEF TeardownFinish, worldVars
<1> QED
  BY <1>1, <1>2, <1>3, <1>4, <1>5, <1>6, <1>7, <1>8 DEF WorkerStep

(* What the command methods and the action server leave alone.              *)
LEMMA CommandFrame ==
  ASSUME Operator \/ CommandStep \/ ServerReports
  PROVE  /\ UNCHANGED <<feedVars, tool_synced, controllers_loaded, worker, loaded, tracked>>
         /\ UNCHANGED applied \/ CalibrateBegin
         /\ UNCHANGED entangled \/ ResetVerdict \/ CalibrateBegin
         /\ UNCHANGED seqVars \/ SequencerStarted \/ CancelCalibration
         /\ UNCHANGED teardown_done \/ SequencerStarted
         /\ UNCHANGED <<mode, active>> \/ StartVerdict \/ StopVerdict \/ SequencerStarted
         /\ UNCHANGED running \/ SwitchControllers
         /\ UNCHANGED topic \/ PublishIdle \/ PublishMode
         /\ UNCHANGED coreVars \/ StartVerdict \/ StopVerdict \/ ResetVerdict \/ CalibrateBegin
              \/ CalibrateAbort
<1> USE DEF QuietSeq, QuietOwn, QuietWorld
<1>1. CASE \E m \in ServoModes : StartBegin(m)
  BY <1>1 DEF StartBegin
<1>2. CASE StopBegin \/ ResetBegin \/ ZeroBegin \/ CalibrateBegin
  BY <1>2 DEF StopBegin, ResetBegin, ZeroBegin, CalibrateBegin
<1>3. CASE CancelCalibration \/ ServerReports
  BY <1>3 DEF CancelCalibration, ServerReports, ownVars, threadVars, worldVars, historyVars
<1>4. CASE CheckResidue \/ ClearResidue \/ CheckRsi \/ StartRsi \/ AwaitFrames
  BY <1>4 DEF CheckResidue, ClearResidue, CheckRsi, StartRsi, AwaitFrames
<1>5. CASE PublishIdle \/ QueryRunning \/ SwitchControllers \/ PublishMode
  BY <1>5 DEF PublishIdle, QueryRunning, SwitchControllers, PublishMode
<1>6. CASE StartVerdict \/ StartRejected \/ StopVerdict \/ ResetVerdict \/ ZeroDone
  BY <1>6 DEF StartVerdict, StartRejected, StopVerdict, ResetVerdict, ZeroDone
<1>7. CASE CalibrateAbort \/ SequencerStarted
  BY <1>7 DEF CalibrateAbort, SequencerStarted, SequencerRefuses, GoalAborted, ownVars, worldVars
<1> QED
  BY <1>1, <1>2, <1>3, <1>4, <1>5, <1>6, <1>7 DEF Operator, CommandStep

LEMMA TickFrame ==
  ASSUME NEW elapsed, NEW retry_due, Tick(elapsed, retry_due)
  PROVE  UNCHANGED <<feedVars, controllers_loaded, mode, active, cmd, server, result, worldVars,
                   historyVars>>
BY DEF Tick

-----------------------------------------------------------------------------
(* The command in progress and the pass of the worker.                      *)

Ops == {None, "start", "undo", "stop", "reset", "zero", "calibrate"}

Claim == Controllers \cup {None}

CmdType == [op : Ops, at : Steps, mode : Modes, start : Claim, stop : Claim]

(* The steps of each method.                                                *)
StepsOfOp(op) ==
  CASE op = None        -> {None}
    [] op = "start"     -> {"residue", "clear", "rsi", "start_rsi", "wait", "idle", "query",
                            "switch", "mode", "verdict"}
    [] op = "undo"      -> {"idle", "query", "switch"}
    [] op = "stop"      -> {"idle", "query", "switch", "verdict"}
    [] op = "reset"     -> {"verdict"}
    [] op = "zero"      -> {"zeroing"}
    [] op = "calibrate" -> {"idle", "query", "switch", "mode", "verdict", "abort"}

CmdInv ==
  /\ cmd \in CmdType
  /\ cmd.at \in StepsOfOp(cmd.op)
  /\ cmd.op = None => cmd = NoCommand

(* A pass that tears down does so to its end.                               *)
WorkerInv ==
  /\ worker \in [todo : Seq(WorkerSteps), start : {None}, stop : {None, "correction"}]
  /\ Ordered(worker.todo)
  /\ "unload" \in Todo => "reload" \in Todo
  /\ "reload" \in Todo => "idle" \in Todo
  /\ "idle" \in Todo => "query" \in Todo
  /\ "query" \in Todo => "switch" \in Todo
  /\ "switch" \in Todo => "finish" \in Todo

LEMMA GotoFacts ==
  ASSUME cmd \in CmdType, NEW s \in Steps, cmd' = [cmd EXCEPT !.at = s]
  PROVE  /\ cmd' \in CmdType /\ cmd'.at = s
         /\ cmd'.op = cmd.op /\ cmd'.mode = cmd.mode
         /\ cmd'.start = cmd.start /\ cmd'.stop = cmd.stop
BY DEF CmdType

LEMMA FilteredFacts ==
  ASSUME cmd \in CmdType, cmd' = [Filtered(cmd) EXCEPT !.at = "switch"]
  PROVE  /\ cmd' \in CmdType /\ cmd'.at = "switch"
         /\ cmd'.op = cmd.op /\ cmd'.mode = cmd.mode
         /\ cmd'.start = IF cmd.start \in running THEN None ELSE cmd.start
         /\ cmd'.stop = IF cmd.stop \in running THEN cmd.stop ELSE None
BY DEF CmdType, Filtered, Steps, Claim

LEMMA NoCommandFacts ==
  /\ NoCommand \in CmdType /\ NoCommand.op = None /\ NoCommand.at = None
  /\ NoCommand.mode = "IDLE"
BY DEF NoCommand, CmdType, Ops, Steps, Modes, Claim

LEMMA IssueFacts ==
  ASSUME NEW op \in Ops, NEW step \in Steps, NEW m \in Modes, NEW c \in Claim, NEW d \in Claim,
         cmd' = [op |-> op, at |-> step, mode |-> m, start |-> c, stop |-> d]
  PROVE  /\ cmd' \in CmdType /\ cmd'.op = op /\ cmd'.at = step /\ cmd'.mode = m
         /\ cmd'.start = c /\ cmd'.stop = d
BY DEF CmdType

(* A step of the command goes on to another one of the method, ends it, or  *)
(* turns startServo into its roll back.                                     *)
LEMMA CommandMoves ==
  ASSUME CmdInv, CommandStep
  PROVE  /\ cmd # NoCommand
         /\ \/ /\ \E s \in StepsOfOp(cmd.op) :
                    cmd' \in {[cmd EXCEPT !.at = s], [Filtered(cmd) EXCEPT !.at = s]}
               /\ UNCHANGED <<awaiting, rushed>>
            \/ Returns
            \/ StartRejected
<1>1. /\ cmd.at # None
      /\ cmd.at = "idle" => cmd.op \in {"start", "undo", "stop", "calibrate"}
      /\ cmd.at \in {"query", "switch"} => cmd.op \in {"start", "undo", "stop", "calibrate"}
      /\ cmd.at = "mode" => cmd.op \in {"start", "calibrate"}
  <2>1. cmd.at # None
    BY DEF CommandStep, CheckResidue, ClearResidue, CheckRsi, StartRsi, AwaitFrames, PublishIdle,
           QueryRunning, SwitchControllers, PublishMode, StartVerdict, StartRejected, StopVerdict,
           ResetVerdict, ZeroDone, CalibrateAbort, SequencerStarted, SequencerRefuses, At, None
  <2> QED
    BY <2>1 DEF CmdInv, CmdType, Ops, StepsOfOp, None
<1>2. cmd # NoCommand
  BY <1>1, NoCommandFacts
<1>3. CASE CheckResidue \/ ClearResidue \/ CheckRsi \/ StartRsi \/ AwaitFrames
  <2>1. cmd.op = "start"
    BY <1>3 DEF CheckResidue, ClearResidue, CheckRsi, StartRsi, AwaitFrames, At
  <2>2. \/ Returns
        \/ \E s \in {"clear", "rsi", "start_rsi", "wait", "idle"} :
             cmd' = [cmd EXCEPT !.at = s] /\ UNCHANGED <<awaiting, rushed>>
    BY <1>3 DEF CheckResidue, ClearResidue, CheckRsi, StartRsi, AwaitFrames, Goto
  <2>3. {"clear", "rsi", "start_rsi", "wait", "idle"} \subseteq StepsOfOp(cmd.op)
    BY <2>1 DEF StepsOfOp, None
  <2> QED
    BY <1>2, <2>2, <2>3
<1>4. CASE PublishIdle
  <2>1. "query" \in StepsOfOp(cmd.op)
    BY <1>1, <1>4 DEF PublishIdle, StepsOfOp, None
  <2> QED
    BY <1>2, <1>4, <2>1 DEF PublishIdle, Goto
<1>5. CASE QueryRunning
  <2>1. /\ cmd.op \in {"start", "undo", "stop", "calibrate"}
        /\ "switch" \in StepsOfOp(cmd.op)
        /\ cmd.op = "calibrate" => "abort" \in StepsOfOp(cmd.op)
        /\ cmd.op = "stop" => "verdict" \in StepsOfOp(cmd.op)
    BY <1>1, <1>5 DEF QueryRunning, StepsOfOp, None
  <2>2. \/ cmd' = [Filtered(cmd) EXCEPT !.at = "switch"] /\ UNCHANGED <<awaiting, rushed>>
        \/ SwitchRefused
    BY <1>5 DEF QueryRunning
  <2> QED
    BY <1>2, <2>1, <2>2 DEF SwitchRefused, Goto
<1>6. CASE SwitchControllers
  <2>1. /\ cmd.op \in {"start", "undo", "stop", "calibrate"}
        /\ cmd.op \in {"start", "calibrate"} => "mode" \in StepsOfOp(cmd.op)
        /\ cmd.op = "calibrate" => "abort" \in StepsOfOp(cmd.op)
        /\ cmd.op = "stop" => "verdict" \in StepsOfOp(cmd.op)
    BY <1>1, <1>6 DEF SwitchControllers, StepsOfOp, None
  <2>2. SwitchDone \/ SwitchRefused
    BY <1>6 DEF SwitchControllers
  <2> QED
    BY <1>2, <2>1, <2>2 DEF SwitchDone, SwitchRefused, Goto
<1>7. CASE PublishMode
  <2>1. "verdict" \in StepsOfOp(cmd.op)
    BY <1>1, <1>7 DEF PublishMode, StepsOfOp, None
  <2> QED
    BY <1>2, <1>7, <2>1 DEF PublishMode, Goto
<1>8. CASE StartVerdict \/ StopVerdict \/ ResetVerdict \/ ZeroDone \/ CalibrateAbort
             \/ SequencerStarted
  BY <1>2, <1>8 DEF StartVerdict, StopVerdict, ResetVerdict, ZeroDone, CalibrateAbort,
                    SequencerStarted, SequencerRefuses, GoalAborted
<1> QED
  BY <1>2, <1>3, <1>4, <1>5, <1>6, <1>7, <1>8 DEF CommandStep

LEMMA TargetFacts ==
  ASSUME NEW m
  PROVE  /\ Target(m) \in Controllers /\ Other(m) \in Controllers /\ Target(m) # Other(m)
         /\ Controllers = {Target(m), Other(m)}
         /\ None \notin Controllers
BY DEF Target, Other, Controllers, None

LEMMA CommandKeepsCmd ==
  ASSUME CmdInv, CommandStep
  PROVE  CmdInv'
<1>1. \A s \in StepsOfOp(cmd.op) : s \in Steps
  BY DEF CmdInv, CmdType, Ops, StepsOfOp, Steps, None
<1>2. ASSUME NEW s \in StepsOfOp(cmd.op),
             cmd' \in {[cmd EXCEPT !.at = s], [Filtered(cmd) EXCEPT !.at = s]}
      PROVE  CmdInv'
  <2>1. s \in Steps /\ cmd \in CmdType
    BY <1>1, <1>2 DEF CmdInv
  <2>2. cmd.op # None
    BY CommandMoves DEF CmdInv
  <2>3. cmd' \in CmdType /\ cmd'.at = s /\ cmd'.op = cmd.op
    <3>1. CASE cmd' = [cmd EXCEPT !.at = s]
      BY <2>1, <3>1, GotoFacts
    <3>2. CASE cmd' = [Filtered(cmd) EXCEPT !.at = s]
      BY <2>1, <3>2 DEF CmdType, Filtered, Claim
    <3> QED
      BY <1>2, <3>1, <3>2
  <2> QED
    BY <1>2, <2>2, <2>3 DEF CmdInv
<1>3. ASSUME Returns
      PROVE  CmdInv'
  BY <1>3, NoCommandFacts DEF Returns, CmdInv, StepsOfOp, None
<1>4. ASSUME StartRejected
      PROVE  CmdInv'
  <2>1. /\ cmd \in CmdType
        /\ cmd' = [cmd EXCEPT !.op = "undo", !.at = "idle", !.start = None,
                              !.stop = Target(cmd.mode)]
        /\ Target(cmd.mode) \in Claim
    BY <1>4, TargetFacts DEF CmdInv, StartRejected, Claim
  <2>2. cmd' \in CmdType /\ cmd'.op = "undo" /\ cmd'.at = "idle"
    BY <2>1 DEF CmdType, Ops, Steps, Claim
  <2> QED
    BY <2>2 DEF CmdInv, StepsOfOp, None
<1> QED
  BY <1>2, <1>3, <1>4, CommandMoves

(* What the operator issues: a hasty command, or one after a tick has seen  *)
(* what the last one did.                                                   *)
Accepts(op) ==
  /\ cmd = NoCommand
  /\ op \in Hasty \/ awaiting = "nothing"
  /\ rushed' = (awaiting = "tick")
  /\ UNCHANGED awaiting

LEMMA OperatorIssues ==
  ASSUME active \in Claim, Operator
  PROVE  \/ CancelCalibration /\ UNCHANGED <<cmd, awaiting, historyVars>>
         \/ /\ Accepts(cmd'.op)
            /\ CmdInv'
            /\ \/ \E m \in ServoModes :
                    /\ StartBegin(m)
                    /\ cmd'.op = "start" /\ cmd'.at = "residue" /\ cmd'.mode = m
                    /\ cmd'.start = Target(m) /\ cmd'.stop = Other(m)
               \/ StopBegin /\ cmd'.op = "stop" /\ cmd'.at = "idle"
               \/ ResetBegin /\ cmd'.op = "reset" /\ cmd'.at = "verdict"
               \/ ZeroBegin /\ cmd'.op = "zero" /\ cmd'.at = "zeroing"
               \/ /\ CalibrateBegin
                  /\ cmd'.op = "calibrate" /\ cmd'.at = "idle" /\ cmd'.mode = "CALIBRATION"
                  /\ cmd'.start = Target("CALIBRATION") /\ cmd'.stop = Other("CALIBRATION")
<1>1. CASE CancelCalibration
  BY <1>1 DEF CancelCalibration, threadVars
<1>2. ASSUME NEW m \in ServoModes, StartBegin(m)
      PROVE  /\ Accepts("start") /\ CmdInv'
             /\ cmd'.op = "start" /\ cmd'.at = "residue" /\ cmd'.mode = m
             /\ cmd'.start = Target(m) /\ cmd'.stop = Other(m)
  <2>1. /\ Accepts("start")
        /\ cmd' = [op |-> "start", at |-> "residue", mode |-> m, start |-> Target(m),
                   stop |-> Other(m)]
    BY <1>2 DEF StartBegin, Issue, MayIssue, Accepts
  <2>2. m \in Modes /\ Target(m) \in Claim /\ Other(m) \in Claim
    BY TargetFacts, ManagerAssumption DEF Modes, Claim
  <2>3. "start" \in Ops /\ "residue" \in Steps
    BY DEF Ops, Steps
  <2>4. /\ cmd' \in CmdType /\ cmd'.op = "start" /\ cmd'.at = "residue" /\ cmd'.mode = m
        /\ cmd'.start = Target(m) /\ cmd'.stop = Other(m)
    BY <2>1, <2>2, <2>3, IssueFacts
  <2> QED
    BY <2>1, <2>4 DEF CmdInv, StepsOfOp, None
<1>3. ASSUME StopBegin
      PROVE  /\ Accepts("stop") /\ CmdInv'
             /\ cmd'.op = "stop" /\ cmd'.at = "idle"
  <2>1. /\ Accepts("stop")
        /\ cmd' = [op |-> "stop", at |-> "idle", mode |-> "IDLE", start |-> None, stop |-> active]
    BY <1>3 DEF StopBegin, Issue, MayIssue, Accepts
  <2>2. cmd' \in CmdType /\ cmd'.op = "stop" /\ cmd'.at = "idle"
    BY <2>1 DEF CmdType, Ops, Steps, Modes, Claim
  <2> QED
    BY <2>1, <2>2 DEF CmdInv, StepsOfOp, None
<1>4. ASSUME ResetBegin
      PROVE  /\ Accepts("reset") /\ CmdInv'
             /\ cmd'.op = "reset" /\ cmd'.at = "verdict"
  <2>1. /\ Accepts("reset")
        /\ cmd' = [op |-> "reset", at |-> "verdict", mode |-> "IDLE", start |-> None,
                   stop |-> None]
    BY <1>4 DEF ResetBegin, Issue, MayIssue, Accepts
  <2>2. cmd' \in CmdType /\ cmd'.op = "reset" /\ cmd'.at = "verdict"
    BY <2>1 DEF CmdType, Ops, Steps, Modes, Claim
  <2> QED
    BY <2>1, <2>2 DEF CmdInv, StepsOfOp, None
<1>5. ASSUME ZeroBegin
      PROVE  /\ Accepts("zero") /\ CmdInv'
             /\ cmd'.op = "zero" /\ cmd'.at = "zeroing"
  <2>1. /\ Accepts("zero")
        /\ cmd' = [op |-> "zero", at |-> "zeroing", mode |-> "IDLE", start |-> None,
                   stop |-> None]
    BY <1>5 DEF ZeroBegin, Issue, MayIssue, Accepts
  <2>2. cmd' \in CmdType /\ cmd'.op = "zero" /\ cmd'.at = "zeroing"
    BY <2>1 DEF CmdType, Ops, Steps, Modes, Claim
  <2> QED
    BY <2>1, <2>2 DEF CmdInv, StepsOfOp, None
<1>6. ASSUME CalibrateBegin
      PROVE  /\ Accepts("calibrate") /\ CmdInv'
             /\ cmd'.op = "calibrate" /\ cmd'.at = "idle" /\ cmd'.mode = "CALIBRATION"
             /\ cmd'.start = Target("CALIBRATION") /\ cmd'.stop = Other("CALIBRATION")
  <2>1. /\ Accepts("calibrate")
        /\ cmd' = [op |-> "calibrate", at |-> "idle", mode |-> "CALIBRATION",
                   start |-> "correction", stop |-> "compliance"]
    BY <1>6 DEF CalibrateBegin, Issue, MayIssue, Accepts
  <2>2. /\ cmd' \in CmdType /\ cmd'.op = "calibrate" /\ cmd'.at = "idle"
        /\ cmd'.mode = "CALIBRATION" /\ cmd'.start = "correction" /\ cmd'.stop = "compliance"
    BY <2>1 DEF CmdType, Ops, Steps, Modes, Claim, Controllers
  <2> QED
    BY <2>1, <2>2 DEF CmdInv, StepsOfOp, None, Target, Other
<1> QED
  BY <1>1, <1>2, <1>3, <1>4, <1>5, <1>6 DEF Operator

LEMMA CmdStep ==
  ASSUME CmdInv, active \in Claim, [Next]_vars
  PROVE  CmdInv'
<1>1. CASE CommandStep
  BY <1>1, CommandKeepsCmd
<1>2. CASE Operator
  BY <1>2, OperatorIssues DEF CmdInv
<1>3. CASE UNCHANGED cmd
  BY <1>3 DEF CmdInv
<1>4. CASE ServerReports \/ UNCHANGED vars
  BY <1>3, <1>4 DEF ServerReports, vars, threadVars
<1>5. CASE Callback
  BY <1>3, <1>5, CallbackFrame DEF threadVars
<1>6. CASE WorkerStep
  BY <1>3, <1>6, WorkerFrame
<1>7. CASE \E elapsed, retry_due \in BOOLEAN : Tick(elapsed, retry_due)
  BY <1>3, <1>7, TickFrame
<1> QED
  BY <1>1, <1>2, <1>4, <1>5, <1>6, <1>7 DEF Next

-----------------------------------------------------------------------------
(* The pass of the worker.                                                  *)

LEMMA AtHead ==
  ASSUME WorkerInv, NEW step, AtWorker(step)
  PROVE  /\ step \in Todo /\ step \in WorkerSteps
         /\ \A s \in Todo : s \in WorkerSteps /\ Rank(step) <= Rank(s)
         /\ Ordered(Tail(worker.todo))
         /\ StepsOf(Tail(worker.todo)) = Todo \ {step}
<1>1. worker.todo # <<>> /\ Head(worker.todo) = step /\ Ordered(worker.todo)
  BY DEF AtWorker, WorkerIdle, WorkerInv
<1> QED
  BY <1>1, TailSteps, StepsType DEF Todo

(* A step that gives up leaves out the one that follows it.                 *)
LEMMA SkipNext ==
  ASSUME WorkerInv, NEW step, NEW next, <<step, next>> \in {<<"unload", "reload">>, <<"query", "switch">>},
         AtWorker(step)
  PROVE  /\ Ordered(Tail(Tail(worker.todo)))
         /\ StepsOf(Tail(Tail(worker.todo))) = Todo \ {step, next}
<1> DEFINE t == Tail(worker.todo)
<1>1. /\ step \in Todo /\ \A s \in Todo : s \in WorkerSteps /\ Rank(step) <= Rank(s)
      /\ Ordered(t) /\ StepsOf(t) = Todo \ {step}
  BY AtHead
<1>2. next \in Todo /\ next # step
  BY <1>1 DEF WorkerInv
<1>3. t # <<>>
  BY <1>1, <1>2, StepsType
<1> HIDE DEF t
<1>4. /\ Ordered(Tail(t)) /\ Head(t) \in StepsOf(t) /\ StepsOf(Tail(t)) = StepsOf(t) \ {Head(t)}
      /\ \A s \in StepsOf(t) : Rank(Head(t)) <= Rank(s)
  BY <1>1, <1>3, TailSteps
<1>5. Head(t) = next
  <2>1. Rank(Head(t)) <= Rank(next) /\ Rank(step) <= Rank(Head(t)) /\ Head(t) # step
        /\ Head(t) \in WorkerSteps
    BY <1>1, <1>2, <1>4
  <2> QED
    BY <2>1 DEF WorkerSteps, Rank
<1> QED
  BY <1>1, <1>4, <1>5 DEF t

LEMMA TailFacts ==
  ASSUME WorkerInv, NEW t, Ordered(t), worker' = [worker EXCEPT !.todo = t]
  PROVE  /\ worker' \in [todo : Seq(WorkerSteps), start : {None}, stop : {None, "correction"}]
         /\ worker'.todo = t /\ Todo' = StepsOf(t) /\ Ordered(worker'.todo)
<1>1. t \in Seq(WorkerSteps)
  BY DEF Ordered
<1>2. /\ worker' \in [todo : Seq(WorkerSteps), start : {None}, stop : {None, "correction"}]
      /\ worker'.todo = t
  BY <1>1 DEF WorkerInv
<1> QED
  BY <1>2 DEF Todo

(* What each side effect leaves to do.                                      *)
WorkerMove ==
  \/ SyncTool /\ Todo' = Todo \ {"tool"}
  \/ SendGoal /\ Todo' = Todo \ {"goal"}
  \/ /\ UnloadCompliance
     /\ "unload" \in Todo
     /\ \/ Todo' = Todo \ {"unload"} /\ loaded' = loaded \ {"compliance"} /\ UNCHANGED applied
        \/ Todo' = Todo \ {"unload", "reload"} /\ applied' = "failed" /\ UNCHANGED loaded
  \/ /\ ReloadCompliance
     /\ {"unload", "reload"} \cap Todo = {"reload"}
     /\ Todo' = Todo \ {"reload"} /\ applied' \in {"yes", "failed"}
  \/ TeardownIdle /\ "idle" \in Todo /\ Todo' = Todo \ {"idle"}
  \/ /\ TeardownQuery
     /\ {"idle", "query"} \cap Todo = {"query"}
     /\ Todo' \in {Todo \ {"query"}, Todo \ {"query", "switch"}}
  \/ /\ TeardownSwitch
     /\ {"idle", "query", "switch"} \cap Todo = {"switch"}
     /\ Todo' = Todo \ {"switch"}
  \/ TeardownFinish /\ Todo = {"finish"} /\ Todo' = {}

LEMMA WorkerMoves ==
  ASSUME WorkerInv, WorkerStep
  PROVE  WorkerInv' /\ WorkerMove
<1> DEFINE t == Tail(worker.todo)
<1>1. ASSUME NEW step, AtWorker(step), worker' = [worker EXCEPT !.todo = Tail(@)]
      PROVE  WorkerInv' /\ step \in Todo /\ Todo' = Todo \ {step}
  <2>1. /\ step \in Todo /\ \A s \in Todo : s \in WorkerSteps /\ Rank(step) <= Rank(s)
        /\ Ordered(t) /\ StepsOf(t) = Todo \ {step}
    BY <1>1, AtHead
  <2>2. worker' = [worker EXCEPT !.todo = t]
    BY <1>1
  <2>3. /\ worker' \in [todo : Seq(WorkerSteps), start : {None}, stop : {None, "correction"}]
        /\ Todo' = Todo \ {step} /\ Ordered(worker'.todo)
    BY <2>1, <2>2, TailFacts
  <2>4. step \in WorkerSteps
    BY <2>1
  <2>5. /\ "unload" \in Todo' => "reload" \in Todo'
        /\ "reload" \in Todo' => "idle" \in Todo'
        /\ "idle" \in Todo' => "query" \in Todo'
        /\ "query" \in Todo' => "switch" \in Todo'
        /\ "switch" \in Todo' => "finish" \in Todo'
    BY <2>1, <2>3, <2>4 DEF WorkerInv, WorkerSteps, Rank
  <2> QED
    BY <2>1, <2>3, <2>5 DEF WorkerInv
<1>2. ASSUME NEW step, NEW next,
             <<step, next>> \in {<<"unload", "reload">>, <<"query", "switch">>},
             AtWorker(step), worker' = [worker EXCEPT !.todo = Tail(Tail(@))]
      PROVE  WorkerInv' /\ step \in Todo /\ Todo' = Todo \ {step, next}
  <2>1. /\ step \in Todo /\ \A s \in Todo : s \in WorkerSteps /\ Rank(step) <= Rank(s)
    BY <1>2, AtHead
  <2>2. Ordered(Tail(t)) /\ StepsOf(Tail(t)) = Todo \ {step, next}
    BY <1>2, SkipNext
  <2>3. worker' = [worker EXCEPT !.todo = Tail(t)]
    BY <1>2
  <2>4. /\ worker' \in [todo : Seq(WorkerSteps), start : {None}, stop : {None, "correction"}]
        /\ Todo' = Todo \ {step, next} /\ Ordered(worker'.todo)
    BY <2>2, <2>3, TailFacts
  <2>5. /\ "unload" \in Todo' => "reload" \in Todo'
        /\ "reload" \in Todo' => "idle" \in Todo'
        /\ "idle" \in Todo' => "query" \in Todo'
        /\ "query" \in Todo' => "switch" \in Todo'
        /\ "switch" \in Todo' => "finish" \in Todo'
    BY <1>2, <2>1, <2>4 DEF WorkerInv, WorkerSteps, Rank
  <2> QED
    BY <2>1, <2>4, <2>5 DEF WorkerInv
<1>3. CASE SyncTool
  BY <1>1, <1>3 DEF SyncTool, WorkerStepDone, WorkerMove
<1>4. CASE SendGoal
  BY <1>1, <1>4 DEF SendGoal, WorkerStepDone, WorkerMove
<1>5. CASE UnloadCompliance
  <2>1. AtWorker("unload")
    BY <1>5 DEF UnloadCompliance
  <2>2. CASE /\ loaded' = loaded \ {"compliance"} /\ UNCHANGED applied
             /\ worker' = [worker EXCEPT !.todo = Tail(@)]
    BY <1>1, <1>5, <2>1, <2>2 DEF WorkerMove
  <2>3. CASE /\ applied' = "failed" /\ UNCHANGED loaded
             /\ worker' = [worker EXCEPT !.todo = Tail(Tail(@))]
    BY <1>2, <1>5, <2>1, <2>3 DEF WorkerMove
  <2> QED
    BY <1>5, <2>2, <2>3 DEF UnloadCompliance
<1>6. CASE ReloadCompliance
  <2>1. AtWorker("reload") /\ worker' = [worker EXCEPT !.todo = Tail(@)]
    BY <1>6 DEF ReloadCompliance, WorkerStepDone
  <2>2. "unload" \notin Todo
    BY <2>1, AtHead DEF Rank
  <2>3. applied' \in {"yes", "failed"}
    BY <1>6 DEF ReloadCompliance
  <2> QED
    BY <1>1, <1>6, <2>1, <2>2, <2>3 DEF WorkerMove
<1>7. CASE TeardownIdle
  BY <1>1, <1>7 DEF TeardownIdle, WorkerStepDone, WorkerMove
<1>8. CASE TeardownQuery
  <2>1. AtWorker("query")
    BY <1>8 DEF TeardownQuery
  <2>2. "idle" \notin Todo
    BY <2>1, AtHead DEF Rank
  <2>3. CASE worker' = [Filtered(worker) EXCEPT !.todo = Tail(@)]
    <3>1. AtWorker("query") /\ Ordered(t) /\ StepsOf(t) = Todo \ {"query"}
      BY <2>1, AtHead
    <3>2. /\ worker' \in [todo : Seq(WorkerSteps), start : {None}, stop : {None, "correction"}]
          /\ worker'.todo = t
      BY <2>3, <3>1 DEF Filtered, WorkerInv, Ordered
    <3>3. Todo' = Todo \ {"query"} /\ Ordered(worker'.todo)
      BY <3>1, <3>2 DEF Todo
    <3>4. "query" \in Todo /\ "unload" \notin Todo /\ "reload" \notin Todo
      BY <2>1, AtHead DEF Rank
    <3>5. WorkerInv'
      BY <2>2, <3>2, <3>3, <3>4 DEF WorkerInv
    <3> QED
      BY <1>8, <2>2, <3>3, <3>4, <3>5 DEF WorkerMove
  <2>4. CASE worker' = [worker EXCEPT !.todo = Tail(Tail(@))]
    BY <1>2, <1>8, <2>1, <2>2, <2>4 DEF WorkerMove
  <2> QED
    BY <1>8, <2>3, <2>4 DEF TeardownQuery
<1>9. CASE TeardownSwitch
  <2>1. AtWorker("switch") /\ worker' = [worker EXCEPT !.todo = Tail(@)]
    BY <1>9 DEF TeardownSwitch, WorkerStepDone
  <2>2. "idle" \notin Todo /\ "query" \notin Todo
    BY <2>1, AtHead DEF Rank
  <2> QED
    BY <1>1, <1>9, <2>1, <2>2 DEF WorkerMove
<1>10. CASE TeardownFinish
  <2>1. AtWorker("finish") /\ worker' = [worker EXCEPT !.todo = Tail(@)]
    BY <1>10 DEF TeardownFinish, WorkerStepDone
  <2>2. Todo = {"finish"}
    BY <2>1, AtHead DEF Rank, WorkerSteps
  <2> QED
    BY <1>1, <1>10, <2>1, <2>2 DEF WorkerMove
<1> QED
  BY <1>3, <1>4, <1>5, <1>6, <1>7, <1>8, <1>9, <1>10 DEF WorkerStep

LEMMA TeardownSteps ==
  /\ Ordered(<<>>) /\ StepsOf(<<>>) = {}
  /\ Ordered(<<"tool">>) /\ StepsOf(<<"tool">>) = {"tool"}
  /\ Ordered(<<"goal">>) /\ StepsOf(<<"goal">>) = {"goal"}
  /\ Ordered(<<"unload", "reload">>) /\ StepsOf(<<"unload", "reload">>) = {"unload", "reload"}
  /\ Ordered(<<"idle", "query", "switch", "finish">>)
  /\ StepsOf(<<"idle", "query", "switch", "finish">>) = {"idle", "query", "switch", "finish"}
<1>1. Ordered(<<>>) /\ StepsOf(<<>>) = {}
  BY EmptySeq DEF Ordered, StepsOf
<1>2. Ordered(<<"tool">>) /\ StepsOf(<<"tool">>) = {"tool"}
  BY DEF Ordered, StepsOf, WorkerSteps, Rank
<1>3. Ordered(<<"goal">>) /\ StepsOf(<<"goal">>) = {"goal"}
  BY DEF Ordered, StepsOf, WorkerSteps, Rank
<1>4. Ordered(<<"unload", "reload">>) /\ StepsOf(<<"unload", "reload">>) = {"unload", "reload"}
  BY DEF Ordered, StepsOf, WorkerSteps, Rank
<1>5. /\ Ordered(<<"idle", "query", "switch", "finish">>)
      /\ StepsOf(<<"idle", "query", "switch", "finish">>) = {"idle", "query", "switch", "finish"}
  BY DEF Ordered, StepsOf, WorkerSteps, Rank
<1> QED
  BY <1>1, <1>2, <1>3, <1>4, <1>5

(* The run has ended in this pass, or before it, and is not torn down yet.  *)
Ends == phase' \in {"DONE", "FAILED"} /\ ~teardown_done

(* What a pass has to do.                                                   *)
LEMMA TickTodo ==
  ASSUME NEW elapsed, NEW retry_due, Tick(elapsed, retry_due), WorkerInv
  PROVE  /\ WorkerInv' /\ Todo = {}
         /\ "finish" \in Todo' <=> Ends
         /\ "switch" \in Todo' <=> Ends
         /\ "idle" \in Todo' <=> Ends
         /\ "unload" \in Todo' <=> (Ends /\ phase' = "DONE" /\ fit_ok')
         /\ "reload" \in Todo' <=> (Ends /\ phase' = "DONE" /\ fit_ok')
         /\ teardown_done' <=> (teardown_done \/ Ends)
<1>1. PICK a \in {<<>>, <<"tool">>}, b \in {<<>>, <<"goal">>},
           c \in {<<>>, <<"unload", "reload">>},
           d \in {<<>>, <<"idle", "query", "switch", "finish">>} :
        /\ worker' = [todo |-> a \o b \o c \o d, start |-> None, stop |-> "correction"]
        /\ c = IF Ends /\ phase' = "DONE" /\ fit_ok' THEN <<"unload", "reload">> ELSE <<>>
        /\ d = IF Ends THEN <<"idle", "query", "switch", "finish">> ELSE <<>>
  BY DEF Tick, Ends
<1>2. worker.todo = <<>>
  BY DEF Tick, WorkerIdle
<1>3. Todo = {}
  BY <1>2, TeardownSteps DEF Todo
<1>4. teardown_done' <=> (teardown_done \/ Ends)
  <2>1. teardown_done' = (teardown_done \/ Ends)
    BY DEF Tick, Ends
  <2> QED
    BY <2>1, Zenon
<1>5. /\ Ordered(a) /\ StepsOf(a) \subseteq {"tool"}
      /\ Ordered(b) /\ StepsOf(b) \subseteq {"goal"}
      /\ Ordered(c) /\ (c = <<>> => StepsOf(c) = {})
      /\ (c # <<>> => StepsOf(c) = {"unload", "reload"})
      /\ Ordered(d) /\ (d = <<>> => StepsOf(d) = {})
      /\ (d # <<>> => StepsOf(d) = {"idle", "query", "switch", "finish"})
  BY <1>1, TeardownSteps
<1>6. Ordered(a \o b) /\ StepsOf(a \o b) = StepsOf(a) \cup StepsOf(b)
  <2>1. \A s \in StepsOf(a), u \in StepsOf(b) : Rank(s) < Rank(u)
    BY <1>5 DEF Rank
  <2> QED
    BY <1>5, <2>1, OrderedConcat
<1>7. Ordered(a \o b \o c) /\ StepsOf(a \o b \o c) = StepsOf(a) \cup StepsOf(b) \cup StepsOf(c)
  <2>1. \A s \in StepsOf(a \o b), u \in StepsOf(c) : Rank(s) < Rank(u)
    BY <1>5, <1>6 DEF Rank
  <2> QED
    BY <1>5, <1>6, <2>1, OrderedConcat
<1>8. /\ Ordered(a \o b \o c \o d)
      /\ StepsOf(a \o b \o c \o d) = StepsOf(a) \cup StepsOf(b) \cup StepsOf(c) \cup StepsOf(d)
  <2>1. \A s \in StepsOf(a \o b \o c), u \in StepsOf(d) : Rank(s) < Rank(u)
    BY <1>5, <1>7 DEF Rank
  <2> QED
    BY <1>5, <1>7, <2>1, OrderedConcat
<1>9. /\ worker'.todo = a \o b \o c \o d
      /\ worker' \in [todo : Seq(WorkerSteps), start : {None}, stop : {None, "correction"}]
  BY <1>1, <1>8 DEF Ordered
<1>10. Todo' = StepsOf(a) \cup StepsOf(b) \cup StepsOf(c) \cup StepsOf(d)
  BY <1>8, <1>9 DEF Todo
<1>11. /\ c # <<>> <=> (Ends /\ phase' = "DONE" /\ fit_ok')
       /\ d # <<>> <=> Ends
  BY <1>1
<1>12. /\ "finish" \in Todo' <=> d # <<>>
       /\ "query" \in Todo' <=> d # <<>>
       /\ "switch" \in Todo' <=> d # <<>>
       /\ "idle" \in Todo' <=> d # <<>>
       /\ "unload" \in Todo' <=> c # <<>>
       /\ "reload" \in Todo' <=> c # <<>>
  BY <1>5, <1>10
<1>13. WorkerInv'
  <2>1. c # <<>> => d # <<>>
    BY <1>11
  <2> QED
    BY <1>8, <1>9, <1>12, <2>1 DEF WorkerInv
<1> QED
  BY <1>3, <1>4, <1>11, <1>12, <1>13

LEMMA WorkerStays ==
  ASSUME WorkerInv, UNCHANGED worker
  PROVE  WorkerInv' /\ Todo' = Todo
BY DEF WorkerInv, Todo

LEMMA PassStep ==
  ASSUME WorkerInv, [Next]_vars
  PROVE  WorkerInv'
<1>1. CASE \E elapsed, retry_due \in BOOLEAN : Tick(elapsed, retry_due)
  BY <1>1, TickTodo
<1>2. CASE WorkerStep
  BY <1>2, WorkerMoves
<1>3. CASE Operator \/ CommandStep \/ ServerReports
  BY <1>3, CommandFrame, WorkerStays
<1>4. CASE Callback
  BY <1>4, CallbackFrame, WorkerStays DEF threadVars
<1>5. CASE UNCHANGED vars
  BY <1>5, WorkerStays DEF vars, threadVars
<1> QED
  BY <1>1, <1>2, <1>3, <1>4, <1>5 DEF Next

-----------------------------------------------------------------------------
(* Types.                                                                   *)

FlagType ==
  /\ eki \subseteq EkiFields /\ rsi \subseteq RsiFields
  /\ eki_fresh \in BOOLEAN /\ rsi_fresh \in BOOLEAN /\ sri \in BOOLEAN
  /\ tool_synced \in BOOLEAN /\ controllers_loaded \in BOOLEAN /\ teardown_done \in BOOLEAN
  /\ tracked \in BOOLEAN /\ rushed \in BOOLEAN /\ entangled \in BOOLEAN

WorldType ==
  /\ mode \in Modes /\ topic \in Modes
  /\ active \in Claim
  /\ running \subseteq loaded /\ loaded \subseteq Controllers
  /\ server \in {"idle", "calling", "polling"}
  /\ result \in {None, "succeeded", "preempted", "aborted"}
  /\ applied \in {"no", "yes", "failed"}
  /\ awaiting \in {"nothing", "tick", "publish"}

TypeInv == Core!TypeOK /\ Sequencer!TypeOK /\ FlagType /\ WorldType

(* Every method of the sequencer.                                           *)
SequencerMoves ==
  \/ UNCHANGED seqVars
  \/ \E elapsed \in BOOLEAN : Sequencer!Tick(elapsed)
  \/ \E why \in {"CANCELLED", "STREAM_LOST"} : Sequencer!Fail(why)
  \/ Sequencer!Start
  \/ Sequencer!OnWrench
  \/ \E success \in BOOLEAN : Sequencer!OnMotionResult(success)

(* Every method of the state machine.                                       *)
CoreMoves ==
  \/ UNCHANGED coreVars
  \/ \E in : Core!Update(in) \/ Core!RequestStart(in) \/ Core!RequestCalibration(in)
  \/ Core!RequestStop
  \/ Core!RequestReset
  \/ Core!CalibrationFinished

LEMMA Methods ==
  ASSUME [Next]_vars
  PROVE  SequencerMoves /\ CoreMoves
<1> USE DEF SequencerMoves, CoreMoves
<1>1. ASSUME NEW elapsed \in BOOLEAN, NEW retry_due \in BOOLEAN, Tick(elapsed, retry_due)
      PROVE  SequencerMoves /\ CoreMoves
  BY <1>1 DEF Tick, CalibrationSupervised, Sequencer!OnStreamLost
<1>2. CASE WorkerStep
  BY <1>2, WorkerFrame DEF TeardownFinish
<1>3. CASE Operator \/ CommandStep \/ ServerReports
  <2>1. UNCHANGED seqVars \/ SequencerStarted \/ CancelCalibration
    BY <1>3, CommandFrame
  <2>2. UNCHANGED coreVars \/ StartVerdict \/ StopVerdict \/ ResetVerdict \/ CalibrateBegin
          \/ CalibrateAbort
    BY <1>3, CommandFrame
  <2>3. SequencerMoves
    BY <2>1 DEF SequencerStarted, CancelCalibration, Sequencer!Cancel
  <2>4. CoreMoves
    BY <2>2 DEF StartVerdict, StopVerdict, ResetVerdict, CalibrateBegin, CalibrateAbort,
                SequencerRefuses, GoalAborted, coreVars
  <2> QED
    BY <2>3, <2>4
<1>4. CASE Callback
  BY <1>4, CallbackFrame
<1>5. CASE UNCHANGED vars
  BY <1>5 DEF vars
<1> QED
  BY <1>1, <1>2, <1>3, <1>4, <1>5 DEF Next

LEMMA SequencerTypes ==
  ASSUME Sequencer!TypeOK, SequencerMoves
  PROVE  Sequencer!TypeOK'
<1> USE DEF Sequencer!TypeOK, Sequencer!Phases, Sequencer!ActivePhases, Sequencer!Failures
<1>1. CASE UNCHANGED seqVars
  BY <1>1 DEF seqVars
<1>2. CASE \E elapsed \in BOOLEAN : Sequencer!Tick(elapsed)
  <2>1. goal_pending' = FALSE /\ UNCHANGED <<failure, idx, return_ok, fit_ok>>
    BY <1>2 DEF Sequencer!Tick
  <2>2. goal_pending' \in BOOLEAN
    BY <2>1, Zenon
  <2>3. phase' \in {"SAMPLING", phase} /\ sample_count' \in {0, sample_count}
    BY <1>2 DEF Sequencer!Tick
  <2> QED
    BY <2>1, <2>2, <2>3
<1>3. CASE \E why \in {"CANCELLED", "STREAM_LOST"} : Sequencer!Fail(why)
  BY <1>3 DEF Sequencer!Fail, Sequencer!seqVars
<1>4. CASE Sequencer!Start
  BY <1>4 DEF Sequencer!Start
<1>5. CASE Sequencer!OnWrench
  <2>1. CASE Sequencer!Collect \/ Sequencer!NextPose
    <3>1. goal_pending' \in {TRUE, goal_pending} /\ UNCHANGED <<failure, return_ok, fit_ok>>
      BY <2>1 DEF Sequencer!Collect, Sequencer!NextPose
    <3>2. /\ phase' \in {phase, "MOVING"} /\ sample_count' = sample_count + 1
          /\ idx' \in {idx, idx + 1}
      BY <2>1 DEF Sequencer!Collect, Sequencer!NextPose
    <3>3. goal_pending' \in BOOLEAN /\ return_ok' \in BOOLEAN /\ fit_ok' \in BOOLEAN
      BY <3>1
    <3>4. idx' \in Nat /\ sample_count' \in Nat
      BY <3>2
    <3> QED
      BY <3>1, <3>2, <3>3, <3>4
  <2>2. ASSUME NEW ok \in BOOLEAN, Sequencer!Solve(ok)
        PROVE  Sequencer!TypeOK'
    <3>1. goal_pending' \in BOOLEAN /\ fit_ok' \in BOOLEAN
      BY <2>2 DEF Sequencer!Solve
    <3>2. /\ phase' \in {"RETURNING", "FAILED"} /\ failure' \in {failure, "SOLVE_FAILED"}
          /\ sample_count' = sample_count + 1 /\ UNCHANGED <<idx, return_ok>>
      BY <2>2 DEF Sequencer!Solve
    <3> QED
      BY <3>1, <3>2
  <2> QED
    BY <1>5, <2>1, <2>2 DEF Sequencer!OnWrench
<1>6. CASE \E success \in BOOLEAN : Sequencer!OnMotionResult(success)
  BY <1>6 DEF Sequencer!OnMotionResult, Sequencer!MoveEnds, Sequencer!ReturnEnds,
              Sequencer!Fail, Sequencer!seqVars
<1> QED
  BY <1>1, <1>2, <1>3, <1>4, <1>5, <1>6 DEF SequencerMoves

LEMMA CoreTypes ==
  ASSUME Core!TypeOK, CoreMoves
  PROVE  Core!TypeOK'
<1> USE DEF Core!TypeOK, Core!States
<1>1. CASE UNCHANGED coreVars \/ Core!RequestStop \/ Core!RequestReset \/ Core!CalibrationFinished
  BY <1>1 DEF coreVars, Core!RequestStop, Core!RequestReset, Core!CalibrationFinished
<1>2. CASE \E in : Core!RequestStart(in) \/ Core!RequestCalibration(in)
  BY <1>2 DEF Core!RequestStart, Core!RequestCalibration
<1>3. ASSUME NEW in, Core!Update(in)
      PROVE  Core!TypeOK'
  <2>1. CASE Core!SuperviseCalibration(in)
    <3>1. calibrating' \in BOOLEAN
      <4>1. calibrating' = Core!CalibrationLinkOk(in)
        BY <2>1 DEF Core!SuperviseCalibration
      <4>2. Core!CalibrationLinkOk(in) \in BOOLEAN
        BY Zenon DEF Core!CalibrationLinkOk
      <4> QED
        BY <4>1, <4>2
    <3> QED
      BY <2>1, <3>1 DEF Core!SuperviseCalibration
  <2>2. CASE Core!Trip(in)
    BY <2>2 DEF Core!Trip
  <2>3. CASE Core!StayFault(in)
    BY <2>3 DEF Core!StayFault, Core!coreVars
  <2>4. CASE Core!SuperviseServo(in) \/ Core!SuperviseIdle(in)
    BY <2>4 DEF Core!SuperviseServo, Core!SuperviseIdle
  <2> QED
    BY <1>3, <2>1, <2>2, <2>3, <2>4 DEF Core!Update
<1> QED
  BY <1>1, <1>2, <1>3 DEF CoreMoves

LEMMA FlagTypes ==
  ASSUME FlagType, CmdInv, [Next]_vars
  PROVE  FlagType'
<1>1. eki' \subseteq EkiFields /\ rsi' \subseteq RsiFields
  <2>1. CASE Callback
    BY <2>1, ManagerAssumption
       DEF FlagType, Callback, FeedEki, FeedRsi, FeedSri, FallSilent, FeedWrench, OnMotionResult,
           SetControllersLoaded, feedVars
  <2>2. CASE UNCHANGED feedVars
    BY <2>2 DEF FlagType, feedVars
  <2>3. CASE WorkerStep \/ \E elapsed, retry_due \in BOOLEAN : Tick(elapsed, retry_due)
    BY <2>2, <2>3, WorkerFrame, TickFrame
  <2>4. CASE Operator \/ CommandStep \/ ServerReports \/ UNCHANGED vars
    BY <2>2, <2>4, CommandFrame DEF vars
  <2> QED
    BY <2>1, <2>3, <2>4 DEF Next
<1>2. /\ eki_fresh' \in {eki_fresh, TRUE, FALSE} /\ rsi_fresh' \in {rsi_fresh, TRUE, FALSE}
      /\ sri' \in {sri, FALSE} \cup SriFeeds
  <2>1. CASE Callback
    BY <2>1
       DEF Callback, FeedEki, FeedRsi, FeedSri, FallSilent, FeedWrench, OnMotionResult,
           SetControllersLoaded, feedVars
  <2>2. CASE UNCHANGED feedVars
    BY <2>2 DEF feedVars
  <2>3. CASE WorkerStep \/ \E elapsed, retry_due \in BOOLEAN : Tick(elapsed, retry_due)
    BY <2>2, <2>3, WorkerFrame, TickFrame
  <2>4. CASE Operator \/ CommandStep \/ ServerReports \/ UNCHANGED vars
    BY <2>2, <2>4, CommandFrame DEF vars
  <2> QED
    BY <2>1, <2>3, <2>4 DEF Next
<1>3. eki_fresh' \in BOOLEAN /\ rsi_fresh' \in BOOLEAN /\ sri' \in BOOLEAN
  BY <1>2, ManagerAssumption DEF FlagType
<1>4. tool_synced' \in BOOLEAN
  <2>1. ASSUME NEW elapsed, NEW retry_due, Tick(elapsed, retry_due)
        PROVE  tool_synced' \in BOOLEAN
    <3>1. tool_synced' = (tool_synced /\ ~(~Core!EkiLinkLayered(Health)))
      BY <2>1 DEF Tick
    <3> QED
      BY <3>1, Zenon
  <2>2. CASE WorkerStep
    <3>1. tool_synced' \in {TRUE, tool_synced}
      BY <2>2 DEF WorkerStep, SyncTool, SendGoal, UnloadCompliance, ReloadCompliance,
                  TeardownIdle, TeardownQuery, TeardownSwitch, TeardownFinish, ownVars, Unless
    <3> QED
      BY <3>1 DEF FlagType
  <2>3. CASE Operator \/ CommandStep \/ ServerReports \/ Callback \/ UNCHANGED vars
    BY <2>3, CommandFrame, CallbackFrame DEF FlagType, vars, ownVars
  <2> QED
    BY <2>1, <2>2, <2>3 DEF Next
<1>5. controllers_loaded' \in BOOLEAN
  <2>1. controllers_loaded' \in {TRUE, controllers_loaded}
    BY CommandFrame, CallbackFrame, WorkerFrame, TickFrame DEF Next, vars, ownVars
  <2> QED
    BY <2>1 DEF FlagType
<1>6. teardown_done' \in BOOLEAN
  <2>1. ASSUME NEW elapsed, NEW retry_due, Tick(elapsed, retry_due)
        PROVE  teardown_done' \in BOOLEAN
    <3>1. teardown_done' = (teardown_done \/ Ends)
      BY <2>1 DEF Tick, Ends
    <3> QED
      BY <3>1, Zenon
  <2>2. CASE WorkerStep \/ Operator \/ CommandStep \/ ServerReports \/ Callback \/ UNCHANGED vars
    <3>1. teardown_done' \in {FALSE, teardown_done}
      BY <2>2, CommandFrame, CallbackFrame, WorkerFrame DEF vars, ownVars, SequencerStarted
    <3> QED
      BY <3>1 DEF FlagType
  <2> QED
    BY <2>1, <2>2 DEF Next
<1>7. tracked' \in BOOLEAN
  <2>1. tracked' \in {TRUE, FALSE, tracked}
    <3>1. CASE WorkerStep
      BY <3>1 DEF WorkerStep, SyncTool, SendGoal, UnloadCompliance, ReloadCompliance,
                  TeardownIdle, TeardownQuery, TeardownSwitch, TeardownFinish, worldVars
    <3> QED
      BY <3>1, CommandFrame, CallbackFrame, TickFrame DEF Next, vars, worldVars
  <2> QED
    BY <2>1 DEF FlagType
<1>8. rushed' \in BOOLEAN
  <2>1. rushed' \in {rushed, FALSE, awaiting = "tick"}
    <3>1. CASE Operator
      BY <3>1 DEF Operator, StartBegin, StopBegin, ResetBegin, ZeroBegin, CalibrateBegin, Issue,
                  CancelCalibration, historyVars
    <3>2. CASE CommandStep
      BY <3>2, CommandMoves DEF Returns, StartRejected
    <3>3. CASE ServerReports \/ UNCHANGED vars
      BY <3>3 DEF ServerReports, historyVars, vars
    <3> QED
      BY <3>1, <3>2, <3>3, CallbackFrame, WorkerFrame, TickFrame DEF Next, historyVars
  <2> QED
    BY <2>1 DEF FlagType
<1>9. entangled' \in BOOLEAN
  <2>1. entangled' \in {entangled, Busy, entangled \/ Busy}
    <3>1. CASE ResetVerdict \/ CalibrateBegin
      BY <3>1 DEF ResetVerdict, CalibrateBegin
    <3> QED
      BY <3>1, CommandFrame, CallbackFrame, WorkerFrame, TickFrame DEF Next, historyVars, vars
  <2> QED
    BY <2>1 DEF FlagType, Busy
<1> QED
  BY <1>1, <1>3, <1>4, <1>5, <1>6, <1>7, <1>8, <1>9 DEF FlagType

LEMMA WorldTypes ==
  ASSUME WorldType, CmdInv, WorkerInv, [Next]_vars
  PROVE  WorldType'
<1>1. /\ cmd.mode \in Modes /\ cmd.start \in Claim /\ cmd.stop \in Claim
      /\ worker.start = None /\ worker.stop \in Claim
  BY DEF CmdInv, CmdType, WorkerInv, Claim, Controllers
<1>2. topic' \in Modes
  <2>1. topic' \in {"IDLE", cmd.mode, topic}
    BY CommandFrame, CallbackFrame, WorkerFrame, TickFrame
       DEF Next, vars, worldVars, TeardownIdle, PublishIdle, PublishMode
  <2> QED
    BY <1>1, <2>1 DEF WorldType, Modes
<1>3. mode' \in Modes /\ active' \in Claim
  <2>1. CASE UNCHANGED <<mode, active>>
    BY <2>1 DEF WorldType
  <2>2. CASE TeardownFinish \/ StartVerdict \/ StopVerdict \/ SequencerStarted
    BY <1>1, <2>2, TargetFacts
       DEF WorldType, TeardownFinish, StartVerdict, StopVerdict, SequencerStarted, Modes, Claim,
           Controllers
  <2> QED
    BY <2>1, <2>2, CommandFrame, CallbackFrame, WorkerFrame, TickFrame DEF Next, vars, ownVars
<1>4. running' \subseteq loaded' /\ loaded' \subseteq Controllers
  <2>1. ASSUME NEW t, t.start \in Claim, SwitchSucceeds(t) \/ UNCHANGED running, UNCHANGED loaded
        PROVE  running' \subseteq loaded' /\ loaded' \subseteq Controllers
    BY <2>1 DEF WorldType, SwitchSucceeds, StrictAccepts, Switched, Claim
  <2>2. CASE TeardownSwitch
    BY <1>1, <2>1, <2>2 DEF TeardownSwitch, SwitchFails, Claim
  <2>3. CASE SwitchControllers
    BY <1>1, <2>1, <2>3 DEF SwitchControllers, SwitchFails, QuietSeq
  <2>4. CASE UnloadCompliance \/ ReloadCompliance
    BY <2>4 DEF WorldType, UnloadCompliance, ReloadCompliance, Controllers
  <2>5. CASE UNCHANGED running /\ loaded' = Controllers
    BY <2>5 DEF WorldType
  <2>6. CASE UNCHANGED <<running, loaded>>
    BY <2>6 DEF WorldType
  <2> QED
    BY <2>2, <2>3, <2>4, <2>5, <2>6, CommandFrame, CallbackFrame, WorkerFrame, TickFrame
       DEF Next, vars, worldVars
<1>5. server' \in {"idle", "calling", "polling"} /\ result' \in {None, "succeeded", "preempted", "aborted"}
  <2>1. CASE Operator
    BY <2>1 DEF WorldType, Operator, StartBegin, StopBegin, ResetBegin, ZeroBegin, CalibrateBegin,
                CancelCalibration, QuietSeq, threadVars
  <2>2. CASE CommandStep
    BY <2>2
       DEF WorldType, CommandStep, CheckResidue, ClearResidue, CheckRsi, StartRsi, AwaitFrames,
           PublishIdle, QueryRunning, SwitchControllers, PublishMode, StartVerdict, StartRejected,
           StopVerdict, ResetVerdict, ZeroDone, CalibrateAbort, SequencerStarted,
           SequencerRefuses, GoalAborted, QuietSeq
  <2>3. CASE ServerReports
    BY <2>3 DEF WorldType, ServerReports
  <2> QED
    BY <2>1, <2>2, <2>3, CallbackFrame, WorkerFrame, TickFrame DEF WorldType, Next, vars, threadVars
<1>6. awaiting' \in {"nothing", "tick", "publish"}
  <2>1. ASSUME NEW elapsed, NEW retry_due, Tick(elapsed, retry_due)
        PROVE  awaiting' \in {"nothing", "tick", "publish"}
    BY <2>1 DEF Tick, WorldType
  <2>2. CASE CommandStep
    BY <2>2, CommandMoves DEF Returns, StartRejected, WorldType
  <2>3. CASE Operator
    BY <2>3, OperatorIssues DEF Accepts, WorldType
  <2>4. CASE ServerReports \/ UNCHANGED vars
    BY <2>4 DEF ServerReports, vars, threadVars, WorldType
  <2>5. CASE WorkerStep \/ Callback
    BY <2>5, WorkerFrame, CallbackFrame DEF threadVars, WorldType
  <2> QED
    BY <2>1, <2>2, <2>3, <2>4, <2>5 DEF Next
<1>7. applied' \in {"no", "yes", "failed"}
  <2>1. applied' \in {applied, "no", "yes", "failed"}
    <3>1. CASE UnloadCompliance \/ ReloadCompliance \/ CalibrateBegin
      BY <3>1 DEF UnloadCompliance, ReloadCompliance, CalibrateBegin
    <3> QED
      BY <3>1, CommandFrame, CallbackFrame, WorkerFrame, TickFrame DEF Next, vars, worldVars
  <2> QED
    BY <2>1 DEF WorldType
<1> QED
  BY <1>2, <1>3, <1>4, <1>5, <1>6, <1>7 DEF WorldType

StructInv == TypeInv /\ CmdInv /\ WorkerInv

LEMMA StructInit ==
  ASSUME Init
  PROVE  StructInv
<1>1. Core!TypeOK /\ Sequencer!TypeOK
  BY DEF Init, Core!Init, Core!TypeOK, Core!States, Sequencer!Init, Sequencer!TypeOK,
         Sequencer!Phases, Sequencer!ActivePhases, Sequencer!Failures
<1>2. FlagType
  BY DEF Init, FlagType, EkiFields, RsiFields
<1>3. WorldType
  BY DEF Init, WorldType, Modes, Claim
<1>4. CmdInv
  BY NoCommandFacts DEF Init, CmdInv, StepsOfOp, None
<1>5. WorkerInv
  <2>1. worker = [todo |-> <<>>, start |-> None, stop |-> None] /\ Todo = {}
    BY TeardownSteps DEF Init, Todo
  <2> QED
    BY <2>1, TeardownSteps DEF WorkerInv, Ordered
<1> QED
  BY <1>1, <1>2, <1>3, <1>4, <1>5 DEF StructInv, TypeInv

LEMMA StructStep ==
  ASSUME StructInv, [Next]_vars
  PROVE  StructInv'
<1>1. SequencerMoves /\ CoreMoves
  BY Methods
<1>2. Core!TypeOK' /\ Sequencer!TypeOK'
  BY <1>1, SequencerTypes, CoreTypes DEF StructInv, TypeInv
<1>3. active \in Claim
  BY DEF StructInv, TypeInv, WorldType
<1> QED
  BY <1>2, <1>3, FlagTypes, WorldTypes, CmdStep, PassStep DEF StructInv, TypeInv

LEMMA Structure == Spec => []StructInv
BY StructInit, StructStep, PTL DEF Spec

(* Every variable of the manager and its node keeps its type, the command   *)
(* in progress and the pass of the worker included.                         *)
THEOREM ManagerTypesHold == Spec => []TypeOK
<1>1. StructInv => TypeOK
  <2> SUFFICES ASSUME StructInv
               PROVE  TypeOK
    OBVIOUS
  <2>1. Core!TypeOK /\ Sequencer!TypeOK
    BY DEF StructInv, TypeInv
  <2>2. /\ eki \subseteq EkiFields /\ rsi \subseteq RsiFields
        /\ {eki_fresh, rsi_fresh, sri, tool_synced, controllers_loaded, teardown_done, tracked,
            rushed, entangled} \subseteq BOOLEAN
    BY DEF StructInv, TypeInv, FlagType
  <2>3. cmd \in [op : {None, "start", "undo", "stop", "reset", "zero", "calibrate"},
                 at : Steps, mode : Modes,
                 start : Controllers \cup {None}, stop : Controllers \cup {None}]
    BY DEF StructInv, CmdInv, CmdType, Ops, Claim
  <2>4. worker \in [todo : Seq(WorkerSteps), start : {None}, stop : {None, "correction"}]
    BY DEF StructInv, WorkerInv
  <2>5. /\ {mode, topic} \subseteq Modes
        /\ active \in Controllers \cup {None}
        /\ running \subseteq loaded /\ loaded \subseteq Controllers
        /\ server \in {"idle", "calling", "polling"}
        /\ result \in {None, "succeeded", "preempted", "aborted"}
        /\ applied \in {"no", "yes", "failed"}
        /\ awaiting \in {"nothing", "tick", "publish"}
    BY DEF StructInv, TypeInv, WorldType, Claim
  <2> QED
    BY <2>1, <2>2, <2>3, <2>4, <2>5 DEF TypeOK
<1> QED
  BY <1>1, Structure, PTL

-----------------------------------------------------------------------------
(* The calibration and what ends it.                                        *)

(* Nothing but the start of a sequencer begins a run or its teardown.       *)
LEMMA BusyBegins ==
  ASSUME StructInv, [Next]_vars
  PROVE  /\ Busy' => Busy \/ SequencerStarted
         /\ "finish" \in Todo' => "finish" \in Todo \/ teardown_done'
         /\ ~teardown_done' => ~teardown_done \/ SequencerStarted
<1>1. ASSUME NEW elapsed \in BOOLEAN, NEW retry_due \in BOOLEAN, Tick(elapsed, retry_due)
      PROVE  (Busy' => Busy) /\ (~teardown_done' => ~teardown_done)
             /\ ("finish" \in Todo' => teardown_done')
  BY <1>1, TickTodo DEF StructInv, Busy, Ends
<1>2. CASE WorkerStep
  <2>1. UNCHANGED teardown_done
    BY <1>2, WorkerFrame
  <2>2. "finish" \in Todo' => "finish" \in Todo
    BY <1>2, WorkerMoves DEF StructInv, WorkerMove
  <2> QED
    BY <2>1, <2>2 DEF Busy
<1>3. CASE Operator \/ CommandStep \/ ServerReports
  <2>1. UNCHANGED teardown_done \/ SequencerStarted
    BY <1>3, CommandFrame
  <2>2. Todo' = Todo
    BY <1>3, CommandFrame, WorkerStays DEF StructInv
  <2> QED
    BY <2>1, <2>2 DEF Busy
<1>4. CASE Callback \/ UNCHANGED vars
  <2>1. UNCHANGED <<teardown_done, worker>>
    BY <1>4, CallbackFrame DEF vars, ownVars, threadVars
  <2> QED
    BY <2>1, WorkerStays DEF StructInv, Busy
<1> QED
  BY <1>1, <1>2, <1>3, <1>4 DEF Next

LEMMA CalibrateGoesOn ==
  ASSUME CmdInv, CommandStep, cmd.op = "calibrate",
         ~CalibrateAbort, ~SequencerStarted
  PROVE  cmd'.op = "calibrate"
<1>1. PublishIdle \/ QueryRunning \/ SwitchControllers \/ PublishMode
  BY DEF CommandStep, CheckResidue, ClearResidue, CheckRsi, StartRsi, AwaitFrames, StartVerdict,
         StartRejected, StopVerdict, ResetVerdict, ZeroDone, At
<1>2. \E s \in Steps : cmd' \in {[cmd EXCEPT !.at = s], [Filtered(cmd) EXCEPT !.at = s]}
  BY <1>1 DEF PublishIdle, QueryRunning, SwitchControllers, PublishMode, Goto, SwitchDone,
              SwitchRefused, Steps
<1> QED
  BY <1>2 DEF CmdInv, CmdType, Filtered

(* An active sequencer is one whose teardown is still to come; a supervised *)
(* calibration waits for its command, for the end of its run or for the     *)
(* last side effect of its teardown.                                        *)
OrphanInv ==
  /\ Sequencer!Active => ~teardown_done
  /\ calibrating => cmd.op = "calibrate" \/ ~teardown_done \/ "finish" \in Todo

LEMMA OrphanStep ==
  ASSUME StructInv, StructInv', OrphanInv, [Next]_vars
  PROVE  OrphanInv'
<1>1. ASSUME NEW elapsed \in BOOLEAN, NEW retry_due \in BOOLEAN, Tick(elapsed, retry_due)
      PROVE  OrphanInv'
  <2>1. /\ "finish" \in Todo' <=> Ends
        /\ teardown_done' <=> (teardown_done \/ Ends)
        /\ Todo = {} /\ UNCHANGED cmd
    BY <1>1, TickTodo, TickFrame DEF StructInv
  <2>2. calibrating' => calibrating
    BY <1>1 DEF Tick, Core!Update, Core!Trip, Core!StayFault, Core!SuperviseCalibration,
                Core!SuperviseServo, Core!SuperviseIdle, Core!coreVars
  <2>3. Sequencer!Active' => Sequencer!Active /\ ~Ends
    BY <1>1 DEF Tick, CalibrationSupervised, Sequencer!OnStreamLost, Sequencer!Fail,
                Sequencer!Tick, Sequencer!Active, Sequencer!ActivePhases, Ends, Sequencer!seqVars
  <2> QED
    BY <2>1, <2>2, <2>3 DEF OrphanInv
<1>2. CASE WorkerStep
  <2>1. UNCHANGED <<seqVars, teardown_done, cmd>>
    BY <1>2, WorkerFrame
  <2>2. CASE TeardownFinish
    BY <2>1, <2>2 DEF OrphanInv, TeardownFinish, Core!CalibrationFinished, Sequencer!Active, seqVars
  <2>3. CASE ~TeardownFinish
    <3>1. "finish" \in Todo => "finish" \in Todo'
      BY <1>2, <2>3, WorkerMoves DEF StructInv, WorkerMove
    <3>2. UNCHANGED calibrating
      BY <1>2, <2>3, WorkerFrame DEF coreVars
    <3> QED
      BY <2>1, <3>1, <3>2 DEF OrphanInv, Sequencer!Active, seqVars
  <2> QED
    BY <2>2, <2>3
<1>3. CASE Operator
  <2>1. Todo' = Todo /\ UNCHANGED <<teardown_done>>
    BY <1>3, CommandFrame, WorkerStays DEF StructInv, SequencerStarted, Operator, StartBegin,
       StopBegin, ResetBegin, ZeroBegin, CalibrateBegin, CancelCalibration, QuietOwn, ownVars
  <2>2. Sequencer!Active' => Sequencer!Active
    BY <1>3 DEF Operator, StartBegin, StopBegin, ResetBegin, ZeroBegin, CalibrateBegin,
                CancelCalibration, QuietSeq, seqVars, Sequencer!seqVars, Sequencer!Cancel,
                Sequencer!Fail, Sequencer!Active, Sequencer!ActivePhases
  <2>3. active \in Claim
    BY DEF StructInv, TypeInv, WorldType
  <2>4. calibrating' => calibrating \/ cmd'.op = "calibrate"
    BY <1>3, <2>3, OperatorIssues DEF CancelCalibration, StartBegin, StopBegin, ResetBegin, ZeroBegin, coreVars
  <2>5. cmd'.op = "calibrate" \/ cmd.op # "calibrate"
    BY <1>3, <2>3, OperatorIssues, NoCommandFacts DEF Accepts, None
  <2> QED
    BY <2>1, <2>2, <2>4, <2>5 DEF OrphanInv
<1>4. CASE CommandStep
  <2>1. Todo' = Todo
    BY <1>4, CommandFrame, WorkerStays DEF StructInv
  <2>2. CASE SequencerStarted
    BY <2>2 DEF OrphanInv, SequencerStarted
  <2>3. CASE CalibrateAbort
    BY <2>1, <2>3 DEF OrphanInv, CalibrateAbort, SequencerRefuses, GoalAborted,
                 Core!CalibrationFinished, seqVars, ownVars, Sequencer!Active
  <2>4. CASE ~SequencerStarted /\ ~CalibrateAbort
    <3>1. UNCHANGED <<seqVars, teardown_done>>
      BY <1>4, <2>4, CommandFrame DEF CancelCalibration, CommandStep, CheckResidue, ClearResidue,
         CheckRsi, StartRsi, AwaitFrames, PublishIdle, QueryRunning, SwitchControllers,
         PublishMode, StartVerdict, StartRejected, StopVerdict, ResetVerdict, ZeroDone,
         QuietSeq, QuietOwn
    <3>2. UNCHANGED calibrating
      BY <1>4, <2>4 DEF CommandStep, CheckResidue, ClearResidue,
         CheckRsi, StartRsi, AwaitFrames, PublishIdle, QueryRunning, SwitchControllers,
         PublishMode, StartVerdict, StartRejected, StopVerdict, ResetVerdict, ZeroDone, coreVars,
         Core!RequestStart, Core!RequestStop, Core!RequestReset
    <3>3. cmd.op = "calibrate" => cmd'.op = "calibrate"
      BY <1>4, <2>4, CalibrateGoesOn DEF StructInv
    <3> QED
      BY <2>1, <3>1, <3>2, <3>3 DEF OrphanInv, Sequencer!Active, seqVars
  <2> QED
    BY <2>2, <2>3, <2>4
<1>5. CASE ServerReports \/ UNCHANGED vars
  <2>1. UNCHANGED <<coreVars, seqVars, teardown_done, worker, cmd>>
    BY <1>5 DEF ServerReports, vars, ownVars, threadVars
  <2> QED
    BY <2>1, WorkerStays DEF StructInv, OrphanInv, Sequencer!Active, seqVars, coreVars
<1>6. CASE Callback
  <2>1. Todo' = Todo /\ UNCHANGED <<calibrating, teardown_done, cmd>>
    BY <1>6, CallbackFrame, WorkerStays DEF StructInv, coreVars, threadVars
  <2>2. Sequencer!Active' => Sequencer!Active
    BY <1>6, CallbackFrame DEF seqVars, Sequencer!OnWrench, Sequencer!OnMotionResult,
       Sequencer!MoveEnds, Sequencer!ReturnEnds, Sequencer!Active, Sequencer!ActivePhases,
       Sequencer!seqVars
  <2> QED
    BY <2>1, <2>2 DEF OrphanInv
<1> QED
  BY <1>1, <1>2, <1>3, <1>4, <1>5, <1>6 DEF Next

LEMMA Orphans == Spec => [](StructInv /\ OrphanInv)
<1>1. Init => OrphanInv
  BY DEF Init, OrphanInv, Core!Init, Sequencer!Init, Sequencer!Active, Sequencer!ActivePhases
<1>2. StructInv /\ StructInv' /\ OrphanInv /\ [Next]_vars => OrphanInv'
  BY OrphanStep
<1> QED
  BY <1>1, <1>2, Structure, PTL DEF Spec

(* A run whose teardown is to come has begun.                               *)
BegunInv == ~teardown_done => phase # "IDLE"

LEMMA Begins == Spec => []BegunInv
<1>1. Init => BegunInv
  BY DEF Init, BegunInv
<1>2. StructInv /\ BegunInv /\ [Next]_vars => BegunInv'
  <2> SUFFICES ASSUME StructInv, BegunInv, [Next]_vars, ~teardown_done'
               PROVE  phase' # "IDLE"
    BY DEF BegunInv
  <2>1. CASE SequencerStarted
    BY <2>1 DEF SequencerStarted, Sequencer!Start
  <2>2. CASE ~teardown_done
    BY <2>2, Methods
       DEF BegunInv, SequencerMoves, seqVars, Sequencer!seqVars, Sequencer!Tick, Sequencer!Fail,
           Sequencer!Start, Sequencer!OnWrench, Sequencer!Collect, Sequencer!NextPose,
           Sequencer!Solve, Sequencer!OnMotionResult, Sequencer!MoveEnds, Sequencer!ReturnEnds
  <2> QED
    BY <2>1, <2>2, BusyBegins
<1> QED
  BY <1>1, <1>2, Structure, PTL DEF Spec

(* A calibration that the state machine supervises always has a command, a  *)
(* sequencer, a run whose end the next tick finds, or the last call of its  *)
(* teardown, whatever the operator does, and whenever.                      *)
THEOREM NoCalibrationOrphaned == Spec => []NoOrphanCalibration
<1>1. StructInv /\ OrphanInv /\ BegunInv => NoOrphanCalibration
  BY DEF StructInv, TypeInv, OrphanInv, BegunInv, NoOrphanCalibration, Sequencer!TypeOK,
         Sequencer!Phases, Sequencer!Active
<1> QED
  BY <1>1, Orphans, Begins, PTL

-----------------------------------------------------------------------------
(* What is requested of the state machine.                                  *)

(* A command goes on as itself, returns, or rolls startServo back.          *)
LEMMA CommandGoesOn ==
  ASSUME CmdInv, CommandStep
  PROVE  /\ cmd # NoCommand /\ cmd.op # None
         /\ \/ cmd'.op = cmd.op /\ cmd'.mode = cmd.mode /\ UNCHANGED <<awaiting, rushed>>
            \/ Returns
            \/ /\ StartRejected /\ cmd.op = "start"
               /\ cmd'.op = "undo" /\ cmd'.at = "idle" /\ UNCHANGED <<awaiting, rushed>>
<1>1. cmd # NoCommand /\ cmd.op # None
  BY CommandMoves DEF CmdInv
<1>2. ASSUME NEW s \in StepsOfOp(cmd.op),
             cmd' \in {[cmd EXCEPT !.at = s], [Filtered(cmd) EXCEPT !.at = s]}
      PROVE  cmd'.op = cmd.op /\ cmd'.mode = cmd.mode
  BY <1>2 DEF CmdInv, CmdType, Filtered
<1>3. ASSUME StartRejected
      PROVE  /\ cmd.op = "start" /\ cmd'.op = "undo" /\ cmd'.at = "idle"
             /\ UNCHANGED <<awaiting, rushed>>
  BY <1>3 DEF StartRejected, At, CmdInv, CmdType
<1> QED
  BY <1>1, <1>2, <1>3, CommandMoves

(* A patient operator starts, stops and calibrates only from a state that   *)
(* was published after the last command returned.                           *)
Patient == Hasty \subseteq {"zero", "reset"}

(* With a patient operator no request meets another that is still pending.  *)
FlagInv ==
  /\ ~(servo_requested /\ calibrating)
  /\ state = "FAULT" => ~servo_requested /\ ~calibrating
  /\ calibrating => state \in {"READY", "CALIBRATING"}
  /\ cmd.op \in {"start", "undo"} => ~servo_requested /\ ~calibrating
  /\ cmd.op = "calibrate" => ~servo_requested
  /\ cmd.op = "stop" =>
       ~calibrating /\ (servo_requested => state \in {"SERVOING", "DEGRADED"})
  /\ cmd.op = None /\ awaiting # "tick" =>
       /\ servo_requested => state \in {"SERVOING", "DEGRADED"}
       /\ calibrating => state = "CALIBRATING"

LEMMA UpdateFlags ==
  ASSUME FlagInv, NEW in, Core!Update(in)
  PROVE  /\ servo_requested' => servo_requested /\ state' \in {"SERVOING", "DEGRADED"}
         /\ calibrating' => calibrating /\ state' = "CALIBRATING"
         /\ state' = "FAULT" => ~servo_requested' /\ ~calibrating'
         /\ state' # "FAULT" =>
              /\ state # "FAULT"
              /\ servo_requested' <=> servo_requested
              /\ calibrating' <=> calibrating
         /\ state' \in {"SERVOING", "DEGRADED"} => servo_requested'
         /\ state' = "CALIBRATING" => calibrating'
<1>1. CASE Core!Trip(in)
  BY <1>1 DEF Core!Trip
<1>2. CASE Core!StayFault(in)
  BY <1>2 DEF Core!StayFault, Core!coreVars, FlagInv
<1>3. CASE Core!SuperviseCalibration(in)
  <2>1. CASE Core!CalibrationLinkOk(in)
    BY <1>3, <2>1 DEF Core!SuperviseCalibration, FlagInv
  <2>2. CASE ~Core!CalibrationLinkOk(in)
    BY <1>3, <2>2 DEF Core!SuperviseCalibration, FlagInv
  <2> QED
    BY <2>1, <2>2
<1>4. CASE Core!SuperviseServo(in)
  BY <1>4 DEF Core!SuperviseServo
<1>5. CASE Core!SuperviseIdle(in)
  BY <1>5 DEF Core!SuperviseIdle
<1> QED
  BY <1>1, <1>2, <1>3, <1>4, <1>5 DEF Core!Update

LEMMA FlagStep ==
  ASSUME Patient, StructInv, FlagInv, [Next]_vars
  PROVE  FlagInv'
<1>1. ASSUME NEW elapsed \in BOOLEAN, NEW retry_due \in BOOLEAN, Tick(elapsed, retry_due)
      PROVE  FlagInv'
  <2>1. UNCHANGED cmd
    BY <1>1, TickFrame
  <2>2. Core!Update(Health)
    BY <1>1 DEF Tick
  <2> QED
    BY <2>1, <2>2, UpdateFlags DEF FlagInv
<1>2. CASE WorkerStep
  <2>1. UNCHANGED cmd /\ (awaiting = "tick" => awaiting' = "tick")
    BY <1>2, WorkerFrame
  <2>2. UNCHANGED coreVars \/ (UNCHANGED <<state, servo_requested>> /\ ~calibrating')
    BY <1>2, WorkerFrame DEF TeardownFinish, Core!CalibrationFinished
  <2> QED
    BY <2>1, <2>2 DEF FlagInv, coreVars
<1>3. CASE Operator
  <2>1. active \in Claim
    BY DEF StructInv, TypeInv, WorldType
  <2>2. CASE CancelCalibration
    BY <2>2 DEF CancelCalibration, FlagInv, coreVars, threadVars
  <2>3. CASE ~CancelCalibration
    <3>1. /\ Accepts(cmd'.op) /\ cmd.op = None
          /\ cmd'.op \in {"start", "stop", "calibrate"} =>
               /\ servo_requested => state \in {"SERVOING", "DEGRADED"}
               /\ calibrating => state = "CALIBRATING"
      <4>1. Accepts(cmd'.op)
        BY <1>3, <2>1, <2>3, OperatorIssues
      <4> QED
        BY <4>1, NoCommandFacts DEF Accepts, Patient, FlagInv
    <3>2. ASSUME NEW m \in ServoModes, StartBegin(m), cmd'.op = "start"
          PROVE  FlagInv'
      BY <3>1, <3>2 DEF StartBegin, coreVars, FlagInv, None
    <3>3. ASSUME StopBegin, cmd'.op = "stop"
          PROVE  FlagInv'
      BY <3>1, <3>3 DEF StopBegin, Core!StopAccepts, coreVars, FlagInv, None
    <3>4. ASSUME ResetBegin, cmd'.op = "reset"
          PROVE  FlagInv'
      BY <3>4 DEF ResetBegin, coreVars, FlagInv, None
    <3>5. ASSUME ZeroBegin, cmd'.op = "zero"
          PROVE  FlagInv'
      BY <3>5 DEF ZeroBegin, coreVars, FlagInv, None
    <3>6. ASSUME CalibrateBegin, cmd'.op = "calibrate"
          PROVE  FlagInv'
      BY <3>1, <3>6 DEF CalibrateBegin, Core!RequestCalibration, Core!CalibrationAccepts, FlagInv,
                        None
    <3> QED
      BY <1>3, <2>1, <2>3, <3>2, <3>3, <3>4, <3>5, <3>6, OperatorIssues
  <2> QED
    BY <2>2, <2>3
<1>4. CASE CommandStep
  <2>1. /\ cmd.op # None
        /\ \/ cmd'.op = cmd.op /\ UNCHANGED awaiting
           \/ cmd'.op = None /\ awaiting' = "tick"
           \/ cmd.op = "start" /\ cmd'.op = "undo"
    BY <1>4, CommandGoesOn, NoCommandFacts DEF StructInv, Returns
  <2>2. CASE UNCHANGED coreVars
    BY <2>1, <2>2 DEF FlagInv, coreVars, None
  <2>3. CASE StartVerdict
    BY <2>3, NoCommandFacts
       DEF StartVerdict, At, Core!RequestStart, Core!StartAccepts, Returns, FlagInv, None
  <2>4. CASE StopVerdict
    BY <2>4, NoCommandFacts
       DEF StopVerdict, At, Core!RequestStop, coreVars, Returns, FlagInv, None
  <2>5. CASE ResetVerdict
    BY <2>5, NoCommandFacts
       DEF ResetVerdict, At, Core!RequestReset, Core!ResetAccepts, coreVars, Returns, FlagInv, None
  <2>6. CASE CalibrateAbort
    BY <2>6, NoCommandFacts
       DEF CalibrateAbort, SequencerRefuses, GoalAborted, Core!CalibrationFinished, Returns,
           FlagInv, None
  <2>7. CASE CalibrateBegin
    BY <1>4, <2>7, CommandMoves DEF StructInv, CalibrateBegin, Issue, MayIssue
  <2> QED
    BY <1>4, <2>2, <2>3, <2>4, <2>5, <2>6, <2>7, CommandFrame
<1>5. CASE ServerReports \/ UNCHANGED vars
  BY <1>5 DEF ServerReports, vars, threadVars, coreVars, FlagInv
<1>6. CASE Callback
  BY <1>6, CallbackFrame DEF threadVars, coreVars, FlagInv
<1> QED
  BY <1>1, <1>2, <1>3, <1>4, <1>5, <1>6 DEF Next

LEMMA Flags ==
  ASSUME Patient
  PROVE  Spec => [](StructInv /\ FlagInv)
<1>1. Init => FlagInv
  BY NoCommandFacts DEF Init, Core!Init, FlagInv, None
<1>2. StructInv /\ FlagInv /\ [Next]_vars => FlagInv'
  BY FlagStep
<1> QED
  BY <1>1, <1>2, Structure, PTL DEF Spec

(* The manager, all its threads included, keeps the contract with a patient *)
(* operator, who may yet tare and reset at any time: serving and            *)
(* calibrating never overlap, either begins only from standstill, and a     *)
(* fault ends both and latches.                                             *)
THEOREM ManagerKeepsContract ==
  ASSUME Patient
  PROVE  Spec => KeepsContract
<1> USE DEF Duty
<1>1. Init => Contract!Init
  BY DEF Init, Core!Init, Contract!Init
<1>2. StructInv /\ FlagInv /\ [Next]_vars => [Contract!Next]_Duty
  <2> SUFFICES ASSUME StructInv, FlagInv, [Next]_vars
               PROVE  Contract!Next \/ UNCHANGED Duty
    OBVIOUS
  <2>1. ASSUME NEW elapsed \in BOOLEAN, NEW retry_due \in BOOLEAN, Tick(elapsed, retry_due)
        PROVE  Duty' = "latched" \/ UNCHANGED Duty
    <3>1. Core!Update(Health)
      BY <2>1 DEF Tick
    <3> QED
      BY <3>1, UpdateFlags
  <2>2. ASSUME UNCHANGED <<state, servo_requested>>, ~calibrating'
        PROVE  Contract!Finish \/ UNCHANGED Duty
    BY <2>2 DEF FlagInv, Contract!Finish, Contract!From
  <2>3. CASE UNCHANGED coreVars
    BY <2>3 DEF coreVars
  <2>4. ASSUME StartVerdict
        PROVE  Contract!Start
    BY <2>4 DEF StartVerdict, At, Core!RequestStart, Core!StartAccepts, FlagInv, Contract!Start,
                Contract!From
  <2>5. ASSUME StopVerdict
        PROVE  Contract!Stop \/ UNCHANGED Duty
    BY <2>5 DEF StopVerdict, At, Core!RequestStop, Core!StopAccepts, coreVars, FlagInv,
                Contract!Stop, Contract!From
  <2>6. ASSUME ResetVerdict
        PROVE  Contract!Reset \/ UNCHANGED Duty
    BY <2>6 DEF ResetVerdict, At, Core!RequestReset, Core!ResetAccepts, coreVars, FlagInv,
                Contract!Reset, Contract!From
  <2>7. ASSUME CalibrateBegin
        PROVE  Contract!Calibrate
    BY <2>7, NoCommandFacts
       DEF Patient, CalibrateBegin, Issue, MayIssue, Core!RequestCalibration, Core!CalibrationAccepts,
           FlagInv, Contract!Calibrate, Contract!From
  <2>8. CASE Operator \/ CommandStep \/ ServerReports
    <3>1. CASE CalibrateAbort
      BY <2>2, <3>1 DEF CalibrateAbort, SequencerRefuses, GoalAborted, Core!CalibrationFinished,
                        Contract!Next
    <3> QED
      BY <2>3, <2>4, <2>5, <2>6, <2>7, <2>8, <3>1, CommandFrame DEF Contract!Next
  <2>9. CASE WorkerStep
    BY <2>2, <2>3, <2>9, WorkerFrame DEF TeardownFinish, Core!CalibrationFinished, Contract!Next
  <2>10. CASE Callback \/ UNCHANGED vars
    BY <2>3, <2>10, CallbackFrame DEF vars
  <2> QED
    BY <2>1, <2>8, <2>9, <2>10 DEF Next, Contract!Next, Contract!Trip
<1> QED
  BY <1>1, <1>2, Flags, PTL DEF Spec, KeepsContract, Contract!Spec

-----------------------------------------------------------------------------
(* Taring.                                                                  *)

(* The command in progress is the one that was, or one that the operator    *)
(* has just issued.                                                         *)
LEMMA CommandBegins ==
  ASSUME StructInv, [Next]_vars
  PROVE  \/ cmd'.op = None
         \/ cmd'.op = cmd.op /\ cmd'.mode = cmd.mode /\ cmd.op # None /\ UNCHANGED rushed
         \/ cmd.op = "start" /\ StartRejected /\ cmd'.op = "undo" /\ cmd'.at = "idle"
         \/ /\ Accepts(cmd'.op)
            /\ \/ /\ \E m \in ServoModes : StartBegin(m)
                  /\ cmd'.op = "start"
               \/ StopBegin /\ cmd'.op = "stop"
               \/ ResetBegin /\ cmd'.op = "reset"
               \/ ZeroBegin /\ cmd'.op = "zero"
               \/ CalibrateBegin /\ cmd'.op = "calibrate" /\ cmd'.mode = "CALIBRATION"
<1>1. CASE UNCHANGED <<cmd, rushed>>
  BY <1>1
<1>2. CASE WorkerStep \/ Callback \/ ServerReports \/ UNCHANGED vars
  BY <1>1, <1>2, WorkerFrame, CallbackFrame DEF ServerReports, vars, threadVars, historyVars
<1>3. ASSUME NEW elapsed \in BOOLEAN, NEW retry_due \in BOOLEAN, Tick(elapsed, retry_due)
      PROVE  UNCHANGED <<cmd, rushed>>
  BY <1>3, TickFrame DEF historyVars
<1>4. CASE CommandStep
  BY <1>4, CommandGoesOn, NoCommandFacts DEF StructInv, Returns
<1>5. CASE Operator
  <2>1. active \in Claim
    BY DEF StructInv, TypeInv, WorldType
  <2> QED
    BY <1>1, <1>5, <2>1, OperatorIssues DEF historyVars
<1> QED
  BY <1>1, <1>2, <1>3, <1>4, <1>5 DEF Next

(* Once a tick has seen it, a request shows in the state.                   *)
TareInv ==
  /\ cmd.op = None /\ awaiting # "tick" /\ (servo_requested \/ calibrating) =>
       state \notin {"CONNECTED", "READY"}
  /\ cmd.op = "zero" /\ ~rushed => ~servo_requested /\ ~calibrating

LEMMA TareStep ==
  ASSUME StructInv, TareInv, [Next]_vars
  PROVE  TareInv'
<1>1. ASSUME NEW elapsed \in BOOLEAN, NEW retry_due \in BOOLEAN, Tick(elapsed, retry_due)
      PROVE  TareInv'
  <2>1. UNCHANGED <<cmd, rushed>>
    BY <1>1, TickFrame DEF historyVars
  <2>2. /\ servo_requested' => servo_requested
        /\ calibrating' => calibrating
        /\ servo_requested' \/ calibrating' => state' \notin {"CONNECTED", "READY"}
    BY <1>1 DEF Tick, Core!Update, Core!Trip, Core!StayFault, Core!SuperviseCalibration,
                Core!SuperviseServo, Core!SuperviseIdle, Core!coreVars
  <2> QED
    BY <2>1, <2>2 DEF TareInv
<1>2. CASE WorkerStep
  <2>1. UNCHANGED <<cmd, rushed>> /\ (awaiting = "tick" => awaiting' = "tick")
    BY <1>2, WorkerFrame DEF historyVars
  <2>2. UNCHANGED coreVars \/ (UNCHANGED <<state, servo_requested>> /\ ~calibrating')
    BY <1>2, WorkerFrame DEF TeardownFinish, Core!CalibrationFinished
  <2> QED
    BY <2>1, <2>2 DEF TareInv, coreVars
<1>3. CASE Operator
  <2>1. active \in Claim
    BY DEF StructInv, TypeInv, WorldType
  <2>2. CASE CancelCalibration
    BY <2>2 DEF CancelCalibration, TareInv, coreVars, threadVars, historyVars
  <2>3. CASE ~CancelCalibration
    <3>1. Accepts(cmd'.op) /\ cmd'.op # None
      BY <1>3, <2>1, <2>3, OperatorIssues DEF None
    <3>2. cmd'.op = "zero" => ZeroBegin
      BY <1>3, <2>1, <2>3, OperatorIssues
    <3>3. ZeroBegin => state \in {"CONNECTED", "READY"} /\ UNCHANGED coreVars
      BY DEF ZeroBegin, Core!AllowZeroSensor
    <3>4. cmd.op = None /\ (~rushed' => awaiting # "tick")
      BY <3>1, NoCommandFacts DEF Accepts
    <3> QED
      BY <3>1, <3>2, <3>3, <3>4 DEF TareInv, coreVars
  <2> QED
    BY <2>2, <2>3
<1>4. CASE CommandStep
  <2>1. \/ cmd'.op \in {cmd.op, "undo"} /\ cmd.op # None /\ UNCHANGED rushed
        \/ cmd'.op = None /\ awaiting' = "tick"
    BY <1>4, CommandGoesOn, NoCommandFacts DEF StructInv, Returns
  <2>2. CASE cmd.op = "zero" /\ cmd'.op = "zero"
    <3>1. ZeroDone \/ UNCHANGED coreVars
      BY <1>4, <2>2, CommandFrame
         DEF StartVerdict, StopVerdict, ResetVerdict, CalibrateBegin, CalibrateAbort,
             SequencerRefuses, At, Issue, MayIssue, NoCommand, None
    <3>2. UNCHANGED coreVars
      BY <3>1 DEF ZeroDone
    <3> QED
      BY <2>1, <2>2, <3>2 DEF TareInv, coreVars, None
  <2>3. CASE ~(cmd.op = "zero" /\ cmd'.op = "zero")
    BY <2>1, <2>3 DEF TareInv, None
  <2> QED
    BY <2>2, <2>3
<1>5. CASE ServerReports \/ UNCHANGED vars
  BY <1>5 DEF ServerReports, vars, threadVars, coreVars, historyVars, TareInv
<1>6. CASE Callback
  BY <1>6, CallbackFrame DEF threadVars, coreVars, historyVars, TareInv
<1> QED
  BY <1>1, <1>2, <1>3, <1>4, <1>5, <1>6 DEF Next

(* A tare meets a request only in the gap between that request and the tick *)
(* that follows it, for every operator, hasty in every command or in none:  *)
(* between the verdict of zeroSensor and the zeroing, outside mutex_,       *)
(* nothing can raise one.                                                   *)
THEOREM TareMeetsOnlyFresh == Spec => []ZeroMeetsOnlyFreshRequests
<1>1. Init => TareInv
  BY NoCommandFacts DEF Init, Core!Init, TareInv, None
<1>2. StructInv /\ TareInv /\ [Next]_vars => TareInv'
  BY TareStep
<1>3. StructInv /\ TareInv => ZeroMeetsOnlyFreshRequests
  BY DEF StructInv, TypeInv, FlagType, TareInv, ZeroMeetsOnlyFreshRequests
<1> QED
  BY <1>1, <1>2, <1>3, Structure, PTL DEF Spec

-----------------------------------------------------------------------------
(* Calibrating and serving, for every operator.  A reset, or the next       *)
(* calibration, that the code accepts while a run or its teardown goes on   *)
(* takes the supervision away from under that run (entangled).  Until then, *)
(* and again from the next calibration that begins from rest, a run is      *)
(* supervised, or winds up in FAULT.                                        *)

RestInv ==
  /\ Busy => calibrating \/ state = "FAULT"
  /\ cmd.op = "calibrate" => ~Busy /\ (calibrating \/ state = "FAULT")
  /\ "finish" \in Todo => teardown_done

(* What ends the supervision of a calibration, or a fault.                  *)
LEMMA SupervisionEnds ==
  ASSUME [Next]_vars
  PROVE  \/ calibrating \/ state = "FAULT" => calibrating' \/ state' = "FAULT"
         \/ TeardownFinish
         \/ ResetVerdict
         \/ CalibrateAbort
<1> DEFINE Held == calibrating \/ state = "FAULT"
<1>1. ASSUME NEW elapsed \in BOOLEAN, NEW retry_due \in BOOLEAN, Tick(elapsed, retry_due)
      PROVE  Held => Held'
  BY <1>1 DEF Tick, Core!Update, Core!Trip, Core!StayFault, Core!SuperviseCalibration,
              Core!SuperviseServo, Core!SuperviseIdle, Core!coreVars
<1>2. CASE UNCHANGED coreVars \/ StartVerdict \/ StopVerdict \/ CalibrateBegin
  BY <1>2 DEF coreVars, StartVerdict, Core!RequestStart, StopVerdict, Core!RequestStop,
              CalibrateBegin, Core!RequestCalibration
<1>3. CASE Callback \/ UNCHANGED vars
  BY <1>2, <1>3, CallbackFrame DEF vars
<1> QED
  BY <1>1, <1>2, <1>3, WorkerFrame, CommandFrame DEF Next

(* How the entanglement begins and ends.                                    *)
LEMMA Untangled ==
  ASSUME StructInv, [Next]_vars, ~entangled'
  PROVE  /\ CalibrateBegin => ~Busy /\ ~Busy' /\ cmd'.op = "calibrate" /\ cmd'.at = "idle"
         /\ ~entangled \/ CalibrateBegin
         /\ ResetVerdict => ~entangled /\ (Busy => UNCHANGED coreVars)
<1>1. ASSUME CalibrateBegin
      PROVE  ~Busy /\ ~Busy' /\ cmd'.op = "calibrate" /\ cmd'.at = "idle"
  <2>1. ~Busy
    BY <1>1 DEF CalibrateBegin
  <2>2. UNCHANGED <<teardown_done, worker>>
    BY <1>1 DEF CalibrateBegin, QuietOwn
  <2>3. cmd'.op = "calibrate" /\ cmd'.at = "idle"
    BY <1>1 DEF CalibrateBegin, Issue
  <2> QED
    BY <2>1, <2>2, <2>3, WorkerStays DEF StructInv, Busy
<1>2. ASSUME ResetVerdict
      PROVE  ~entangled /\ (Busy => UNCHANGED coreVars)
  <2>1. CASE entangled' = (entangled \/ Busy)
    BY <2>1
  <2>2. CASE UNCHANGED <<coreVars, entangled>>
    BY <2>2
  <2> QED
    BY <1>2, <2>1, <2>2 DEF ResetVerdict
<1>3. ~entangled \/ CalibrateBegin
  BY <1>2, CommandFrame, WorkerFrame, TickFrame, CallbackFrame DEF Next, vars, historyVars
<1> QED
  BY <1>1, <1>2, <1>3

LEMMA RestBegins ==
  ASSUME StructInv, [Next]_vars, CalibrateBegin, ~entangled'
  PROVE  RestInv'
<1>1. ~Busy' /\ calibrating'
  BY Untangled DEF CalibrateBegin, Core!RequestCalibration
<1> QED
  BY <1>1 DEF RestInv, Busy

LEMMA RestStep ==
  ASSUME StructInv, RestInv, [Next]_vars, ~entangled'
  PROVE  RestInv'
<1>1. /\ Busy' => Busy \/ SequencerStarted
      /\ "finish" \in Todo' => "finish" \in Todo \/ teardown_done'
      /\ ~teardown_done' => ~teardown_done \/ SequencerStarted
  BY BusyBegins
<1>2. SequencerStarted => /\ cmd.op = "calibrate" /\ cmd'.op = None
                          /\ UNCHANGED coreVars /\ Todo' = Todo
  BY NoCommandFacts, WorkerStays DEF SequencerStarted, At, Returns, StructInv
<1>3. ASSUME TeardownFinish
      PROVE  "finish" \in Todo /\ ~Busy'
  <2>1. WorkerStep
    BY <1>3 DEF WorkerStep
  <2>2. AtWorker("finish") /\ worker' = [worker EXCEPT !.todo = Tail(@)]
    BY <1>3 DEF TeardownFinish, WorkerStepDone
  <2>3. /\ "finish" \in Todo
        /\ Ordered(Tail(worker.todo)) /\ StepsOf(Tail(worker.todo)) = Todo \ {"finish"}
    BY <2>2, AtHead DEF StructInv
  <2>4. Todo' = Todo \ {"finish"}
    BY <2>2, <2>3, TailFacts DEF StructInv
  <2>5. UNCHANGED teardown_done
    BY <2>1, WorkerFrame
  <2> QED
    BY <2>3, <2>4, <2>5 DEF Busy, RestInv
<1>4. Busy' => calibrating' \/ state' = "FAULT"
  <2> SUFFICES ASSUME Busy'
               PROVE  calibrating' \/ state' = "FAULT"
    OBVIOUS
  <2>1. CASE SequencerStarted
    BY <1>2, <2>1 DEF RestInv, coreVars
  <2>2. CASE Busy
    <3>1. ~CalibrateAbort
      BY <2>2 DEF CalibrateAbort, SequencerRefuses, At, RestInv
    <3>2. ResetVerdict => UNCHANGED coreVars
      BY <2>2, Untangled
    <3> QED
      BY <1>3, <2>2, <3>1, <3>2, SupervisionEnds DEF RestInv, coreVars
  <2> QED
    BY <1>1, <2>1, <2>2
<1>5. cmd'.op = "calibrate" => ~Busy' /\ (calibrating' \/ state' = "FAULT")
  <2> SUFFICES ASSUME cmd'.op = "calibrate"
               PROVE  ~Busy' /\ (calibrating' \/ state' = "FAULT")
    OBVIOUS
  <2>1. CASE CalibrateBegin
    BY <2>1, RestBegins, Untangled DEF CalibrateBegin, Core!RequestCalibration
  <2>2. CASE cmd.op = "calibrate"
    <3>1. ~ResetVerdict
      BY <2>2 DEF ResetVerdict, At
    <3>2. ~CalibrateAbort
      BY NoCommandFacts DEF CalibrateAbort, GoalAborted, Returns, None
    <3>3. ~Busy /\ "finish" \notin Todo
      BY <2>2 DEF RestInv, Busy
    <3>4. ~Busy'
      BY <1>1, <1>2, <3>3 DEF None
    <3> QED
      BY <1>3, <2>2, <3>1, <3>2, <3>3, <3>4, SupervisionEnds DEF RestInv
  <2> QED
    BY <2>1, <2>2, CommandBegins DEF None
<1>6. "finish" \in Todo' => teardown_done'
  <2>1. CASE SequencerStarted
    BY <1>2, <2>1 DEF RestInv, Busy
  <2> QED
    BY <1>1, <2>1 DEF RestInv
<1> QED
  BY <1>4, <1>5, <1>6 DEF RestInv

(* SERVING is never reported over a supervised calibration.                 *)
SoleInv == state = "SERVOING" => ~calibrating

LEMMA Soles == Spec => []SoleInv
<1>1. Init => SoleInv
  BY DEF Init, Core!Init, SoleInv
<1>2. SoleInv /\ [Next]_vars => SoleInv'
  <2> SUFFICES ASSUME SoleInv, [Next]_vars
               PROVE  SoleInv'
    OBVIOUS
  <2>1. ASSUME NEW elapsed \in BOOLEAN, NEW retry_due \in BOOLEAN, Tick(elapsed, retry_due)
        PROVE  SoleInv'
    BY <2>1 DEF SoleInv, Tick, Core!Update, Core!Trip, Core!StayFault, Core!coreVars,
                Core!SuperviseCalibration, Core!SuperviseServo, Core!SuperviseIdle
  <2>2. CASE UNCHANGED coreVars \/ TeardownFinish
    BY <2>2 DEF SoleInv, coreVars, TeardownFinish, Core!CalibrationFinished
  <2>3. CASE Operator \/ CommandStep \/ ServerReports
    BY <2>2, <2>3, CommandFrame
       DEF SoleInv, coreVars, StartVerdict, Core!RequestStart, StopVerdict, Core!RequestStop,
           ResetVerdict, Core!RequestReset, CalibrateBegin, Core!RequestCalibration,
           Core!CalibrationAccepts, CalibrateAbort, GoalAborted, Core!CalibrationFinished
  <2> QED
    BY <2>1, <2>2, <2>3, WorkerFrame, CallbackFrame DEF Next, vars
<1> QED
  BY <1>1, <1>2, PTL DEF Spec

LEMMA Rest == Spec => [](StructInv /\ OrphanInv /\ (~entangled => RestInv))
<1>1. Init => RestInv
  BY NoCommandFacts, TeardownSteps DEF Init, RestInv, Busy, Todo, None
<1>2. StructInv /\ (~entangled => RestInv) /\ [Next]_vars => (~entangled => RestInv)'
  BY Untangled, RestBegins, RestStep
<1> QED
  BY <1>1, <1>2, Orphans, PTL DEF Spec

(* Design spec, section 9: calibration must not run while SERVOING.  The    *)
(* code keeps this in every order of commands, calls and faults, with the   *)
(* one exception of a run that a reset, or the next calibration, was        *)
(* allowed to overtake before it was torn down.                             *)
THEOREM ServesOverEntangledOnly == Spec => []CalibrationMeetsServoEntangled
<1>1. StructInv /\ OrphanInv /\ (~entangled => RestInv) /\ SoleInv
      => CalibrationMeetsServoEntangled
  BY DEF StructInv, TypeInv, FlagType, OrphanInv, RestInv, SoleInv, Busy,
         CalibrationMeetsServoEntangled
<1> QED
  BY <1>1, Rest, Soles, PTL

-----------------------------------------------------------------------------
(* What runs and what it has been told, with a patient operator and as long *)
(* as no run is entangled.                                                  *)

Arming == {"start", "undo", "stop", "calibrate"}

(* No command touches the controllers while a run or its teardown goes on.  *)
ClearInv == cmd.op \in Arming => ~Busy

LEMMA ClearStep ==
  ASSUME Patient, StructInv, FlagInv, RestInv, ClearInv, [Next]_vars, ~entangled'
  PROVE  ClearInv'
<1> SUFFICES ASSUME cmd'.op \in Arming, Busy'
             PROVE  FALSE
  BY DEF ClearInv
<1>1. SequencerStarted => cmd'.op = None
  BY NoCommandFacts DEF SequencerStarted, Returns
<1>2. Busy
  BY <1>1, BusyBegins DEF Arming, None
<1>3. cmd.op \notin Arming
  BY <1>2 DEF ClearInv
<1>4. ~CalibrateBegin
  BY <1>2, Untangled
<1>5. Accepts(cmd'.op) /\ cmd'.op \in {"start", "stop"}
      /\ ((\E m \in ServoModes : StartBegin(m)) \/ StopBegin)
  BY <1>3, <1>4, CommandBegins DEF Arming, None
<1>6. cmd.op = None /\ awaiting # "tick" /\ state \in {"READY", "SERVOING", "DEGRADED"}
  BY <1>5, NoCommandFacts DEF Accepts, Patient, StartBegin, StopBegin, Core!StopAccepts
<1> QED
  BY <1>2, <1>6 DEF FlagInv, RestInv

Begun == {"residue", "clear", "rsi", "start_rsi", "wait", "idle", "query"}

(* What startServo and beginCalibration aim at and have reached.            *)
AimInv ==
  /\ cmd.op = "calibrate" => cmd.mode = "CALIBRATION"
  /\ cmd.op \in {"start", "calibrate"} =>
       /\ cmd.at \in Begun => cmd.start = Target(cmd.mode) /\ cmd.stop = Other(cmd.mode)
       /\ cmd.at = "switch" =>
            /\ cmd.start = IF Target(cmd.mode) \in running THEN None ELSE Target(cmd.mode)
            /\ cmd.stop = IF Other(cmd.mode) \in running THEN Other(cmd.mode) ELSE None
       /\ cmd.at \in {"mode", "verdict"} => running = {Target(cmd.mode)}
       /\ cmd.at = "verdict" => topic = cmd.mode

(* Controllers are switched under IDLE only.                                *)
SwitchInv ==
  /\ cmd.at \in {"query", "switch", "mode", "abort"} => topic = "IDLE"
  /\ cmd.op = "stop" /\ cmd.at = "verdict" => topic = "IDLE"
  /\ "finish" \in Todo /\ "idle" \notin Todo => topic = "IDLE"

ServoInv ==
  servo_requested /\ cmd.op # "stop" =>
    running = {Target(mode)} /\ topic = mode /\ active = Target(mode)

(* A command has armed the world, and its verdict or roll back is to come,  *)
(* or a calibration begins, whatever it finds, by publishing IDLE.          *)
Armed ==
  \/ cmd.op \in {"start", "calibrate"} /\ cmd.at = "verdict"
  \/ cmd.op = "undo" /\ cmd.at = "idle"
  \/ cmd.op = "calibrate" /\ cmd.at = "idle"

Known ==
  topic # "IDLE" /\ running # {} =>
    \/ running = {active} /\ topic = mode
    \/ SamplesPerPose = 0 /\ topic = "CALIBRATION"

DriveInv == AimInv /\ SwitchInv /\ ServoInv /\ (~Armed => Known)

LEMMA DriveStays ==
  ASSUME DriveInv, UNCHANGED <<cmd, mode, active, running, topic>>,
         servo_requested' => servo_requested,
         "finish" \in Todo' /\ "idle" \notin Todo' => "finish" \in Todo /\ "idle" \notin Todo
  PROVE  DriveInv'
<1>1. AimInv'
  BY DEF DriveInv, AimInv
<1>2. SwitchInv'
  BY DEF DriveInv, SwitchInv
<1>3. ServoInv'
  BY DEF DriveInv, ServoInv
<1>4. ~Armed' => Known'
  BY DEF DriveInv, Armed, Known
<1> QED
  BY <1>1, <1>2, <1>3, <1>4 DEF DriveInv

LEMMA DriveWorker ==
  ASSUME StructInv, FlagInv, RestInv, ClearInv, DriveInv, WorkerStep
  PROVE  DriveInv'
<1>1. /\ UNCHANGED cmd
      /\ UNCHANGED coreVars \/ TeardownFinish
      /\ UNCHANGED <<mode, active>> \/ TeardownFinish
      /\ UNCHANGED running \/ TeardownSwitch
      /\ UNCHANGED topic \/ TeardownIdle
      /\ WorkerMove
  BY WorkerFrame, WorkerMoves DEF StructInv
<1>2. UNCHANGED servo_requested
  BY <1>1 DEF TeardownFinish, Core!CalibrationFinished, coreVars
<1>3. CASE "finish" \notin Todo
  <2>1. "finish" \notin Todo'
    BY <1>1, <1>3 DEF WorkerMove
  <2>2. "idle" \notin Todo /\ "switch" \notin Todo
    BY <1>3 DEF StructInv, WorkerInv
  <2>3. UNCHANGED <<mode, active, running, topic>>
    BY <1>1, <1>3, <2>2, AtHead DEF StructInv, TeardownFinish, TeardownSwitch, TeardownIdle
  <2> QED
    BY <1>1, <1>2, <2>1, <2>3, DriveStays
<1>4. CASE "finish" \in Todo
  <2>1. cmd.op \notin Arming /\ ~servo_requested
    BY <1>4 DEF ClearInv, RestInv, Busy, FlagInv
  <2>2. cmd.at \in {None, "verdict", "zeroing"}
    BY <2>1 DEF StructInv, CmdInv, CmdType, Ops, StepsOfOp, Arming, None
  <2>3. AimInv' /\ ServoInv'
    BY <1>1, <1>2, <2>1 DEF AimInv, ServoInv, Arming
  <2>4. topic' = "IDLE" \/ UNCHANGED topic
    BY <1>1 DEF TeardownIdle
  <2>5. "finish" \in Todo' /\ "idle" \notin Todo' => topic' = "IDLE"
    BY <1>1, <1>4, <2>4 DEF DriveInv, SwitchInv, WorkerMove, TeardownIdle
  <2>6. SwitchInv'
    BY <1>1, <2>1, <2>2, <2>5 DEF SwitchInv, Arming, None
  <2>7. Known'
    <3>1. CASE UNCHANGED <<mode, active, running, topic>>
      BY <2>1, <3>1 DEF DriveInv, Armed, Arming, Known
    <3>2. CASE TeardownIdle
      BY <3>2 DEF TeardownIdle, Known
    <3>3. CASE TeardownSwitch \/ TeardownFinish
      <4>1. "idle" \notin Todo
        BY <3>3, AtHead DEF StructInv, TeardownSwitch, TeardownFinish, Rank
      <4>2. topic = "IDLE"
        BY <1>4, <4>1 DEF DriveInv, SwitchInv
      <4> QED
        BY <2>4, <4>2 DEF Known
    <3> QED
      BY <1>1, <3>1, <3>2, <3>3
  <2> QED
    BY <2>3, <2>6, <2>7 DEF DriveInv
<1> QED
  BY <1>3, <1>4

LEMMA DriveOperator ==
  ASSUME StructInv, DriveInv, Operator
  PROVE  DriveInv'
<1>1. /\ UNCHANGED <<mode, active, running, topic>>
      /\ Todo' = Todo /\ UNCHANGED servo_requested
  <2>1. UNCHANGED <<mode, active, running, topic, servo_requested, worker>>
    BY DEF Operator, StartBegin, StopBegin, ResetBegin, ZeroBegin, CalibrateBegin, coreVars,
           CancelCalibration, QuietSeq, QuietOwn, QuietWorld, ownVars, worldVars, threadVars,
           Core!RequestCalibration
  <2> QED
    BY <2>1, WorkerStays DEF StructInv
<1>2. active \in Claim
  BY DEF StructInv, TypeInv, WorldType
<1>3. CASE UNCHANGED cmd
  BY <1>1, <1>3, DriveStays
<1>4. CASE cmd = NoCommand /\ cmd' # cmd
  <2>1. /\ \/ cmd'.op = "start" /\ cmd'.at = "residue"
              /\ cmd'.start = Target(cmd'.mode) /\ cmd'.stop = Other(cmd'.mode)
           \/ cmd'.op = "stop" /\ cmd'.at = "idle"
           \/ cmd'.op = "reset" /\ cmd'.at = "verdict"
           \/ cmd'.op = "zero" /\ cmd'.at = "zeroing"
           \/ cmd'.op = "calibrate" /\ cmd'.at = "idle" /\ cmd'.mode = "CALIBRATION"
              /\ cmd'.start = Target(cmd'.mode) /\ cmd'.stop = Other(cmd'.mode)
    BY <1>2, <1>4, OperatorIssues
  <2>2. cmd.op = None /\ ~Armed
    BY <1>4, NoCommandFacts DEF Armed, None
  <2>3. AimInv'
    BY <1>1, <2>1 DEF AimInv
  <2>4. SwitchInv'
    BY <1>1, <2>1 DEF DriveInv, SwitchInv
  <2>5. ServoInv'
    BY <1>1, <2>2 DEF DriveInv, ServoInv, None
  <2>6. Known'
    BY <1>1, <2>2 DEF DriveInv, Known
  <2> QED
    BY <2>3, <2>4, <2>5, <2>6 DEF DriveInv
<1> QED
  BY <1>2, <1>3, <1>4, OperatorIssues DEF Accepts

(* A command that goes on leaves the servo request alone, which is only     *)
(* there when it is stopServo's.                                            *)
LEMMA DriveGoesOn ==
  ASSUME StructInv, FlagInv, ClearInv, CommandStep, cmd.op \in Arming,
         cmd'.op = cmd.op \/ cmd'.op = "undo", servo_requested' => servo_requested
  PROVE  ServoInv' /\ "finish" \notin Todo'
<1>2. Todo' = Todo
  BY CommandFrame, WorkerStays DEF StructInv
<1>3. servo_requested => cmd.op = "stop"
  BY DEF FlagInv, Arming
<1>4. cmd.op = "stop" => cmd'.op = "stop"
  <2>1. StartRejected => cmd.op = "start"
    BY DEF StartRejected, At
  <2> QED
    BY <2>1, CommandGoesOn, NoCommandFacts DEF StructInv, Returns, None
<1> QED
  BY <1>2, <1>3, <1>4 DEF ServoInv, ClearInv, Busy

LEMMA DriveReturns ==
  ASSUME StructInv, DriveInv, CommandStep, Returns, UNCHANGED topic, Known', ServoInv'
  PROVE  DriveInv'
<1>1. cmd'.op = None /\ cmd'.at = None
  BY NoCommandFacts DEF Returns
<1>2. Todo' = Todo
  BY CommandFrame, WorkerStays DEF StructInv
<1> QED
  BY <1>1, <1>2 DEF DriveInv, AimInv, SwitchInv, None

LEMMA DriveEarly ==
  ASSUME StructInv, FlagInv, ClearInv, DriveInv,
         CheckResidue \/ ClearResidue \/ CheckRsi \/ StartRsi \/ AwaitFrames
  PROVE  DriveInv'
<1>1. CommandStep
  BY DEF CommandStep
<1>2. UNCHANGED <<coreVars, mode, active, running, topic>>
  BY DEF CheckResidue, ClearResidue, CheckRsi, StartRsi, AwaitFrames, QuietOwn, QuietWorld
<1>3. cmd.op = "start" /\ cmd.at \in Begun
  BY DEF CheckResidue, ClearResidue, CheckRsi, StartRsi, AwaitFrames, At, Begun
<1>4. Known'
  BY <1>2, <1>3 DEF DriveInv, Armed, Begun, Known
<1>5. ~servo_requested
  BY <1>3 DEF FlagInv
<1>6. CASE Returns
  BY <1>1, <1>2, <1>4, <1>5, <1>6, DriveReturns DEF ServoInv, coreVars
<1>7. ASSUME NEW s \in {"clear", "rsi", "start_rsi", "wait", "idle"},
             cmd' = [cmd EXCEPT !.at = s]
      PROVE  DriveInv'
  <2>1. /\ cmd'.op = "start" /\ cmd'.at = s /\ cmd'.mode = cmd.mode
        /\ cmd'.start = cmd.start /\ cmd'.stop = cmd.stop
    BY <1>3, <1>7, GotoFacts DEF StructInv, CmdInv, Steps
  <2>2. AimInv'
    BY <1>3, <2>1 DEF DriveInv, AimInv, Begun
  <2>3. ServoInv' /\ "finish" \notin Todo'
    BY <1>1, <1>2, <1>3, <2>1, DriveGoesOn DEF coreVars, Arming
  <2>4. SwitchInv'
    BY <2>1, <2>3 DEF SwitchInv
  <2> QED
    BY <1>4, <2>2, <2>3, <2>4 DEF DriveInv
<1>8. \/ Returns
      \/ \E s \in {"clear", "rsi", "start_rsi", "wait", "idle"} : cmd' = [cmd EXCEPT !.at = s]
  BY DEF CheckResidue, ClearResidue, CheckRsi, StartRsi, AwaitFrames, Goto
<1> QED
  BY <1>6, <1>7, <1>8

LEMMA DrivePublish ==
  ASSUME StructInv, FlagInv, ClearInv, DriveInv, PublishIdle \/ PublishMode
  PROVE  DriveInv'
<1>1. CommandStep
  BY DEF CommandStep
<1>2. UNCHANGED <<coreVars, mode, active, running>>
  BY DEF PublishIdle, PublishMode, QuietOwn
<1>3. cmd \in CmdType /\ cmd.at \in StepsOfOp(cmd.op) /\ cmd.op \in Ops
  BY DEF StructInv, CmdInv, CmdType
<1>4. CASE PublishIdle
  <2>1. cmd.at = "idle" /\ topic' = "IDLE" /\ cmd' = [cmd EXCEPT !.at = "query"]
    BY <1>4 DEF PublishIdle, Goto
  <2>2. /\ cmd'.op = cmd.op /\ cmd'.at = "query" /\ cmd'.mode = cmd.mode
        /\ cmd'.start = cmd.start /\ cmd'.stop = cmd.stop
    BY <1>3, <2>1, GotoFacts DEF Steps
  <2>3. cmd.op \in Arming
    BY <1>3, <2>1 DEF StepsOfOp, Ops, Arming, None
  <2>6. ServoInv' /\ "finish" \notin Todo'
    BY <1>1, <1>2, <2>2, <2>3, DriveGoesOn DEF coreVars
  <2>4. AimInv'
    BY <2>1, <2>2 DEF DriveInv, AimInv, Begun
  <2>5. SwitchInv' /\ Known'
    BY <2>1, <2>2, <2>6 DEF SwitchInv, Known
  <2> QED
    BY <2>4, <2>5, <2>6 DEF DriveInv
<1>5. CASE PublishMode
  <2>1. cmd.at = "mode" /\ topic' = cmd.mode /\ cmd' = [cmd EXCEPT !.at = "verdict"]
    BY <1>5 DEF PublishMode, Goto
  <2>2. /\ cmd'.op = cmd.op /\ cmd'.at = "verdict" /\ cmd'.mode = cmd.mode
        /\ cmd'.start = cmd.start /\ cmd'.stop = cmd.stop
    BY <1>3, <2>1, GotoFacts DEF Steps
  <2>3. cmd.op \in {"start", "calibrate"}
    BY <1>3, <2>1 DEF StepsOfOp, Ops, None
  <2>4. ServoInv' /\ "finish" \notin Todo'
    BY <1>1, <1>2, <2>2, <2>3, DriveGoesOn DEF coreVars, Arming
  <2>5. AimInv'
    BY <1>2, <2>1, <2>2, <2>3 DEF DriveInv, AimInv, Begun
  <2>6. SwitchInv' /\ Armed'
    BY <2>2, <2>3, <2>4 DEF SwitchInv, Armed
  <2> QED
    BY <2>4, <2>5, <2>6 DEF DriveInv
<1> QED
  BY <1>4, <1>5

(* A STRICT request of the filtered entries brings the target up alone.     *)
LEMMA SwitchReaches ==
  ASSUME NEW m, running \subseteq Controllers, NEW t, SwitchSucceeds(t),
         t.start = IF Target(m) \in running THEN None ELSE Target(m),
         t.stop = IF Other(m) \in running THEN Other(m) ELSE None
  PROVE  running' = {Target(m)}
<1>1. /\ Target(m) # Other(m) /\ Target(m) # None /\ Other(m) # None
      /\ running \subseteq {Target(m), Other(m)}
  BY TargetFacts
<1>2. CASE NothingToSwitch(t) /\ UNCHANGED running
  BY <1>1, <1>2 DEF NothingToSwitch
<1>3. CASE running' = Switched(t)
  BY <1>1, <1>3 DEF Switched
<1> QED
  BY <1>2, <1>3 DEF SwitchSucceeds

LEMMA DriveSwitch ==
  ASSUME StructInv, FlagInv, ClearInv, DriveInv, QueryRunning \/ SwitchControllers
  PROVE  DriveInv'
<1>1. CommandStep
  BY DEF CommandStep
<1>2. UNCHANGED <<coreVars, mode, active, topic>>
  BY DEF QueryRunning, SwitchControllers, QuietOwn, QuietWorld
<1>3. /\ cmd \in CmdType /\ cmd.at \in StepsOfOp(cmd.op) /\ cmd.op \in Ops
      /\ running \subseteq Controllers
  BY DEF StructInv, CmdInv, CmdType, TypeInv, WorldType
<1>4. cmd.at \in {"query", "switch"}
  BY DEF QueryRunning, SwitchControllers
<1>5. topic = "IDLE" /\ Known' /\ cmd.op \in {"start", "undo", "stop", "calibrate"}
  BY <1>2, <1>3, <1>4 DEF DriveInv, SwitchInv, Known, StepsOfOp, Ops, None
<1>6. CASE Returns
  <2>1. cmd.op # "stop"
    <3>1. cmd.op = "stop" => cmd' = [cmd EXCEPT !.at = "switch"] \/ cmd'.op = "stop"
                             \/ cmd' = [Filtered(cmd) EXCEPT !.at = "switch"]
      <4>1. cmd.op = "stop" /\ (SwitchRefused \/ SwitchDone) => cmd'.op = "stop"
        <5>1. cmd.op = "stop" /\ (SwitchRefused \/ SwitchDone) => cmd' = [cmd EXCEPT !.at = "verdict"]
          BY DEF SwitchRefused, SwitchDone, Goto
        <5> QED
          BY <1>3, <5>1, GotoFacts DEF Steps
      <4> QED
        BY <4>1 DEF QueryRunning, SwitchControllers
    <3> QED
      BY <1>3, <1>6, <3>1, GotoFacts, FilteredFacts, NoCommandFacts DEF Returns, Steps, None
  <2>2. ~servo_requested'
    BY <1>2, <1>5, <2>1 DEF FlagInv, coreVars
  <2> QED
    BY <1>1, <1>2, <1>5, <1>6, <2>2, DriveReturns DEF ServoInv
<1>7. CASE QueryRunning /\ cmd' = [Filtered(cmd) EXCEPT !.at = "switch"]
  <2>1. /\ cmd'.op = cmd.op /\ cmd'.at = "switch" /\ cmd'.mode = cmd.mode
        /\ cmd'.start = IF cmd.start \in running THEN None ELSE cmd.start
        /\ cmd'.stop = IF cmd.stop \in running THEN cmd.stop ELSE None
    BY <1>3, <1>7, FilteredFacts
  <2>2. UNCHANGED running /\ cmd.at = "query"
    BY <1>7 DEF QueryRunning, QuietWorld
  <2>3. AimInv'
    BY <2>1, <2>2 DEF DriveInv, AimInv, Begun
  <2>4. ServoInv' /\ "finish" \notin Todo'
    BY <1>1, <1>2, <1>5, <2>1, DriveGoesOn DEF coreVars, Arming
  <2>5. SwitchInv'
    BY <1>2, <1>5, <2>1, <2>4 DEF SwitchInv
  <2> QED
    BY <1>5, <2>3, <2>4, <2>5 DEF DriveInv
<1>8. ASSUME NEW s \in {"mode", "verdict", "abort"}, cmd' = [cmd EXCEPT !.at = s],
             s = "mode" => SwitchControllers /\ SwitchSucceeds(cmd) /\ cmd.at = "switch",
             s = "verdict" => cmd.op = "stop"
      PROVE  DriveInv'
  <2>1. /\ cmd'.op = cmd.op /\ cmd'.at = s /\ cmd'.mode = cmd.mode
        /\ cmd'.start = cmd.start /\ cmd'.stop = cmd.stop
    BY <1>3, <1>8, GotoFacts DEF Steps
  <2>2. s = "mode" /\ cmd.op \in {"start", "calibrate"} => running' = {Target(cmd.mode)}
    BY <1>3, <1>8, SwitchReaches DEF DriveInv, AimInv
  <2>3. AimInv'
    BY <1>8, <2>1, <2>2 DEF DriveInv, AimInv, Begun
  <2>4. ServoInv' /\ "finish" \notin Todo'
    BY <1>1, <1>2, <1>5, <2>1, DriveGoesOn DEF coreVars, Arming
  <2>5. SwitchInv'
    BY <1>2, <1>5, <2>1, <2>4 DEF SwitchInv
  <2> QED
    BY <1>5, <2>3, <2>4, <2>5 DEF DriveInv
<1>9. CASE SwitchControllers
  <2>1. cmd.at = "switch" /\ ((SwitchSucceeds(cmd) /\ SwitchDone) \/ (SwitchFails(cmd) /\ SwitchRefused))
    BY <1>9 DEF SwitchControllers
  <2> QED
    BY <1>5, <1>6, <1>8, <1>9, <2>1 DEF SwitchDone, SwitchRefused, Goto
<1>10. CASE QueryRunning /\ SwitchRefused
  BY <1>5, <1>6, <1>8, <1>10 DEF SwitchRefused, Goto
<1> QED
  BY <1>7, <1>9, <1>10 DEF QueryRunning

LEMMA DriveVerdict ==
  ASSUME StructInv, OrphanInv, FlagInv, ClearInv, DriveInv,
         StartVerdict \/ StartRejected \/ StopVerdict \/ ResetVerdict \/ ZeroDone
           \/ CalibrateAbort \/ SequencerStarted
  PROVE  DriveInv'
<1>1. CommandStep
  BY DEF CommandStep
<1>2. UNCHANGED <<running, topic>>
  BY DEF StartVerdict, StartRejected, StopVerdict, ResetVerdict, ZeroDone, CalibrateAbort,
         SequencerStarted, SequencerRefuses, GoalAborted, QuietWorld, worldVars
<1>3. CASE StartVerdict
  <2>1. /\ running = {Target(cmd.mode)} /\ topic = cmd.mode
        /\ mode' = cmd.mode /\ active' = Target(cmd.mode)
    BY <1>3 DEF StartVerdict, At, DriveInv, AimInv
  <2>2. ServoInv' /\ Known'
    BY <1>2, <2>1 DEF ServoInv, Known
  <2> QED
    BY <1>1, <1>2, <1>3, <2>2, DriveReturns DEF StartVerdict
<1>4. CASE StartRejected
  <2>1. /\ cmd \in CmdType /\ Target(cmd.mode) \in Claim
        /\ cmd' = [cmd EXCEPT !.op = "undo", !.at = "idle", !.start = None,
                              !.stop = Target(cmd.mode)]
    BY <1>4, TargetFacts DEF StartRejected, StructInv, CmdInv, Claim
  <2>2. cmd'.op = "undo" /\ cmd'.at = "idle"
    BY <2>1 DEF CmdType
  <2>3. UNCHANGED coreVars
    BY <1>4 DEF StartRejected
  <2>4. ServoInv' /\ "finish" \notin Todo'
    BY <1>1, <1>4, <2>2, <2>3, DriveGoesOn DEF StartRejected, At, Arming, coreVars
  <2>5. AimInv' /\ SwitchInv' /\ Armed'
    BY <2>2, <2>4 DEF AimInv, SwitchInv, Armed
  <2> QED
    BY <2>4, <2>5 DEF DriveInv
<1>5. CASE StopVerdict
  <2>1. topic = "IDLE" /\ cmd.op = "stop"
    BY <1>5 DEF StopVerdict, At, DriveInv, SwitchInv
  <2>2. ~servo_requested'
    BY <1>5, <2>1 DEF StopVerdict, Core!RequestStop, Core!StopAccepts, coreVars, FlagInv
  <2>3. ServoInv' /\ Known'
    BY <1>2, <2>1, <2>2 DEF ServoInv, Known
  <2> QED
    BY <1>1, <1>2, <1>5, <2>3, DriveReturns DEF StopVerdict
<1>6. CASE ResetVerdict \/ ZeroDone \/ (CalibrateAbort /\ At("calibrate", "abort"))
  <2>1. UNCHANGED <<mode, active, servo_requested>> /\ Returns
    BY <1>6 DEF ResetVerdict, ZeroDone, CalibrateAbort, GoalAborted, QuietOwn, coreVars, ownVars,
                Core!RequestReset, Core!CalibrationFinished
  <2>2. ~Armed /\ cmd.op # "stop"
    BY <1>6 DEF ResetVerdict, ZeroDone, At, Armed
  <2>3. ServoInv' /\ Known'
    BY <1>2, <2>1, <2>2 DEF DriveInv, ServoInv, Known
  <2> QED
    BY <1>1, <1>2, <2>1, <2>3, DriveReturns
<1>7. CASE SequencerStarted
  <2>1. /\ cmd.op = "calibrate" /\ running = {Target(cmd.mode)} /\ topic = cmd.mode
        /\ cmd.mode = "CALIBRATION"
        /\ mode' = "CALIBRATION" /\ active' = "correction" /\ UNCHANGED coreVars
    BY <1>7 DEF SequencerStarted, At, DriveInv, AimInv
  <2>2. ServoInv' /\ Known'
    BY <1>2, <2>1 DEF FlagInv, coreVars, ServoInv, Known, Target
  <2> QED
    BY <1>1, <1>2, <1>7, <2>2, DriveReturns DEF SequencerStarted
<1>8. CASE CalibrateAbort /\ SequencerRefuses
  <2>1. /\ cmd.op = "calibrate" /\ topic = cmd.mode /\ cmd.mode = "CALIBRATION"
        /\ UNCHANGED servo_requested /\ Returns
    BY <1>8 DEF CalibrateAbort, SequencerRefuses, At, DriveInv, AimInv, GoalAborted,
                Core!CalibrationFinished
  <2>2. ~Sequencer!Active
    BY <2>1 DEF OrphanInv, ClearInv, Arming, Busy
  <2>3. SamplesPerPose = 0
    BY <1>8, <2>2, ManagerAssumption DEF SequencerRefuses, Sequencer!StartAccepts
  <2>4. ServoInv' /\ Known'
    BY <1>2, <2>1, <2>3 DEF FlagInv, ServoInv, Known
  <2> QED
    BY <1>1, <1>2, <2>1, <2>4, DriveReturns
<1> QED
  BY <1>3, <1>4, <1>5, <1>6, <1>7, <1>8 DEF CalibrateAbort

LEMMA DriveStep ==
  ASSUME StructInv, OrphanInv, FlagInv, RestInv, ClearInv, DriveInv, [Next]_vars
  PROVE  DriveInv'
<1>1. ASSUME NEW elapsed \in BOOLEAN, NEW retry_due \in BOOLEAN, Tick(elapsed, retry_due)
      PROVE  DriveInv'
  <2>1. UNCHANGED <<cmd, mode, active, running, topic>>
    BY <1>1, TickFrame DEF worldVars
  <2>2. servo_requested' => servo_requested
    BY <1>1, UpdateFlags DEF Tick
  <2>3. "finish" \in Todo' => "idle" \in Todo'
    BY <1>1, TickTodo DEF StructInv
  <2> QED
    BY <2>1, <2>2, <2>3, DriveStays
<1>2. CASE ServerReports \/ Callback \/ UNCHANGED vars
  <2>1. UNCHANGED <<cmd, mode, active, running, topic, worker, servo_requested>>
    BY <1>2, CallbackFrame
       DEF ServerReports, vars, ownVars, threadVars, worldVars, coreVars
  <2> QED
    BY <2>1, WorkerStays, DriveStays DEF StructInv
<1>3. CASE CommandStep
  BY <1>3, DriveEarly, DrivePublish, DriveSwitch, DriveVerdict DEF CommandStep
<1> QED
  BY <1>1, <1>2, <1>3, DriveWorker, DriveOperator DEF Next

(* A calibration that begins from rest begins by publishing IDLE.           *)
LEMMA DriveBegins ==
  ASSUME StructInv, FlagInv', [Next]_vars, CalibrateBegin, ~entangled'
  PROVE  ClearInv' /\ DriveInv'
<1>1. ~Busy' /\ cmd'.op = "calibrate" /\ cmd'.at = "idle" /\ cmd'.mode = "CALIBRATION"
      /\ cmd'.start = Target(cmd'.mode) /\ cmd'.stop = Other(cmd'.mode)
  <2>1. cmd' = [op |-> "calibrate", at |-> "idle", mode |-> "CALIBRATION",
                start |-> "correction", stop |-> "compliance"]
    BY DEF CalibrateBegin, Issue
  <2> QED
    BY <2>1, Untangled DEF Target, Other
<1>2. AimInv' /\ SwitchInv' /\ ServoInv' /\ Armed'
  BY <1>1 DEF AimInv, SwitchInv, ServoInv, Armed, FlagInv, Busy
<1> QED
  BY <1>1, <1>2 DEF ClearInv, DriveInv

LEMMA Drive ==
  ASSUME Patient
  PROVE  Spec => [](/\ StructInv /\ OrphanInv /\ FlagInv
                    /\ ~entangled => RestInv /\ ClearInv /\ DriveInv)
<1>1. Init => ClearInv /\ DriveInv
  BY NoCommandFacts, TeardownSteps
     DEF Init, Core!Init, ClearInv, Arming, DriveInv, AimInv, SwitchInv, ServoInv, Known, Todo,
         None
<1> DEFINE Driven == ~entangled => ClearInv /\ DriveInv
<1>2. /\ StructInv /\ OrphanInv /\ FlagInv /\ (~entangled => RestInv) /\ FlagInv'
      /\ Driven /\ [Next]_vars
      => Driven'
  BY Untangled, DriveBegins, ClearStep, DriveStep
<1>3. Spec => []Driven
  <2> HIDE DEF Driven
  <2>1. Init => Driven
    BY <1>1 DEF Driven
  <2> QED
    BY <1>2, <2>1, Rest, Flags, PTL DEF Spec
<1> QED
  BY <1>3, Rest, Flags, PTL

(* While a servo request stands, exactly the controller of the reported     *)
(* mode runs, and the last mode command published tells it so: startServo   *)
(* raises the request last, and nothing touches the world before stopServo, *)
(* unless a calibration was entangled.  Tares and resets may come at any    *)
(* moment; starts, stops and calibrations are those of a patient operator.  *)
THEOREM ServoAlwaysDriven ==
  ASSUME Patient
  PROVE  Spec => []ServoDrivesItsController
<1>1. (~entangled => DriveInv) => ServoDrivesItsController
  BY DEF DriveInv, ServoInv, ServoDrivesItsController
<1> QED
  BY <1>1, Drive, PTL

(* No command, whatever became of it, leaves a controller running under a   *)
(* mode other than IDLE that stopServo does not know of, except for the     *)
(* calibration that the sequencer refuses, having no samples to take.       *)
THEOREM ControllerAlwaysKnown ==
  ASSUME Patient
  PROVE  Spec => []NoForgottenController
<1>1. (~entangled => DriveInv) => NoForgottenController
  BY NoCommandFacts DEF DriveInv, Armed, Known, NoForgottenController, None
<1> QED
  BY <1>1, Drive, PTL

-----------------------------------------------------------------------------
(* The payload and the verdict, for every operator and whichever calls fail.*)

(* The verdict of the last calibration: the one reported, or the one that   *)
(* the action server will read in the sequencer.                            *)
Verdict ==
  IF server = "idle" THEN result = "succeeded"
  ELSE server = "polling" /\ phase = "DONE" /\ fit_ok

PayloadInv ==
  /\ server = "calling" <=> cmd.op = "calibrate"
  /\ server = "polling" => phase # "IDLE"
  /\ ~teardown_done => applied = "no"
  /\ "reload" \in Todo => Verdict /\ applied = "no"
  /\ teardown_done /\ "reload" \notin Todo => (applied # "no" <=> Verdict)
  /\ server = "idle" /\ ~teardown_done =>
       /\ phase \in {"DONE", "FAILED"}
       /\ Verdict <=> (phase = "DONE" /\ fit_ok)

LEMMA PayloadStays ==
  ASSUME PayloadInv, UNCHANGED <<server, result, phase, fit_ok, teardown_done, applied, cmd>>,
         "reload" \in Todo' <=> "reload" \in Todo
  PROVE  PayloadInv'
BY DEF PayloadInv, Verdict

(* A calibration that begins from rest has neither.                         *)
LEMMA PayloadBegins ==
  ASSUME StructInv, [Next]_vars, CalibrateBegin, ~entangled'
  PROVE  PayloadInv'
<1>1. cmd'.op = "calibrate" /\ server' = "calling" /\ applied' = "no" /\ ~Busy'
  BY Untangled DEF CalibrateBegin
<1>2. teardown_done' /\ "reload" \notin Todo'
  BY <1>1, StructStep DEF Busy, StructInv, WorkerInv
<1> QED
  BY <1>1, <1>2 DEF PayloadInv, Verdict

(* A run that goes on has no payload and no verdict.                        *)
LEMMA PayloadRuns ==
  ASSUME StructInv, OrphanInv, RestInv, PayloadInv, Sequencer!Active,
         UNCHANGED <<server, result, applied, cmd, teardown_done>>, Todo' = Todo, phase' # "IDLE"
  PROVE  PayloadInv'
<1>1. ~teardown_done /\ applied = "no" /\ "finish" \notin Todo /\ cmd.op # "calibrate"
  BY DEF OrphanInv, RestInv, Busy, PayloadInv
<1>2. server = "polling"
  <2>1. server # "calling"
    BY <1>1 DEF PayloadInv
  <2>2. server # "idle"
    BY <1>1 DEF PayloadInv, Sequencer!Active, Sequencer!ActivePhases
  <2> QED
    BY <2>1, <2>2 DEF StructInv, TypeInv, WorldType
<1>3. "reload" \notin Todo
  BY <1>1 DEF StructInv, WorkerInv
<1> QED
  BY <1>1, <1>2, <1>3 DEF PayloadInv

LEMMA PayloadTick ==
  ASSUME StructInv, OrphanInv, RestInv, PayloadInv, NEW elapsed \in BOOLEAN,
         NEW retry_due \in BOOLEAN, Tick(elapsed, retry_due)
  PROVE  PayloadInv'
<1>1. /\ UNCHANGED <<cmd, server, result, applied>> /\ Todo = {}
      /\ teardown_done' <=> (teardown_done \/ Ends)
      /\ "reload" \in Todo' <=> (Ends /\ phase' = "DONE" /\ fit_ok')
  BY TickFrame, TickTodo DEF worldVars, StructInv
<1>2. /\ UNCHANGED fit_ok
      /\ phase' = "DONE" <=> phase = "DONE"
      /\ phase' = "IDLE" => phase = "IDLE"
      /\ phase \in {"DONE", "FAILED"} => phase' = phase
  BY DEF Tick, CalibrationSupervised, Sequencer!OnStreamLost, Sequencer!Fail, Sequencer!Tick,
         Sequencer!Active, Sequencer!ActivePhases, Sequencer!seqVars
<1>3. Verdict' <=> Verdict
  BY <1>1, <1>2 DEF Verdict
<1>4. Ends => ~teardown_done /\ phase' \in {"DONE", "FAILED"} /\ server # "calling"
  BY DEF Ends, PayloadInv, RestInv, Busy
<1>5. Ends => (Verdict <=> (phase' = "DONE" /\ fit_ok'))
  <2>1. CASE server = "idle"
    BY <1>2, <1>4, <2>1 DEF PayloadInv
  <2>2. CASE server = "polling"
    BY <1>2, <2>2 DEF Verdict
  <2> QED
    BY <1>4, <2>1, <2>2 DEF StructInv, TypeInv, WorldType
<1>6. /\ ~teardown_done' => applied' = "no"
      /\ "reload" \in Todo' => Verdict' /\ applied' = "no"
      /\ teardown_done' /\ "reload" \notin Todo' => (applied' # "no" <=> Verdict')
  BY <1>1, <1>3, <1>4, <1>5 DEF PayloadInv
<1>7. /\ server' = "calling" <=> cmd'.op = "calibrate"
      /\ server' = "polling" => phase' # "IDLE"
      /\ server' = "idle" /\ ~teardown_done' =>
           /\ phase' \in {"DONE", "FAILED"}
           /\ Verdict' <=> (phase' = "DONE" /\ fit_ok')
  BY <1>1, <1>2, <1>3 DEF PayloadInv
<1> QED
  BY <1>6, <1>7 DEF PayloadInv

(* The payload is handed over, or its hand-over refused, for a fit only.    *)
LEMMA PayloadWorker ==
  ASSUME StructInv, RestInv, PayloadInv, WorkerStep
  PROVE  PayloadInv'
<1>1. /\ UNCHANGED <<server, result, seqVars, teardown_done, cmd>>
      /\ UNCHANGED applied \/ UnloadCompliance \/ ReloadCompliance
      /\ WorkerMove
      /\ "reload" \in Todo => "finish" \in Todo
      /\ "unload" \in Todo => "reload" \in Todo
  BY WorkerFrame, WorkerMoves DEF StructInv, WorkerInv
<1>2. CASE UNCHANGED applied /\ ("reload" \in Todo' <=> "reload" \in Todo)
  BY <1>1, <1>2, PayloadStays DEF seqVars
<1>3. CASE "reload" \in Todo /\ "reload" \notin Todo' /\ applied' # "no"
  <2>1. Verdict /\ teardown_done
    BY <1>1, <1>3 DEF PayloadInv, RestInv
  <2> QED
    BY <1>1, <1>3, <2>1 DEF PayloadInv, Verdict, seqVars
<1>4. CASE UnloadCompliance \/ ReloadCompliance
  BY <1>1, <1>2, <1>3, <1>4, AtHead
     DEF WorkerMove, StructInv, SyncTool, SendGoal, UnloadCompliance, ReloadCompliance,
         TeardownIdle, TeardownQuery, TeardownSwitch, TeardownFinish, AtWorker
<1>5. CASE ~UnloadCompliance /\ ~ReloadCompliance
  <2>1. "reload" \in Todo' <=> "reload" \in Todo
    BY <1>1, <1>5 DEF WorkerMove
  <2> QED
    BY <1>1, <1>2, <1>5, <2>1
<1> QED
  BY <1>4, <1>5

LEMMA PayloadOperator ==
  ASSUME StructInv, OrphanInv, RestInv, PayloadInv, Operator, ~entangled'
  PROVE  PayloadInv'
<1>1. Todo' = Todo
  BY CommandFrame, WorkerStays DEF StructInv
<1>2. CASE CalibrateBegin
  BY <1>2, PayloadBegins DEF Next
<1>3. CASE CancelCalibration
  <2>1. UNCHANGED <<server, result, teardown_done, applied, cmd>>
    BY <1>3 DEF CancelCalibration, ownVars, threadVars, worldVars
  <2>2. CASE Sequencer!Active
    <3>1. phase' = "FAILED"
      BY <1>3, <2>2 DEF CancelCalibration, Sequencer!Cancel, Sequencer!Fail
    <3> QED
      BY <1>1, <2>1, <2>2, <3>1, PayloadRuns
  <2>3. CASE ~Sequencer!Active
    <3>1. UNCHANGED <<phase, fit_ok>>
      BY <1>3, <2>3 DEF CancelCalibration, Sequencer!Cancel, Sequencer!Fail, Sequencer!seqVars
    <3> QED
      BY <1>1, <2>1, <3>1, PayloadStays
  <2> QED
    BY <2>2, <2>3
<1>4. CASE (\E m \in ServoModes : StartBegin(m)) \/ StopBegin \/ ResetBegin \/ ZeroBegin
  <2>1. UNCHANGED <<server, result, phase, fit_ok, teardown_done, applied>>
    BY <1>4 DEF StartBegin, StopBegin, ResetBegin, ZeroBegin, QuietSeq, QuietOwn, seqVars
  <2>2. cmd.op # "calibrate" /\ cmd'.op # "calibrate"
    <3>1. cmd = NoCommand /\ cmd'.op \in {"start", "stop", "reset", "zero"}
      BY <1>4 DEF StartBegin, StopBegin, ResetBegin, ZeroBegin, Issue, MayIssue
    <3> QED
      BY <3>1, NoCommandFacts DEF None
  <2> QED
    BY <1>1, <2>1, <2>2 DEF PayloadInv, Verdict
<1> QED
  BY <1>2, <1>3, <1>4 DEF Operator

LEMMA PayloadCommand ==
  ASSUME StructInv, OrphanInv, RestInv, PayloadInv, CommandStep
  PROVE  PayloadInv'
<1>1. /\ Todo' = Todo /\ UNCHANGED applied
      /\ cmd.op = "calibrate" => teardown_done /\ "reload" \notin Todo
  <2>1. ~CalibrateBegin
    BY CommandGoesOn DEF CalibrateBegin, Issue, MayIssue, StructInv
  <2>2. Todo' = Todo
    BY CommandFrame, WorkerStays DEF StructInv
  <2> QED
    BY <2>1, <2>2, CommandFrame DEF RestInv, Busy, StructInv, WorkerInv
<1>2. CASE SequencerStarted
  <2>1. /\ cmd.op = "calibrate" /\ cmd'.op = None
        /\ server' = "polling" /\ phase' = "MOVING" /\ ~teardown_done'
    BY <1>2, NoCommandFacts DEF SequencerStarted, At, Returns, Sequencer!Start
  <2>2. applied = "no"
    BY <1>1, <2>1 DEF PayloadInv, Verdict
  <2> QED
    BY <1>1, <2>1, <2>2 DEF PayloadInv, None
<1>3. CASE CalibrateAbort
  <2>1. /\ cmd.op = "calibrate" /\ cmd'.op = None
        /\ server' = "idle" /\ result' = "aborted" /\ UNCHANGED teardown_done
    BY <1>3, NoCommandFacts
       DEF CalibrateAbort, SequencerRefuses, At, GoalAborted, Returns, ownVars
  <2>2. applied = "no"
    BY <1>1, <2>1 DEF PayloadInv, Verdict
  <2> QED
    BY <1>1, <2>1, <2>2 DEF PayloadInv, Verdict, None
<1>4. CASE ~SequencerStarted /\ ~CalibrateAbort
  <2>1. UNCHANGED <<server, result, phase, fit_ok, teardown_done>>
    BY <1>4 DEF CommandStep, CheckResidue, ClearResidue, CheckRsi, StartRsi, AwaitFrames,
       PublishIdle, QueryRunning, SwitchControllers, PublishMode, StartVerdict, StartRejected,
       StopVerdict, ResetVerdict, ZeroDone, QuietSeq, QuietOwn, seqVars
  <2>2. cmd'.op = "calibrate" <=> cmd.op = "calibrate"
    <3>1. cmd'.op = "calibrate" => cmd.op = "calibrate"
      BY CommandGoesOn, NoCommandFacts DEF StructInv, Returns, None
    <3> QED
      BY <1>4, <3>1, CalibrateGoesOn DEF StructInv
  <2> QED
    BY <1>1, <2>1, <2>2 DEF PayloadInv, Verdict
<1> QED
  BY <1>2, <1>3, <1>4

LEMMA PayloadServer ==
  ASSUME StructInv, PayloadInv, ServerReports
  PROVE  PayloadInv'
<1>1. /\ server = "polling" /\ server' = "idle" /\ phase \in {"DONE", "FAILED"}
      /\ UNCHANGED <<phase, fit_ok, teardown_done, applied, cmd, worker>>
      /\ result' = IF phase = "DONE" /\ fit_ok THEN "succeeded"
                   ELSE IF failure = "CANCELLED" THEN "preempted" ELSE "aborted"
  BY DEF ServerReports, seqVars, ownVars, worldVars
<1>2. Todo' = Todo
  BY <1>1, WorkerStays DEF StructInv
<1>3. /\ Verdict <=> (phase = "DONE" /\ fit_ok)
      /\ Verdict' <=> (phase = "DONE" /\ fit_ok)
  BY <1>1 DEF Verdict
<1> QED
  BY <1>1, <1>2, <1>3 DEF PayloadInv

LEMMA PayloadCallback ==
  ASSUME StructInv, OrphanInv, RestInv, PayloadInv, Callback
  PROVE  PayloadInv'
<1>1. UNCHANGED <<server, result, cmd, teardown_done, applied>> /\ Todo' = Todo
  BY CallbackFrame, WorkerStays DEF StructInv, threadVars
<1>2. CASE UNCHANGED seqVars
  BY <1>1, <1>2, PayloadStays DEF seqVars
<1>3. CASE Sequencer!OnWrench
  <2>1. phase = "SAMPLING" /\ phase' \in {"SAMPLING", "MOVING", "RETURNING", "FAILED"}
    BY <1>3 DEF Sequencer!OnWrench, Sequencer!Collect, Sequencer!NextPose, Sequencer!Solve
  <2> QED
    BY <1>1, <2>1, PayloadRuns DEF Sequencer!Active, Sequencer!ActivePhases
<1>4. CASE \E success \in BOOLEAN : Sequencer!OnMotionResult(success)
  <2>1. UNCHANGED seqVars \/ (Sequencer!Active /\ phase' \in {"SETTLING", "FAILED", "DONE"})
    BY <1>4 DEF Sequencer!OnMotionResult, Sequencer!MoveEnds, Sequencer!ReturnEnds,
       Sequencer!Fail, Sequencer!Active, Sequencer!ActivePhases, seqVars, Sequencer!seqVars
  <2> QED
    BY <1>1, <1>2, <2>1, PayloadRuns
<1> QED
  BY <1>2, <1>3, <1>4, CallbackFrame

LEMMA PayloadStep ==
  ASSUME StructInv, OrphanInv, RestInv, PayloadInv, [Next]_vars, ~entangled'
  PROVE  PayloadInv'
<1>1. CASE UNCHANGED vars
  BY <1>1, WorkerStays, PayloadStays
     DEF vars, seqVars, ownVars, threadVars, worldVars, StructInv
<1> QED
  BY <1>1, PayloadTick, PayloadWorker, PayloadOperator, PayloadCommand, PayloadServer,
     PayloadCallback DEF Next

(* Once the teardown is over the verdict and the payload agree: it was      *)
(* handed to applyPayload exactly when the goal was reported as a success,  *)
(* for every operator, every number of poses, every order of results and    *)
(* every failing call, unless the run was entangled with another one.  What *)
(* applyPayload answered is not part of it: the worker ignores that.        *)
THEOREM PayloadAlwaysMatches == Spec => []PayloadMatchesVerdict
<1> DEFINE Matched == ~entangled => PayloadInv
<1>1. Init => Matched
  BY NoCommandFacts, TeardownSteps
     DEF Init, Core!Init, Sequencer!Init, PayloadInv, Verdict, Todo, None
<1>2. StructInv /\ OrphanInv /\ (~entangled => RestInv) /\ Matched /\ [Next]_vars => Matched'
  BY Untangled, PayloadBegins, PayloadStep
<1>3. StructInv /\ Matched => PayloadMatchesVerdict
  <2> SUFFICES ASSUME StructInv, PayloadInv, server = "idle", teardown_done, WorkerIdle
               PROVE  applied # "no" <=> result = "succeeded"
    BY DEF PayloadMatchesVerdict
  <2>1. "reload" \notin Todo
    BY TeardownSteps DEF WorkerIdle, Todo
  <2> QED
    BY <2>1 DEF PayloadInv, Verdict
<1> HIDE DEF Matched
<1> QED
  BY <1>1, <1>2, <1>3, Rest, PTL DEF Spec

-----------------------------------------------------------------------------
(* Whether the payload arrives: the worker ignores what applyPayload says,  *)
(* which is refused when the compliance controller runs or is not loaded.   *)

(* Once the preload is over both controllers stay loaded, but between the   *)
(* unload and the load of applyPayload.                                     *)
LoadInv ==
  /\ state = "READY" => controllers_loaded
  /\ Busy \/ cmd.op = "calibrate" => controllers_loaded
  /\ controllers_loaded =>
       /\ "correction" \in loaded
       /\ "compliance" \in loaded \/ ("reload" \in Todo /\ "unload" \notin Todo)

(* A run and its teardown have the correction controller running until the  *)
(* teardown's own switch.                                                   *)
RunInv == ~teardown_done \/ "switch" \in Todo => running = {"correction"}

LEMMA LoadWorker ==
  ASSUME "apply" \notin Failing, StructInv, LoadInv, WorkerStep
  PROVE  controllers_loaded =>
           /\ "correction" \in loaded'
           /\ "compliance" \in loaded' \/ ("reload" \in Todo' /\ "unload" \notin Todo')
<1>1. /\ UNCHANGED loaded \/ UnloadCompliance \/ ReloadCompliance
      /\ WorkerMove
      /\ "unload" \in Todo => "reload" \in Todo
  BY WorkerFrame, WorkerMoves DEF StructInv, WorkerInv
<1>2. CASE UnloadCompliance \/ ReloadCompliance
  <2>1. \/ /\ "unload" \in Todo
           /\ \/ Todo' = Todo \ {"unload"} /\ loaded' = loaded \ {"compliance"}
              \/ UNCHANGED loaded
        \/ loaded' = loaded \cup {"compliance"}
    BY <1>1, <1>2, AtHead
       DEF WorkerMove, StructInv, SyncTool, SendGoal, UnloadCompliance, ReloadCompliance,
           TeardownIdle, TeardownQuery, TeardownSwitch, TeardownFinish, AtWorker
  <2> QED
    BY <1>1, <2>1 DEF LoadInv
<1>3. CASE ~UnloadCompliance /\ ~ReloadCompliance
  <2>1. /\ "reload" \in Todo => "reload" \in Todo'
        /\ "unload" \in Todo' => "unload" \in Todo
    BY <1>1, <1>3 DEF WorkerMove
  <2> QED
    BY <1>1, <1>3, <2>1 DEF LoadInv
<1> QED
  BY <1>2, <1>3

LEMMA LoadStep ==
  ASSUME "apply" \notin Failing, StructInv, LoadInv, [Next]_vars
  PROVE  LoadInv'
<1>1. controllers_loaded => controllers_loaded'
  BY CommandFrame, CallbackFrame, WorkerFrame, TickFrame DEF Next, vars, ownVars
<1>2. ASSUME state' = "READY"
      PROVE  state = "READY" \/ controllers_loaded
  <2>1. ASSUME NEW elapsed \in BOOLEAN, NEW retry_due \in BOOLEAN, Tick(elapsed, retry_due)
        PROVE  state = "READY" \/ controllers_loaded
    <3>1. Core!Update(Health)
      BY <2>1 DEF Tick
    <3>2. state = "READY" \/ Core!ReadyConditions(Health)
      BY <1>2, <3>1
         DEF Core!Update, Core!Trip, Core!StayFault, Core!coreVars, Core!SuperviseCalibration,
             Core!SuperviseServo, Core!SuperviseIdle
    <3>3. "controllers_loaded" \in Health => controllers_loaded
      BY DEF Health
    <3> QED
      BY <3>2, <3>3 DEF Core!ReadyConditions
  <2>2. CASE UNCHANGED coreVars
    BY <1>2, <2>2 DEF coreVars
  <2>3. CASE WorkerStep
    BY <1>2, <2>2, <2>3, WorkerFrame DEF TeardownFinish, Core!CalibrationFinished
  <2>4. CASE Operator \/ CommandStep \/ ServerReports
    BY <1>2, <2>2, <2>4, CommandFrame
       DEF StartVerdict, Core!RequestStart, StopVerdict, Core!RequestStop, coreVars, ResetVerdict,
           Core!RequestReset, CalibrateBegin, Core!RequestCalibration, CalibrateAbort,
           SequencerRefuses, GoalAborted, Core!CalibrationFinished
  <2> QED
    BY <2>1, <2>2, <2>3, <2>4, CallbackFrame DEF Next, vars
<1>3. Busy' \/ cmd'.op = "calibrate" => controllers_loaded'
  <2>1. cmd'.op = "calibrate" => cmd.op = "calibrate" \/ CalibrateBegin
    BY CommandBegins DEF StructInv, None
  <2>2. CalibrateBegin => state = "READY"
    BY DEF CalibrateBegin, Core!RequestCalibration, Core!CalibrationAccepts
  <2>3. SequencerStarted => cmd.op = "calibrate"
    BY DEF SequencerStarted, At
  <2> QED
    BY <1>1, <2>1, <2>2, <2>3, BusyBegins DEF LoadInv
<1> DEFINE Kept == controllers_loaded' =>
      /\ "correction" \in loaded'
      /\ "compliance" \in loaded' \/ ("reload" \in Todo' /\ "unload" \notin Todo')
<1>4. Kept
  <2>1. ASSUME NEW elapsed \in BOOLEAN, NEW retry_due \in BOOLEAN, Tick(elapsed, retry_due)
        PROVE  Kept
    BY <2>1, TickFrame, TickTodo DEF worldVars, StructInv, LoadInv
  <2>2. CASE WorkerStep
    BY <2>2, LoadWorker, WorkerFrame
  <2>3. CASE Operator \/ CommandStep \/ ServerReports
    BY <2>3, CommandFrame, WorkerStays DEF StructInv, LoadInv
  <2>4. CASE Callback
    <3>1. Todo' = Todo
      BY <2>4, CallbackFrame, WorkerStays DEF StructInv, threadVars
    <3>2. UNCHANGED <<loaded, controllers_loaded>> \/ loaded' = Controllers
      BY <2>4, CallbackFrame
    <3> QED
      BY <3>1, <3>2 DEF LoadInv, Controllers
  <2>5. CASE UNCHANGED vars
    BY <2>5, WorkerStays DEF vars, ownVars, worldVars, threadVars, StructInv, LoadInv
  <2> QED
    BY <2>1, <2>2, <2>3, <2>4, <2>5 DEF Next
<1> QED
  BY <1>1, <1>2, <1>3, <1>4 DEF LoadInv

LEMMA RunStep ==
  ASSUME StructInv, RestInv, ClearInv, DriveInv, RunInv, [Next]_vars
  PROVE  RunInv'
<1>1. ASSUME NEW elapsed \in BOOLEAN, NEW retry_due \in BOOLEAN, Tick(elapsed, retry_due)
      PROVE  RunInv'
  <2>1. UNCHANGED running
    BY <1>1, TickFrame DEF worldVars
  <2>2. ~teardown_done' \/ "switch" \in Todo' => ~teardown_done
    BY <1>1, TickTodo DEF StructInv, Ends
  <2> QED
    BY <2>1, <2>2 DEF RunInv
<1>2. CASE WorkerStep
  <2>1. UNCHANGED teardown_done /\ WorkerMove /\ (UNCHANGED running \/ TeardownSwitch)
    BY <1>2, WorkerFrame, WorkerMoves DEF StructInv
  <2>2. CASE TeardownSwitch
    <3>1. AtWorker("switch") /\ worker' = [worker EXCEPT !.todo = Tail(@)]
      BY <2>2 DEF TeardownSwitch, WorkerStepDone
    <3>2. /\ "switch" \in Todo
          /\ Ordered(Tail(worker.todo)) /\ StepsOf(Tail(worker.todo)) = Todo \ {"switch"}
      BY <3>1, AtHead DEF StructInv
    <3>3. "switch" \notin Todo'
      BY <3>1, <3>2, TailFacts DEF StructInv
    <3>4. teardown_done
      BY <3>2 DEF StructInv, WorkerInv, RestInv
    <3> QED
      BY <2>1, <3>3, <3>4 DEF RunInv
  <2>3. CASE ~TeardownSwitch
    <3>1. "switch" \in Todo' => "switch" \in Todo
      BY <2>1 DEF WorkerMove
    <3> QED
      BY <2>1, <2>3, <3>1 DEF RunInv
  <2> QED
    BY <2>2, <2>3
<1>3. CASE Operator \/ CommandStep \/ ServerReports
  <2>1. Todo' = Todo
    BY <1>3, CommandFrame, WorkerStays DEF StructInv
  <2>2. CASE SequencerStarted
    BY <2>2 DEF SequencerStarted, At, DriveInv, AimInv, Target, worldVars, RunInv
  <2>3. CASE SwitchControllers
    <3>1. cmd.op \in Arming
      BY <2>3 DEF SwitchControllers, StructInv, CmdInv, CmdType, Ops, StepsOfOp, Arming, None
    <3>2. teardown_done /\ "switch" \notin Todo /\ UNCHANGED teardown_done
      BY <2>3, <3>1 DEF ClearInv, Busy, StructInv, WorkerInv, SwitchControllers, QuietOwn
    <3> QED
      BY <2>1, <3>2 DEF RunInv
  <2>4. CASE UNCHANGED <<running, teardown_done>>
    BY <2>1, <2>4 DEF RunInv
  <2> QED
    BY <1>3, <2>2, <2>3, <2>4, CommandFrame
<1>4. CASE Callback \/ UNCHANGED vars
  <2>1. UNCHANGED <<running, teardown_done, worker>>
    BY <1>4, CallbackFrame DEF vars, ownVars, worldVars, threadVars
  <2> QED
    BY <2>1, WorkerStays DEF StructInv, RunInv
<1> QED
  BY <1>1, <1>2, <1>3, <1>4 DEF Next

LEMMA TakenStep ==
  ASSUME "apply" \notin Failing, StructInv, LoadInv, RunInv, applied # "failed", [Next]_vars
  PROVE  applied' # "failed"
<1>1. ~(UnloadCompliance /\ applied' = "failed")
  <2> SUFFICES ASSUME UnloadCompliance, applied' = "failed"
               PROVE  FALSE
    OBVIOUS
  <2>1. {"unload", "switch", "finish"} \subseteq Todo
    BY AtHead DEF UnloadCompliance, StructInv, WorkerInv
  <2>2. "compliance" \in loaded \ running
    BY <2>1 DEF LoadInv, RunInv, Busy
  <2> QED
    BY <2>2 DEF UnloadCompliance
<1>2. CASE ReloadCompliance \/ CalibrateBegin
  BY <1>2 DEF ReloadCompliance, CalibrateBegin
<1> QED
  BY <1>1, <1>2, CommandFrame, CallbackFrame, WorkerFrame, TickFrame DEF Next, vars, worldVars

(* The worker ignores the verdict of applyPayload, and may: with a patient  *)
(* operator it fails by a call of its own only (a file that cannot be       *)
(* written, a service that refuses), never because the compliance           *)
(* controller runs or is not loaded, unless the run was entangled.          *)
THEOREM PayloadTaken ==
  ASSUME Patient, "apply" \notin Failing
  PROVE  Spec => [](~entangled => applied # "failed")
<1> DEFINE Taken == ~entangled => RunInv /\ applied # "failed"
<1>1. Init => LoadInv /\ Taken
  BY NoCommandFacts, TeardownSteps DEF Init, Core!Init, LoadInv, RunInv, Busy, Todo, None
<1>2. StructInv /\ LoadInv /\ [Next]_vars => LoadInv'
  BY LoadStep
<1>3. CalibrateBegin /\ StructInv /\ [Next]_vars /\ ~entangled' => RunInv' /\ applied' # "failed"
  BY Untangled, StructStep DEF CalibrateBegin, Busy, StructInv, WorkerInv, RunInv
<1>4. /\ StructInv /\ LoadInv /\ (~entangled => RestInv /\ ClearInv /\ DriveInv)
      /\ Taken /\ [Next]_vars
      => Taken'
  BY <1>3, Untangled, RunStep, TakenStep
<1>5. Taken => (~entangled => applied # "failed")
  OBVIOUS
<1> HIDE DEF Taken
<1> QED
  BY <1>1, <1>2, <1>4, <1>5, Structure, Drive, PTL DEF Spec

-----------------------------------------------------------------------------
(* The state machine under this caller.                                     *)

LEMMA HealthFacts ==
  /\ Health \subseteq Core!HealthFields
  /\ "eki_link" \in Health <=>
       (eki_fresh /\ "state_fresh" \in eki) /\ "connected" \in eki
  /\ "eki_tcp_connected" \in Health <=> "connected" \in eki
  /\ "eki_heartbeat_fresh" \in Health <=> eki_fresh /\ "state_fresh" \in eki
  /\ "eki_program_ready" \in Health <=>
       /\ "program_ready" \in eki /\ "connected" \in eki
       /\ (eki_fresh /\ "state_fresh" \in eki) \/ (rsi_fresh /\ "connected" \in rsi)
  /\ "rsi_topic_fresh" \in Health <=> rsi_fresh
  /\ "rsi_connected" \in Health <=> rsi_fresh /\ "connected" \in rsi
  /\ "rsi_fault" \in Health <=> rsi_fresh /\ "fault" \in rsi
BY DEF Health, Core!HealthFields

LEMMA HealthIsInput == Health \in Core!HealthInputs
BY HealthFacts DEF Core!HealthInputs

(* The manager only ever drives SystemStateCore by its methods, and with    *)
(* snapshots that satisfy what healthLocked promises of them, so that what  *)
(* holds of the machine under any caller holds in the manager.              *)
THEOREM DrivesStateMachine == Spec => Core!Spec
<1>1. Init => Core!Init
  BY DEF Init
<1>2. [Next]_vars => [Core!Next]_(Core!coreVars)
  <2> SUFFICES ASSUME [Next]_vars
               PROVE  Core!Next \/ UNCHANGED coreVars
    BY DEF coreVars, Core!coreVars
  <2>1. ASSUME NEW elapsed \in BOOLEAN, NEW retry_due \in BOOLEAN, Tick(elapsed, retry_due)
        PROVE  Core!Next
    BY <2>1, HealthIsInput DEF Tick, Core!Next
  <2>2. CASE WorkerStep
    BY <2>2, WorkerFrame DEF TeardownFinish, Core!Next
  <2>3. CASE Operator \/ CommandStep \/ ServerReports
    BY <2>3, CommandFrame, HealthIsInput
       DEF StartVerdict, StopVerdict, ResetVerdict, CalibrateBegin, CalibrateAbort,
           SequencerRefuses, GoalAborted, Core!Next, coreVars
  <2>4. CASE Callback \/ UNCHANGED vars
    BY <2>4, CallbackFrame DEF vars
  <2> QED
    BY <2>1, <2>2, <2>3, <2>4 DEF Next
<1> QED
  BY <1>1, <1>2, PTL DEF Spec, Core!Spec

=============================================================================
