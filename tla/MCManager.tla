----------------------------- MODULE MCManager -----------------------------
(* Feeds for the runs of Manager.                                           *)
EXTENDS Manager

(* The KRL program idles: its heartbeat is fresh and RSI is off.            *)
KrlIdle == {"connected", "state_fresh", "program_ready"}

(* Inside RSI_MOVECORR the heartbeat pauses; the bridge keeps repeating the *)
(* last one, which KRL sent after raising rsi_active.                       *)
KrlServes == {"connected", "program_ready", "rsi_active"}

(* The last heartbeat before MOVECORR, while it is still fresh.             *)
KrlEnters == KrlServes \cup {"state_fresh"}

(* The program before, during and after a session.                          *)
SessionEki == {KrlIdle, KrlServes}

(* RsiSessionMonitor sees frames, has missed five in a row (it stays        *)
(* connected for ever once it has seen one).                                *)
SessionRsi == {{"connected"}, {"connected", "fault"}}

(* Before the first frame too.                                              *)
ServoRsi == SessionRsi \cup {{}}

SteadyEki == {KrlEnters}
SteadyRsi == {{"connected"}}
FaultyEki == {KrlEnters, KrlEnters \cup {"fault"}}

OnlyTrue == {TRUE}

=============================================================================
