------------------------- MODULE MCForceCompliance -------------------------
(* The mode requests for the runs of ForceCompliance.                       *)
EXTENDS ForceCompliance

SomeModes ==
  {[mode |-> m, profile |-> p] : m \in {"IDLE", "COMPLIANCE"}, p \in Profiles}
    \cup {[mode |-> "DIRECT", profile |-> "PRECISION"]}

=============================================================================
