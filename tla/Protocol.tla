------------------------------ MODULE Protocol ------------------------------
(* The canonical lifecycle state machine of pkg/protocol.                  *)

States == {"registered", "active", "renewing", "retired"}

AllowedTransitions ==
    { <<"registered", "active">>,
      <<"active", "renewing">>, <<"active", "retired">>,
      <<"renewing", "active">>, <<"renewing", "retired">> }

CanTransition(from, to) == <<from, to>> \in AllowedTransitions
=============================================================================
