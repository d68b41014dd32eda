--------------------------- MODULE MCCoordinator ---------------------------
(* The coordinator on a handful of request ids. *)
EXTENDS Coordinator

NoPlans  == {}
TwoPlans == {<<"game", "warp">>, <<"warp", "game">>}
OnePlan  == {<<"warp">>}
=============================================================================
