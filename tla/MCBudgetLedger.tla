--------------------------- MODULE MCBudgetLedger ---------------------------
(* Small values for BudgetLedger: requests and tokens, as chat_turn reserves *)
(* them, a process dimension that is only tracked.                            *)
EXTENDS BudgetLedger, TLC

CONSTANTS i1, i2, i3, req, tok, wall

MCDims == {req, tok, wall}
MCLimits == (req :> 3) @@ (tok :> 3) @@ (wall :> NoLimit)
MCRequests == {(req :> 1) @@ (tok :> 2), (tok :> 1) @@ (wall :> 1)}
MCActuals == {req :> 1, (req :> 1) @@ (tok :> 1), (req :> 1) @@ (tok :> 3),
              (tok :> 1) @@ (wall :> 2)}
MCFloors == {(req :> 1) @@ (tok :> 1)}
MCGrants == {tok :> 2, (req :> 1) @@ (tok :> 1)}
MCSymmetry == Permutations({i1, i2, i3})
=============================================================================
