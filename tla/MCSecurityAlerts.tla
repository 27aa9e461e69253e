-------------------------- MODULE MCSecurityAlerts --------------------------
EXTENDS SecurityAlertsInv

CONSTANTS a1, a2, a3, a4, x, y, t1, rec

(* Two pairs of neighbours, the later one beyond the cooldown of the       *)
(* earlier.  Both pairs reach the threshold of one rule, the earlier one   *)
(* also that of the other, which counts targets.                           *)
MCAt        == (a1 :> 1) @@ (a2 :> 2) @@ (a3 :> 4) @@ (a4 :> 5)
MCTarget    == (a1 :> x) @@ (a2 :> y) @@ (a3 :> y) @@ (a4 :> y)
MCThreshold == [repeated |-> 2, probe |-> 2]
MCWindow    == [repeated |-> 1, probe |-> 1]
=============================================================================
