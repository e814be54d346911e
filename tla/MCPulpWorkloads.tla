-------------------------- MODULE MCPulpWorkloads ---------------------------
(***************************************************************************)
(* Instances of PulpWorkloads for TLC.                                      *)
(***************************************************************************)
EXTENDS PulpWorkloads

Pulp(image, n, scaler, budgets, cache, telemetry) ==
  [image |-> image, replicas |-> n, hpa |-> scaler,
   pdb |-> budgets, cache |-> cache, otel |-> telemetry]

Off     == [on |-> FALSE, min |-> 0]
From(n) == [on |-> TRUE, min |-> n]

TwoImages == {"old", "new"}
Fields2   == {"minAvailable", "maxUnavailable"}

Plain    == Pulp("old", 2, Off, {}, "off", FALSE)
Cached   == Pulp("old", 2, Off, {"minAvailable"}, "own", TRUE)
Scaled   == Pulp("old", 2, From(2), {"maxUnavailable"}, "own", FALSE)
Upgraded == Pulp("new", 1, From(0), {}, "external", TRUE)

Variants == {Plain, Cached, Scaled, Upgraded}
Starts   == {Plain, Cached}
=============================================================================
