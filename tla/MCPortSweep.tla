---------------------------- MODULE MCPortSweep ----------------------------
(* Instances of PortSweep for TLC: two hosts, three addresses, a full profile *)
(* whose pace fits the window for one address, and is capped for three.       *)
EXTENDS PortSweep, TLC

CONSTANTS x, y

Row(ix, iy, scope, alive, eligible, psv8) ==
  [ips |-> (x :> ix) @@ (y :> iy), scope |-> scope, alive |-> alive,
   eligible |-> eligible, psv8 |-> psv8]

\* Shared and rejected addresses, a host without one, a passive address, a host
\* the gate no longer lets through.
SweepInputs ==
  { Row({1, 2}, {2, 3}, {x, y}, {x}, {1, 2, 3}, {}),
    Row({1}, {}, {x, y}, {x, y}, {1, 2}, {3}),
    Row({2}, {3}, {x}, {y}, {1, 2, 3}, {1}),
    Row({}, {3}, {x, y}, {}, {1, 2}, {2}) }

Ports3 == ("full" :> 4) @@ ("light" :> 1)
Caps == ("full" :> 2) @@ ("light" :> 2)
=============================================================================
